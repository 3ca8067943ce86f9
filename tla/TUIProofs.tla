-------------------------------- MODULE TUIProofs --------------------------------
(****************************************************************************)
(* Proofs about TUI, for any number of connections and frames and any       *)
(* capacity of the shared channel.                                          *)
(****************************************************************************)
EXTENDS TUI, FiniteSetTheorems, SequenceTheorems, TLAPS

\* As connections are dialled in turn, Dialed is the number of the last one.
LEMMA DialedType ==
  ASSUME TypeOK
  PROVE  Dialed \in Nat /\ Dialed <= MaxDials
<1> DEFINE S == {k \in Links : link[k] # "none"}
<1>1. IsFiniteSet(Links) /\ Cardinality(Links) = MaxDials
  BY TUIAssumption, FS_Interval DEF Links
<1>2. IsFiniteSet(S) /\ Cardinality(S) <= Cardinality(Links)
  BY <1>1, FS_Subset
<1>3. Cardinality(S) \in Nat
  BY <1>2, FS_CardinalityType
<1> QED
  BY <1>1, <1>2, <1>3 DEF Dialed

\* Whatever keeps the set of dialled connections keeps their number.
LEMMA DialedKept ==
  ASSUME \A k \in Links : (link'[k] # "none") <=> (link[k] # "none")
  PROVE  Dialed' = Dialed /\ {k \in Links : link'[k] # "none"} = {k \in Links : link[k] # "none"}
<1>1. {k \in Links : link'[k] # "none"} = {k \in Links : link[k] # "none"}
  OBVIOUS
<1> QED
  BY <1>1 DEF Dialed

\* A dial takes the next number.
LEMMA DialCounts ==
  ASSUME TypeOK, DialedInTurn, DialOpens
  PROVE  /\ Dialed' = Dialed + 1 /\ Dialed + 1 \in Links
         /\ {k \in Links : link'[k] # "none"} = 1 .. Dialed + 1
<1>1. Dialed \in Nat /\ Dialed + 1 \in Links
  BY DialedType, TUIAssumption DEF DialOpens, Links
<1>2. \A k \in Links : link'[k] # "none" <=> k \in 1 .. Dialed + 1
  <2>1. \A k \in Links : link[k] # "none" <=> k \in 1 .. Dialed
    BY DEF DialedInTurn
  <2>2. link' = [link EXCEPT ![Dialed + 1] = "open"] /\ DOMAIN link = Links
    BY DEF DialOpens, TypeOK
  <2> HIDE DEF Links, Dialed
  <2> QED
    BY <1>1, <2>1, <2>2
<1>3. {k \in Links : link'[k] # "none"} = 1 .. Dialed + 1
  <2>1. 1 .. Dialed + 1 \subseteq Links
    BY <1>1, TUIAssumption DEF Links
  <2> QED
    BY <1>2, <2>1
<1>4. Cardinality(1 .. Dialed + 1) = Dialed + 1
  BY <1>1, FS_Interval
<1> QED
  BY <1>1, <1>3, <1>4 DEF Dialed

\* At most one link of the chain exists: an event in hand is alone there.
LEMMA InHandAlone ==
  ASSUME TypeOK, OneChain
  PROVE  /\ Cardinality(inHand) \in Nat
         /\ inHand # {} => dials = 0 /\ connecteds = 0 /\ sleeps = 0 /\ readers = 0
         /\ \A e, f \in inHand : e = f
         /\ dials + connecteds + sleeps + readers > 0 => inHand = {}
<1>1. Cardinality(inHand) \in Nat /\ (Cardinality(inHand) = 0 <=> inHand = {})
  BY FS_CardinalityType, FS_EmptySet DEF OneChain
<1>2. \A e, f \in inHand : e = f
  <2> SUFFICES ASSUME NEW e \in inHand, NEW f \in inHand, e # f PROVE FALSE
    OBVIOUS
  <2>1. IsFiniteSet({e, f}) /\ Cardinality({e, f}) = 2
    <3>1. IsFiniteSet({e}) /\ Cardinality({e}) = 1
      BY FS_Singleton
    <3>2. IsFiniteSet({e} \cup {f}) /\ Cardinality({e} \cup {f}) = 2
      BY <3>1, FS_AddElement
    <3>3. {e} \cup {f} = {e, f}
      OBVIOUS
    <3> QED
      BY <3>2, <3>3
  <2>2. Cardinality({e, f}) <= Cardinality(inHand)
    BY FS_Subset DEF OneChain
  <2> QED
    BY <1>1, <2>1, <2>2 DEF OneChain, TypeOK
<1> QED
  BY <1>1, <1>2 DEF OneChain, TypeOK

\* Every step keeps the state typed, the delay within its cap and the channel within its
\* capacity.
LEMMA TypeSteps ==
  ASSUME CommandInv, Next
  PROVE  TypeOK'
<1> USE TUIAssumption DEF CommandInv, TypeOK, modelVars, cmdVars, backVars
<1>1. CASE DialOpens
  <2>1. Dialed + 1 \in Links /\ Dialed + 1 \in 0 .. MaxDials
    BY <1>1, DialCounts DEF Links
  <2> QED
    BY <1>1, <2>1 DEF DialOpens
<1>2. ASSUME NEW k \in Links, LinkBreaks(k) PROVE TypeOK'
  BY <1>2 DEF LinkBreaks
<1>3. ASSUME NEW k \in Links, NEW kind \in Kinds, PumpReads(k, kind) PROVE TypeOK'
  <2>1. got[k] + 1 \in 0 .. MaxMsgs + 1
    BY <1>3 DEF PumpReads, DialedInTurn
  <2> QED
    BY <1>3, <2>1 DEF PumpReads
<1>4. ASSUME NEW k \in Links, PumpDelivers(k) PROVE TypeOK'
  <2> DEFINE e == [kind |-> held[k], link |-> k, seq |-> got[k]]
  <2>1. e \in Events
    BY <1>4 DEF PumpDelivers, DialedInTurn, Events
  <2>2. out' \in Seq(Events) /\ Len(out') <= OutCap
    <3>1. CASE Len(out) < OutCap /\ out' = Append(out, e)
      BY <2>1, <3>1, LenProperties, AppendProperties
    <3>2. CASE UNCHANGED out
      BY <3>2
    <3> QED
      BY <1>4, <3>1, <3>2 DEF PumpDelivers
  <2> QED
    BY <1>4, <2>2 DEF PumpDelivers
<1>5. CASE ReadCmdReceives
  <2>1. Head(out) \in Events /\ Tail(out) \in Seq(Events) /\ Len(Tail(out)) <= OutCap
    BY <1>5, HeadTailProperties DEF ReadCmdReceives
  <2> QED
    BY <1>5, <2>1 DEF ReadCmdReceives
<1>6. CASE ReadCmdDone
  BY <1>6 DEF ReadCmdDone
<1>7. CASE HandleConnectFailed
  BY <1>7 DEF HandleConnectFailed, ScheduleReconnect, NextBackoff
<1>8. CASE HandleConnected
  BY <1>8 DEF HandleConnected
<1>9. CASE HandleReconnect
  BY <1>9 DEF HandleReconnect
<1>10. CASE HandleTick
  BY <1>10 DEF HandleTick
<1>11. ASSUME NEW e \in inHand, HandleEvent(e) PROVE TypeOK'
  <2>1. live' \in BOOLEAN
    BY <1>11, Zenon DEF HandleEvent
  <2>2. shown' \in (0 .. MaxDials) \X (0 .. MaxMsgs + 1)
    BY <1>11 DEF HandleEvent, Events, Links
  <2>3. /\ backoff' \in 0 .. Cap /\ sleeps' \in Nat
        /\ ws' \in {"connecting", "connected", "reconnecting"}
    <3>1. CASE Fatal(e)
      <4>1. NextBackoff \in 0 .. Cap
        BY DEF NextBackoff
      <4> QED
        BY <1>11, <3>1, <4>1 DEF HandleEvent, ScheduleReconnect
    <3>2. CASE ~Fatal(e)
      <4>1. UNCHANGED <<ws, backoff, sleeps>>
        BY <1>11, <3>2 DEF HandleEvent
      <4> QED
        BY <4>1
    <3> QED
      BY <3>1, <3>2
  <2>4. readers' \in Nat
    BY <1>11 DEF HandleEvent, ReadAgain
  <2>5. ticks' \in Nat
    <3>1. ticks' = ticks \/ ticks' = ticks + 1
      BY <1>11 DEF HandleEvent, TickIfLive
    <3> QED
      BY <3>1
  <2> QED
    BY <1>11, <2>1, <2>2, <2>3, <2>4, <2>5 DEF HandleEvent
<1>12. CASE HandleQuitKey
  <2>1. done' \in BOOLEAN
    BY <1>12, Zenon DEF HandleQuitKey
  <2>2. conn' \in 0 .. MaxDials /\ link' \in [Links -> {"none", "open", "broken"}]
    <3>1. CASE done
      BY <1>12, <3>1 DEF HandleQuitKey
    <3>2. CASE ~done /\ conn = 0
      BY <1>12, <3>2 DEF HandleQuitKey, CloseConn
    <3>3. CASE ~done /\ conn # 0
      <4>1. conn' = 0 /\ link' = [link EXCEPT ![conn] = "broken"]
        BY <1>12, <3>3 DEF HandleQuitKey, CloseConn
      <4>2. conn \in Links
        BY <3>3 DEF Links
      <4> QED
        BY <4>1, <4>2
    <3> QED
      BY <3>1, <3>2, <3>3
  <2>3. program' \in {"running", "quit", "panicked"}
    BY <1>12 DEF HandleQuitKey
  <2> QED
    BY <1>12, <2>1, <2>2, <2>3 DEF HandleQuitKey
<1>13. CASE HandleQuit
  BY <1>13 DEF HandleQuit
<1> QED
  BY <1>1, <1>2, <1>3, <1>4, <1>5, <1>6, <1>7, <1>8, <1>9, <1>10, <1>11, <1>12, <1>13
     DEF Next, Pump

\* Every step hands the one command on or ends it, and keeps the clock running.
LEMMA ChainSteps ==
  ASSUME CommandInv, Next
  PROVE  OneChain' /\ ClockRuns'
<1> USE DEF CommandInv, TypeOK, OneChain, ClockRuns, modelVars, cmdVars, backVars
<1>0. Cardinality(inHand) \in Nat
  BY InHandAlone
<1>1. CASE DialOpens
  BY <1>0, <1>1 DEF DialOpens
<1>2. ASSUME NEW k \in Links, LinkBreaks(k) \/ Pump(k) PROVE OneChain' /\ ClockRuns'
  BY <1>2 DEF LinkBreaks, Pump, PumpReads, PumpDelivers
<1>3. CASE ReadCmdReceives
  <2>1. inHand = {} /\ inHand' = {Head(out)}
    BY <1>3, InHandAlone DEF ReadCmdReceives
  <2>2. IsFiniteSet(inHand') /\ Cardinality(inHand') = 1 /\ Cardinality(inHand) = 0
    BY <2>1, FS_Singleton, FS_EmptySet
  <2> QED
    BY <1>3, <2>2 DEF ReadCmdReceives
<1>4. CASE ReadCmdDone
  BY <1>0, <1>4 DEF ReadCmdDone
<1>5. CASE HandleConnectFailed
  BY <1>0, <1>5 DEF HandleConnectFailed, ScheduleReconnect
<1>6. CASE HandleConnected
  BY <1>0, <1>6 DEF HandleConnected
<1>7. CASE HandleReconnect
  BY <1>0, <1>7 DEF HandleReconnect
<1>8. CASE HandleTick
  BY <1>0, <1>8 DEF HandleTick
<1>9. ASSUME NEW e \in inHand, HandleEvent(e) PROVE OneChain' /\ ClockRuns'
  <2>1. IsFiniteSet(inHand') /\ Cardinality(inHand') = 0
    <3>1. inHand' = {}
      BY <1>9, InHandAlone DEF HandleEvent
    <3> QED
      BY <3>1, FS_EmptySet
  <2>2. dials = 0 /\ connecteds = 0 /\ sleeps = 0 /\ readers = 0
    BY InHandAlone
  <2>3. OneChain'
    BY <1>9, <2>1, <2>2 DEF HandleEvent, ScheduleReconnect, ReadAgain
  <2>4. ClockRuns'
    <3>1. CASE e.kind \in {"lost", "bad"}
      <4>1. live' = live /\ ticks' = ticks
        BY <1>9, <3>1 DEF HandleEvent
      <4> QED
        BY <4>1
    <3>2. CASE e.kind \notin {"lost", "bad"}
      <4>1. ticks' = IF live' THEN ticks + 1 ELSE ticks
        BY <1>9, <3>2 DEF HandleEvent, TickIfLive
      <4> QED
        BY <4>1
    <3> QED
      BY <3>1, <3>2
  <2> QED
    BY <2>3, <2>4
<1>10. CASE HandleQuitKey
  BY <1>10 DEF HandleQuitKey
<1>11. CASE HandleQuit
  BY <1>11 DEF HandleQuit
<1> QED
  BY <1>1, <1>2, <1>3, <1>4, <1>5, <1>6, <1>7, <1>8, <1>9, <1>10, <1>11 DEF Next

\* No step but a dial changes which connections have been dialled.
LEMMA LinksStay ==
  ASSUME CommandInv, Next, ~DialOpens
  PROVE  Dialed' = Dialed /\ {k \in Links : link'[k] # "none"} = 1 .. Dialed
<1> USE DEF CommandInv, TypeOK, DialedInTurn, modelVars, cmdVars, backVars
<1> SUFFICES \A k \in Links : (link'[k] # "none") <=> (link[k] # "none")
  BY DialedKept
<1>1. ASSUME NEW j \in Links, LinkBreaks(j)
      PROVE  \A k \in Links : (link'[k] # "none") <=> (link[k] # "none")
  BY <1>1 DEF LinkBreaks
<1>2. CASE HandleQuitKey
  <2>1. CASE done \/ conn = 0
    BY <1>2, <2>1 DEF HandleQuitKey, CloseConn
  <2>2. CASE ~done /\ conn # 0
    <3>1. link' = [link EXCEPT ![Dialed] = "broken"] /\ Dialed \in 1 .. Dialed
      BY <1>2, <2>2, DialedType DEF HandleQuitKey, CloseConn
    <3>2. Dialed \in Links /\ link[Dialed] # "none"
      BY <3>1
    <3> QED
      BY <3>1, <3>2
  <2> QED
    BY <2>1, <2>2
<1>3. ASSUME NEW j \in Links, Pump(j) PROVE UNCHANGED link
  BY <1>3 DEF Pump, PumpReads, PumpDelivers
<1>4. ASSUME NEW e \in inHand, HandleEvent(e) PROVE UNCHANGED link
  BY <1>4 DEF HandleEvent
<1>5. CASE ReadCmdReceives \/ ReadCmdDone \/ HandleQuit
  BY <1>5 DEF ReadCmdReceives, ReadCmdDone, HandleQuit
<1>6. CASE HandleConnectFailed \/ HandleConnected \/ HandleReconnect \/ HandleTick
  BY <1>6 DEF HandleConnectFailed, HandleConnected, HandleReconnect, HandleTick
<1> QED
  BY <1>1, <1>2, <1>3, <1>4, <1>5, <1>6 DEF Next

\* Every step dials in turn, and a connection is dialled only when no readPump is left.
LEMMA DialSteps ==
  ASSUME CommandInv, Next
  PROVE  DialedInTurn' /\ OnePump'
<1> USE TUIAssumption
    DEF CommandInv, TypeOK, DialedInTurn, OnePump, modelVars, cmdVars, backVars
<1>0. Dialed \in Nat /\ Dialed <= MaxDials
  BY DialedType
<1>1. CASE DialOpens
  <2>1. /\ Dialed' = Dialed + 1 /\ Dialed + 1 \in Links
        /\ {k \in Links : link'[k] # "none"} = 1 .. Dialed + 1
    BY <1>1, DialCounts
  <2>2. /\ dials > 0 /\ conn' = Dialed + 1 /\ got' = got /\ held' = held
        /\ pump' = [pump EXCEPT ![Dialed + 1] = "reading"]
    BY <1>1 DEF DialOpens
  <2> HIDE DEF Dialed
  <2>3. \A k \in Links : pump[k] \in {"none", "returned"}
    BY <2>2
  <2>4. \A k \in Links : k # Dialed + 1 => pump'[k] = pump[k]
    BY <2>2
  <2>5. pump'[Dialed + 1] = "reading" /\ pump[Dialed + 1] = "none"
    BY <1>0, <2>1, <2>2
  <2>6. dials' = dials - 1 /\ sleeps' = sleeps /\ dials' + sleeps' = 0
    BY <1>1, InHandAlone DEF DialOpens, OneChain
  <2>7. OnePump'
    BY <2>1, <2>3, <2>4, <2>6
  <2>8. \A k \in Links :
          /\ pump'[k] # "none" <=> k <= Dialed + 1
          /\ pump'[k] = "none" => got[k] = 0
          /\ pump'[k] = "reading" => got[k] <= MaxMsgs
          /\ pump'[k] = "delivering" => got[k] > 0 /\ (held[k] # "lost" => got[k] <= MaxMsgs)
    BY <1>0, <2>1, <2>3, <2>4, <2>5 DEF Links
  <2> QED
    BY <2>1, <2>2, <2>7, <2>8
<1>2. SUFFICES ASSUME ~DialOpens PROVE DialedInTurn' /\ OnePump'
  BY <1>1
<1>3. Dialed' = Dialed /\ {k \in Links : link'[k] # "none"} = 1 .. Dialed
  BY <1>2, LinksStay
<1>4. ASSUME NEW k \in Links, LinkBreaks(k) PROVE DialedInTurn' /\ OnePump'
  BY <1>3, <1>4 DEF LinkBreaks
<1>5. ASSUME NEW k \in Links, NEW kind \in Kinds, PumpReads(k, kind)
      PROVE  DialedInTurn' /\ OnePump'
  BY <1>3, <1>5 DEF PumpReads
<1>6. ASSUME NEW k \in Links, PumpDelivers(k) PROVE DialedInTurn' /\ OnePump'
  BY <1>3, <1>6 DEF PumpDelivers
<1>7. ASSUME UNCHANGED <<pump, got, held>>, conn' \in {0, conn}
      PROVE  /\ DialedInTurn'
             /\ (dials' + sleeps' > 0 => dials + sleeps > 0) => OnePump'
  BY <1>3, <1>7
<1>8. CASE ReadCmdReceives \/ ReadCmdDone
  BY <1>7, <1>8 DEF ReadCmdReceives, ReadCmdDone
<1>9. CASE HandleConnectFailed \/ HandleConnected \/ HandleReconnect \/ HandleTick
  BY <1>7, <1>9
     DEF HandleConnectFailed, ScheduleReconnect, HandleConnected, HandleReconnect, HandleTick
<1>10. ASSUME NEW e \in inHand, HandleEvent(e) PROVE DialedInTurn' /\ OnePump'
  <2>1. UNCHANGED <<conn, pump, got, held>> /\ dials' = dials
    BY <1>10 DEF HandleEvent
  <2>2. CASE Fatal(e)
    <3>1. pump[Dialed] = "returned"
      BY <2>2 DEF Fatal, Pipeline, Queued
    <3> QED
      BY <1>3, <1>7, <2>1, <3>1
  <2>3. CASE ~Fatal(e)
    BY <1>7, <1>10, <2>1, <2>3 DEF HandleEvent
  <2> QED
    BY <2>2, <2>3
<1>11. CASE HandleQuitKey \/ HandleQuit
  BY <1>7, <1>11 DEF HandleQuitKey, CloseConn, HandleQuit
<1> QED
  BY <1>2, <1>4, <1>5, <1>6, <1>8, <1>9, <1>10, <1>11 DEF Next, Pump

\* What is queued are events.
LEMMA QueuedTyped ==
  ASSUME TypeOK
  PROVE  /\ DOMAIN out = 1 .. Len(out) /\ Len(out) \in Nat
         /\ \A e \in Queued : e \in Events /\ e.link \in Links /\ e.seq \in Nat
<1>1. DOMAIN out = 1 .. Len(out) /\ Len(out) \in Nat /\ \A i \in 1 .. Len(out) : out[i] \in Events
  BY DEF TypeOK
<1>2. \A e \in Events : e.link \in Links /\ e.seq \in Nat
  BY TUIAssumption DEF Events
<1> QED
  BY <1>1, <1>2 DEF Queued, TypeOK

\* A step that touches neither the pipeline nor what is shown keeps the order, if it does
\* not dial.
LEMMA PipelineStays ==
  ASSUME Pipeline, Dialed' = Dialed, UNCHANGED <<pump, got, shown, out, inHand>>,
         dials' + sleeps' > 0 => out = <<>>
  PROVE  Pipeline'
BY DEF Pipeline, Queued

\* Every step keeps the order of the pipeline.
LEMMA PipelineSteps ==
  ASSUME CommandInv, Next
  PROVE  Pipeline'
<1> USE DEF modelVars, cmdVars, backVars
<1>1. TypeOK /\ Pipeline /\ Dialed \in Nat /\ (dials + sleeps > 0 => out = <<>>)
  BY DialedType DEF CommandInv, Pipeline
<1>2. \A k \in Links : pump[k] \in {"reading", "delivering"} => k = Dialed /\ ~(dials + sleeps > 0)
  BY DEF CommandInv, OnePump
<1>3. CASE DialOpens
  <2>1. out = <<>> /\ inHand = {} /\ UNCHANGED <<out, inHand, shown>>
    BY <1>1, <1>3, InHandAlone DEF DialOpens, CommandInv, TypeOK
  <2>2. Dialed' = Dialed + 1 /\ shown'[1] < Dialed' /\ shown'[1] # Dialed'
    <3>1. Dialed' = Dialed + 1
      BY <1>3, DialCounts DEF CommandInv
    <3>2. shown[1] \in Nat /\ shown[1] <= Dialed
      BY <1>1 DEF TypeOK, Pipeline
    <3> QED
      BY <1>1, <2>1, <3>1, <3>2
  <2>3. Queued' = {}
    BY <2>1 DEF Queued
  <2>4. shown'[1] <= Dialed'
    BY <1>1, <2>1, <2>2 DEF TypeOK
  <2> QED
    BY <2>1, <2>2, <2>3, <2>4 DEF Pipeline
<1>4. SUFFICES ASSUME ~DialOpens PROVE Pipeline'
  BY <1>3
<1>5. Dialed' = Dialed
  BY <1>4, LinksStay
<1>6. ASSUME NEW k \in Links, LinkBreaks(k) PROVE Pipeline'
  BY <1>1, <1>5, <1>6, PipelineStays DEF LinkBreaks
<1>7. ASSUME NEW k \in Links, NEW kind \in Kinds, PumpReads(k, kind) PROVE Pipeline'
  <2>1. /\ k = Dialed /\ pump[Dialed] = "reading" /\ ~(dials + sleeps > 0)
        /\ UNCHANGED <<out, inHand, shown, dials, sleeps>>
    BY <1>2, <1>7 DEF PumpReads
  <2>2. /\ pump'[Dialed] = "delivering" /\ got'[Dialed] = got[Dialed] + 1
        /\ got[Dialed] \in Nat /\ shown[2] \in Nat
    BY <1>1, <1>7, <2>1, TUIAssumption DEF PumpReads, TypeOK
  <2>3. Queued' = Queued /\ \A e \in Queued : e.seq \in Nat
    BY <1>1, <2>1, QueuedTyped DEF Queued
  <2> QED
    BY <1>1, <1>5, <2>1, <2>2, <2>3 DEF Pipeline
<1>8. ASSUME NEW k \in Links, PumpDelivers(k) PROVE Pipeline'
  <2> DEFINE e == [kind |-> held[k], link |-> k, seq |-> got[k]]
  <2>1. /\ k = Dialed /\ pump[Dialed] = "delivering" /\ ~(dials + sleeps > 0)
        /\ UNCHANGED <<inHand, shown, dials, sleeps, got>>
        /\ pump' = [pump EXCEPT ![k] = IF held[k] = "lost" THEN "returned" ELSE "reading"]
    BY <1>2, <1>8 DEF PumpDelivers
  <2>2. /\ pump'[Dialed] \in {"reading", "returned"}
        /\ held[k] = "lost" => pump'[Dialed] = "returned"
    BY <1>1, <2>1 DEF TypeOK
  <2>3. CASE UNCHANGED out
    <3>1. Queued' = Queued /\ \A f \in Queued : f.kind # "lost"
      BY <1>1, <2>1, <2>3 DEF Queued, Pipeline
    <3> QED
      BY <1>1, <1>5, <2>1, <2>2, <2>3, <3>1 DEF Pipeline
  <2>4. CASE out' = Append(out, e)
    <3>1. /\ e.kind = held[k] /\ e.link = Dialed /\ e.seq = got[Dialed] /\ got[Dialed] \in Nat
          /\ DOMAIN out = 1 .. Len(out) /\ Len(out) \in Nat
      BY <1>1, <2>1, TUIAssumption, QueuedTyped DEF TypeOK
    <3>2. /\ DOMAIN out' = 1 .. Len(out) + 1 /\ out'[Len(out) + 1] = e
          /\ \A i \in 1 .. Len(out) : out'[i] = out[i]
      BY <1>1, <2>4, AppendProperties DEF TypeOK
    <3> HIDE DEF e
    <3>3. Queued' = Queued \cup {e}
      BY <2>1, <3>1, <3>2 DEF Queued
    <3>4. \A f \in Queued :
            f.link = Dialed /\ f.kind # "lost" /\ f.seq \in Nat /\ f.seq < e.seq
      BY <1>1, <2>1, <3>1, QueuedTyped DEF Pipeline
    <3>5. shown[1] = Dialed => shown[2] < e.seq /\ shown[2] \in Nat
      <4>1. Dialed # 0 /\ shown[2] \in Nat
        BY <1>1, <2>1, TUIAssumption DEF TypeOK, Links
      <4> QED
        BY <1>1, <2>1, <3>1, <4>1 DEF Pipeline
    <3>6. \A f \in Queued' :
            /\ f.link = Dialed' /\ f.seq <= got'[Dialed']
            /\ f.kind = "lost" => pump'[Dialed'] = "returned"
            /\ shown'[1] = Dialed' => shown'[2] < f.seq
      BY <1>1, <1>5, <2>1, <2>2, <3>1, <3>3, <3>4, <3>5 DEF Pipeline
    <3>7. \A f \in inHand', i \in DOMAIN out' : f.kind # "lost" /\ f.seq < out'[i].seq
      <4> SUFFICES ASSUME NEW f \in inHand, NEW i \in 1 .. Len(out) + 1
                   PROVE  f.kind # "lost" /\ f.seq < out'[i].seq
        BY <2>1, <3>2
      <4>1. f \in Queued
        BY DEF Queued
      <4>2. CASE i = Len(out) + 1
        BY <3>2, <3>4, <4>1, <4>2
      <4>3. CASE i # Len(out) + 1
        <5>1. i \in DOMAIN out /\ out'[i] = out[i]
          BY <3>1, <3>2, <4>3
        <5> QED
          BY <1>1, <5>1 DEF Pipeline
      <4> QED
        BY <4>2, <4>3
    <3>8. \A i, j \in DOMAIN out' : i < j => out'[i].kind # "lost" /\ out'[i].seq < out'[j].seq
      <4> SUFFICES ASSUME NEW i \in 1 .. Len(out) + 1, NEW j \in 1 .. Len(out) + 1, i < j
                   PROVE  out'[i].kind # "lost" /\ out'[i].seq < out'[j].seq
        BY <3>2
      <4>1. i \in DOMAIN out /\ out'[i] = out[i] /\ out[i] \in Queued
        BY <3>1, <3>2 DEF Queued
      <4>2. CASE j = Len(out) + 1
        BY <3>2, <3>4, <4>1, <4>2
      <4>3. CASE j # Len(out) + 1
        BY <1>1, <3>1, <3>2, <4>1, <4>3 DEF Pipeline
      <4> QED
        BY <4>2, <4>3
    <3> QED
      BY <1>1, <1>5, <2>1, <2>2, <3>1, <3>5, <3>6, <3>7, <3>8 DEF Pipeline
  <2> QED
    BY <1>8, <2>3, <2>4 DEF PumpDelivers
<1>9. CASE ReadCmdReceives
  <2>1. /\ out # <<>> /\ inHand' = inHand \cup {Head(out)} /\ out' = Tail(out)
        /\ UNCHANGED <<dials, sleeps, pump, got, shown>> /\ readers > 0
    BY <1>9 DEF ReadCmdReceives
  <2>2. inHand = {} /\ dials = 0 /\ sleeps = 0
    BY <1>1, <2>1, InHandAlone DEF CommandInv, OneChain, TypeOK
  <2>3. /\ DOMAIN out = 1 .. Len(out) /\ Len(out) \in Nat \ {0}
        /\ inHand' = {out[1]} /\ DOMAIN out' = 1 .. Len(out) - 1
        /\ \A i \in DOMAIN out' : out'[i] = out[i + 1]
    BY <1>1, <2>1, <2>2, HeadTailProperties DEF TypeOK
  <2>4. Queued' \subseteq Queued
    BY <2>3 DEF Queued
  <2>5. \A f \in inHand', i \in DOMAIN out' : f.kind # "lost" /\ f.seq < out'[i].seq
    <3> SUFFICES ASSUME NEW i \in DOMAIN out'
                 PROVE  out[1].kind # "lost" /\ out[1].seq < out'[i].seq
      BY <2>3
    <3>1. 1 \in DOMAIN out /\ i + 1 \in DOMAIN out /\ 1 < i + 1
      BY <2>3
    <3> QED
      BY <1>1, <2>3, <3>1 DEF Pipeline
  <2>6. \A i, j \in DOMAIN out' : i < j => out'[i].kind # "lost" /\ out'[i].seq < out'[j].seq
    <3> SUFFICES ASSUME NEW i \in DOMAIN out', NEW j \in DOMAIN out', i < j
                 PROVE  out'[i].kind # "lost" /\ out'[i].seq < out'[j].seq
      OBVIOUS
    <3>1. i + 1 \in DOMAIN out /\ j + 1 \in DOMAIN out /\ i + 1 < j + 1
      BY <2>3
    <3> QED
      BY <1>1, <2>3, <3>1 DEF Pipeline
  <2> QED
    BY <1>1, <1>5, <2>1, <2>2, <2>4, <2>5, <2>6 DEF Pipeline
<1>10. CASE ReadCmdDone \/ HandleConnected \/ HandleTick \/ HandleQuitKey \/ HandleQuit
  BY <1>1, <1>5, <1>10, PipelineStays
     DEF ReadCmdDone, HandleConnected, HandleTick, HandleQuitKey, HandleQuit
<1>11. CASE HandleConnectFailed \/ HandleReconnect
  <2>1. dials + sleeps > 0
    BY <1>1, <1>11 DEF HandleConnectFailed, HandleReconnect, TypeOK
  <2> QED
    BY <1>1, <1>5, <1>11, <2>1, PipelineStays DEF HandleConnectFailed, HandleReconnect
<1>12. ASSUME NEW e \in inHand, HandleEvent(e) PROVE Pipeline'
  <2>1. /\ shown' = <<e.link, e.seq>> /\ UNCHANGED <<pump, got, out, dials>>
        /\ e \in Queued
    BY <1>12 DEF HandleEvent, Queued
  <2>2. inHand' = {} /\ dials = 0 /\ sleeps = 0
    BY <1>1, <1>12, InHandAlone DEF CommandInv, HandleEvent
  <2>3. dials' + sleeps' > 0 => out' = <<>>
    <3>1. CASE Fatal(e)
      <4>1. DOMAIN out = {}
        BY <1>1, <3>1 DEF Fatal, Pipeline
      <4> QED
        BY <1>1, <2>1, <4>1, QueuedTyped DEF TypeOK
    <3>2. CASE ~Fatal(e)
      BY <1>12, <2>1, <2>2, <3>2 DEF HandleEvent
    <3> QED
      BY <3>1, <3>2
  <2>4. Queued' = {out[i] : i \in DOMAIN out}
    BY <2>1, <2>2 DEF Queued
  <2>5. \A f \in Queued' : f \in Queued /\ e.seq < f.seq
    BY <1>1, <2>4 DEF Queued, Pipeline
  <2>6. e.link = Dialed /\ e.seq <= got[Dialed]
        /\ (pump[Dialed] = "delivering" => e.seq < got[Dialed])
    BY <1>1, <2>1 DEF Pipeline
  <2> QED
    BY <1>1, <1>5, <2>1, <2>2, <2>3, <2>5, <2>6 DEF Pipeline
<1> QED
  BY <1>4, <1>6, <1>7, <1>8, <1>9, <1>10, <1>11, <1>12 DEF Next, Pump

\* Every reachable state of the dashboard: one chain of commands, one readPump on the
\* shared channel, a running clock, and a pipeline that keeps the order of the events.
THEOREM CommandCorrect == Spec => []CommandInv
<1>1. Init => CommandInv
  <2> SUFFICES ASSUME Init PROVE CommandInv
    OBVIOUS
  <2> USE TUIAssumption DEF Init
  <2>1. live \in BOOLEAN /\ done \in BOOLEAN
    BY Zenon
  <2>2. TypeOK
    BY <2>1, EmptySeq DEF TypeOK, Kinds
  <2>3. OneChain /\ ClockRuns
    BY FS_EmptySet DEF OneChain, ClockRuns
  <2>4. Dialed = 0
    <3>1. {k \in Links : link[k] # "none"} = {}
      OBVIOUS
    <3> QED
      BY <3>1, FS_EmptySet DEF Dialed
  <2>5. DialedInTurn /\ OnePump
    BY <2>4 DEF DialedInTurn, OnePump, Links
  <2>6. Pipeline
    BY <2>4 DEF Pipeline, Queued
  <2> QED
    BY <2>2, <2>3, <2>5, <2>6 DEF CommandInv
<1>2. CommandInv /\ [Next]_vars => CommandInv'
  <2> SUFFICES ASSUME CommandInv, [Next]_vars PROVE CommandInv'
    OBVIOUS
  <2>1. CASE Next
    BY <2>1, TypeSteps, ChainSteps, DialSteps, PipelineSteps DEF CommandInv
  <2>2. CASE UNCHANGED vars
    <3> USE <2>2 DEF vars, modelVars, cmdVars, backVars, CommandInv
    <3>1. TypeOK' /\ OneChain' /\ ClockRuns'
      BY DEF TypeOK, OneChain, ClockRuns
    <3>2. Dialed' = Dialed /\ Queued' = Queued
      BY DEF Dialed, Queued
    <3>3. DialedInTurn' /\ OnePump'
      BY <3>2 DEF DialedInTurn, OnePump
    <3>4. Pipeline'
      BY <3>2 DEF Pipeline
    <3> QED
      BY <3>1, <3>3, <3>4
  <2> QED
    BY <2>1, <2>2
<1> QED
  BY <1>1, <1>2, PTL DEF Spec

\* The screen never goes back, over reconnections too: what Update is handed next comes
\* after what is shown, because the pipeline holds nothing else.
THEOREM ShownInOrderCorrect == Spec => ShownInOrder
<1> DEFINE Forward == shown' # shown => \/ shown'[1] > shown[1]
                                        \/ shown'[1] = shown[1] /\ shown'[2] > shown[2]
<1>1. CommandInv /\ [Next]_vars => [Forward]_vars
  <2> SUFFICES ASSUME CommandInv, Next PROVE Forward
    OBVIOUS
  <2> USE DEF modelVars, cmdVars, backVars
  <2>1. ASSUME NEW e \in inHand, HandleEvent(e) PROVE Forward
    <3>1. shown' = <<e.link, e.seq>> /\ e \in Queued
      BY <2>1 DEF HandleEvent, Queued
    <3>2. /\ e.link = Dialed /\ e.link \in Nat /\ e.seq \in Nat
          /\ shown[1] \in Nat /\ shown[2] \in Nat
          /\ shown[1] <= Dialed /\ (shown[1] = Dialed => shown[2] < e.seq)
      BY <3>1, QueuedTyped, DialedType, TUIAssumption DEF CommandInv, Pipeline, TypeOK
    <3> QED
      BY <3>1, <3>2
  <2>2. ASSUME NEW k \in Links, LinkBreaks(k) \/ Pump(k) PROVE Forward
    BY <2>2 DEF LinkBreaks, Pump, PumpReads, PumpDelivers
  <2>3. CASE DialOpens \/ ReadCmdReceives \/ ReadCmdDone
    BY <2>3 DEF DialOpens, ReadCmdReceives, ReadCmdDone
  <2>4. CASE HandleConnectFailed \/ HandleConnected \/ HandleReconnect \/ HandleTick
    BY <2>4 DEF HandleConnectFailed, HandleConnected, HandleReconnect, HandleTick
  <2>5. CASE HandleQuitKey \/ HandleQuit
    BY <2>5 DEF HandleQuitKey, HandleQuit
  <2> QED
    BY <2>1, <2>2, <2>3, <2>4, <2>5 DEF Next
<1> QED
  BY <1>1, CommandCorrect, PTL DEF Spec, ShownInOrder
================================================================================
