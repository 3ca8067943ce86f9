----------------------------- MODULE ConsumerProofs -----------------------------
(****************************************************************************)
(* Proofs about Consumer, and about the operators of Activity and Messages  *)
(* it is built from, for any texts, structs and activities.                 *)
(****************************************************************************)
EXTENDS Consumer, SequenceTheorems, TLAPS

--------------------------------------------------------------------------------
(* The activity type: parser, Equals, IsEmpty and the JSON encoding. *)

\* What the parser makes of a frame: a struct is nil or has content.
Content == (Structs \ {Zero}) \cup {Nil}
Parsed == [details : Texts, state : Texts, timestamps : Content, assets : Content,
           party : Content, buttons : Seq(Button), type : TypeCodes]

\* Every activity of the proxy comes from the parser or is the zero activity.
LEMMA ActivitiesParsed == Activities \subseteq Parsed /\ ZeroActivity \in Activities
<1> USE ActivityAssumption
<1>1. ZeroActivity \in Parsed
  BY EmptySeq DEF ZeroActivity, Parsed, Content, TypeCodes
<1>2. ASSUME NEW r \in RawActivities, Parses(r) PROVE ParseActivity(r) \in Parsed
  <2>1. r \in Raw /\ r.type \in TypeCodes
    BY <1>2, ConsumerAssumption DEF Parses
  <2>2. \A x \in Optional : ParseStruct(x) \in Content
    BY DEF ParseStruct, Content, Optional
  <2> QED
    BY <2>1, <2>2 DEF ParseActivity, Parsed, Raw
<1> QED
  BY <1>1, <1>2 DEF Activities

\* Two parsed activities that have the same fields are the same.
LEMMA ParsedExtensional ==
  ASSUME NEW a \in Parsed, NEW b \in Parsed,
         a.details = b.details, a.state = b.state, a.timestamps = b.timestamps,
         a.assets = b.assets, a.party = b.party, a.buttons = b.buttons, a.type = b.type
  PROVE  a = b
  BY DEF Parsed

\* Equals is equality on parsed activities: it compares every field, and its two
\* ways of having no content (nil and the zero struct) never meet there.
LEMMA EqualsIsEquality ==
  ASSUME NEW a \in Parsed, NEW b \in Parsed
  PROVE  Equals(a, b) <=> a = b
<1> USE ActivityAssumption
<1>1. ASSUME NEW x \in Content, NEW y \in Content PROVE StructEqual(x, y) <=> x = y
  BY DEF StructEqual, Content
<1>2. ASSUME NEW s \in Seq(Button), NEW t \in Seq(Button) PROVE ButtonsEqual(s, t) <=> s = t
  <2> SUFFICES ASSUME ButtonsEqual(s, t) PROVE s = t
    BY DEF ButtonsEqual
  <2>1. ASSUME NEW i \in 1 .. Len(s) PROVE s[i] = t[i]
    <3>1. s[i] \in Button /\ t[i] \in Button
      BY ElementOfSeq DEF ButtonsEqual
    <3> QED
      BY <3>1 DEF ButtonsEqual, Button
  <2> QED
    BY <2>1, SeqEqual DEF ButtonsEqual
<1>3. /\ a.timestamps \in Content /\ a.assets \in Content /\ a.party \in Content
      /\ b.timestamps \in Content /\ b.assets \in Content /\ b.party \in Content
      /\ a.buttons \in Seq(Button) /\ b.buttons \in Seq(Button)
  BY DEF Parsed
<1>4. ASSUME Equals(a, b) PROVE a = b
  BY <1>1, <1>2, <1>3, <1>4, ParsedExtensional DEF Equals
<1>5. ASSUME a = b PROVE Equals(a, b)
  BY <1>1, <1>2, <1>3, <1>5 DEF Equals
<1> QED
  BY <1>4, <1>5

\* IsEmpty holds of the zero activity alone.
LEMMA EmptyIsZero ==
  ASSUME NEW a \in Parsed
  PROVE  IsEmpty(a) <=> a = ZeroActivity
<1>1. ZeroActivity \in Parsed
  BY ActivitiesParsed
<1>2. ASSUME IsEmpty(a) PROVE a = ZeroActivity
  BY <1>1, <1>2, ParsedExtensional DEF IsEmpty, ZeroActivity
<1>3. IsEmpty(ZeroActivity)
  BY DEF IsEmpty, ZeroActivity
<1> QED
  BY <1>2, <1>3

\* The JSON encoding loses nothing: what the consumer decodes is what was encoded.
LEMMA RoundTrip ==
  ASSUME NEW a \in Parsed
  PROVE  UnmarshalJSON(MarshalJSON(a)) = a
<1> DEFINE u == UnmarshalJSON(MarshalJSON(a))
<1>1. ASSUME NEW k \in Fields PROVE u[k] = a[k]
  BY <1>1 DEF UnmarshalJSON, MarshalJSON, WireKeys
<1>2. u = [k \in Fields |-> a[k]]
  BY <1>1 DEF UnmarshalJSON
<1>3. DOMAIN a = Fields /\ a = [k \in DOMAIN a |-> a[k]]
  BY DEF Parsed, Fields, TextFields, StructFields
<1> QED
  BY <1>2, <1>3

--------------------------------------------------------------------------------
(* What the consumer prints of a message. *)

\* A message with a snapshot of activity a is printed as cleared if a is the zero
\* activity and as a itself otherwise.
LEMMA SnapshotPrinted ==
  ASSUME NEW a \in Activities, NEW m,
         m \in {NewPresenceMessage(Snapshot(TRUE, a)), NewCurrentMessage(Snapshot(TRUE, a))}
  PROVE  /\ ServerMessageValid(m) /\ m.type # "state" /\ a # Nil
         /\ Format(m) = IF a = ZeroActivity THEN [line |-> "cleared"]
                                            ELSE [line |-> "activity", activity |-> a]
<1>1. a \in Parsed /\ UnmarshalJSON(MarshalJSON(a)) = a /\ (IsEmpty(a) <=> a = ZeroActivity)
  BY ActivitiesParsed, RoundTrip, EmptyIsZero
<1>2. a # Nil /\ MarshalJSON(a) # Nil /\ Snapshot(TRUE, a) # Nil
  BY NilAssumption
<1>3. m.type \in {"presence", "current"} /\ m.payload = Snapshot(TRUE, a)
  <2>1. CASE m = NewPresenceMessage(Snapshot(TRUE, a))
    BY <2>1 DEF NewPresenceMessage, Message
  <2>2. CASE m = NewCurrentMessage(Snapshot(TRUE, a))
    BY <2>2 DEF NewCurrentMessage, Message
  <2> QED
    BY <2>1, <2>2
<1>4. m.payload # NoPayload /\ m.payload.activity = MarshalJSON(a)
  BY <1>2, <1>3 DEF NoPayload, Snapshot
<1>5. ServerMessageValid(m) /\ m.type # "state"
  BY <1>3, <1>4 DEF ServerMessageValid
<1>6. Format(m) = IF IsEmpty(a) THEN [line |-> "cleared"]
                                ELSE [line |-> "activity", activity |-> a]
  BY <1>1, <1>2, <1>3, <1>4 DEF Format
<1> QED
  BY <1>1, <1>2, <1>5, <1>6

\* What PrintedTrue says of one message.
NotePrintedTrue(n) ==
  LET p == Format(n.msg)
  IN /\ ServerMessageValid(n.msg) /\ p.line \notin {"skipped", "error"}
     /\ n.msg.type # "state" =>
          /\ p.line = "nosource" <=> n.about = Nil
          /\ p.line = "cleared" <=> n.about # Nil /\ Equals(n.about, ZeroActivity)
          /\ p.line = "activity" => Equals(p.activity, n.about)

\* Everything the proxy tells a client is understood and printed truthfully.
LEMMA NotesTrue ==
  ASSUME NEW n \in Notes
  PROVE  NotePrintedTrue(n)
<1>1. ASSUME NEW s \in ConnectionStates, n = Note(NewStateMessage(s), Nil)
      PROVE  NotePrintedTrue(n)
  <2>1. n.msg.type = "state" /\ n.msg.status = s
    BY <1>1 DEF Note, NewStateMessage, Message
  <2>2. Format(n.msg).line = "state"
    BY <2>1 DEF Format
  <2> QED
    BY <2>1, <2>2 DEF NotePrintedTrue, ServerMessageValid
<1>2. ASSUME NEW a \in Activities, NEW m, n = Note(m, a),
             m \in {NewPresenceMessage(Snapshot(TRUE, a)), NewCurrentMessage(Snapshot(TRUE, a))}
      PROVE  NotePrintedTrue(n)
  <2>1. n.msg = m /\ n.about = a
    BY <1>2 DEF Note
  <2>2. /\ ServerMessageValid(m) /\ m.type # "state" /\ a # Nil
        /\ Format(m) = IF a = ZeroActivity THEN [line |-> "cleared"]
                                           ELSE [line |-> "activity", activity |-> a]
    BY <1>2, SnapshotPrinted
  <2>3. Equals(a, ZeroActivity) <=> a = ZeroActivity
    BY ActivitiesParsed, EqualsIsEquality
  <2>4. Equals(a, a)
    BY ActivitiesParsed, EqualsIsEquality
  <2>5. CASE a = ZeroActivity
    <3>1. Format(n.msg).line = "cleared"
      BY <2>1, <2>2, <2>5
    <3> QED
      BY <2>1, <2>2, <2>3, <2>5, <3>1 DEF NotePrintedTrue
  <2>6. CASE a # ZeroActivity
    <3>1. Format(n.msg).line = "activity" /\ Format(n.msg).activity = a
      BY <2>1, <2>2, <2>6
    <3> QED
      BY <2>1, <2>2, <2>3, <2>4, <2>6, <3>1 DEF NotePrintedTrue
  <2> QED
    BY <2>5, <2>6
<1>3. ASSUME n = Note(NewCurrentMessage(NoSource), Nil)
      PROVE  NotePrintedTrue(n)
  <2>1. n.about = Nil /\ n.msg.type = "current" /\ n.msg.payload = NoSource
    BY <1>3 DEF Note, NewCurrentMessage, Message
  <2>2. n.msg.payload # NoPayload /\ n.msg.payload.activity = Nil
    BY <2>1, ActivitiesParsed, NilAssumption DEF NoPayload, Snapshot, NoSource
  <2>3. Format(n.msg).line = "nosource"
    BY <2>1, <2>2 DEF Format
  <2> QED
    BY <2>1, <2>2, <2>3 DEF NotePrintedTrue, ServerMessageValid
<1> QED
  BY <1>1, <1>2, <1>3 DEF Notes

\* A typed inbox is printed truthfully.
LEMMA InboxTrue == TypeOK => PrintedTrue
<1> SUFFICES ASSUME TypeOK, NEW i \in 1 .. Len(inbox) PROVE NotePrintedTrue(inbox[i])
  BY DEF PrintedTrue, AllUnderstood, NotePrintedTrue
<1>1. inbox[i] \in Notes
  BY ElementOfSeq DEF TypeOK
<1> QED
  BY <1>1, NotesTrue

--------------------------------------------------------------------------------
(* The invariant of a session. *)

\* A message that the proxy sends keeps the inbox typed and within its capacity.
LEMMA SendTyped ==
  ASSUME TypeOK, NEW m, NEW a, Note(m, a) \in Notes, Send(m, a)
  PROVE  inbox' \in Seq(Notes) /\ Len(inbox') <= InboxCap
  BY ConsumerAssumption, LenProperties, AppendProperties DEF TypeOK, Send

\* Every request of the consumer is valid, and get_current is answered with what the
\* proxy knows.
LEMMA RequestAnswered ==
  ASSUME NEW r \in Requests, NEW h \in BOOLEAN, NEW a \in Activities
  PROVE  /\ ClientMessageValid(r)
         /\ \/ Answers(r, h, a) = <<>>
            \/ /\ Answers(r, h, a) # <<>>
               /\ Note(Head(Answers(r, h, a)), IF h THEN a ELSE Nil) \in Notes
<1>1. CASE r = Subscribe(EventTypes)
  BY <1>1 DEF Subscribe, ClientMessageValid, Answers, EventTypes
<1>2. CASE r = GetCurrent
  <2>1. ClientMessageValid(r) /\ Answers(r, h, a) = <<NewCurrentMessage(Snapshot(h, a))>>
    BY <1>2 DEF GetCurrent, ClientMessageValid, Answers
  <2>2. Head(Answers(r, h, a)) = NewCurrentMessage(Snapshot(h, a)) /\ Answers(r, h, a) # <<>>
    BY <2>1
  <2>3. CASE h
    BY <2>1, <2>2, <2>3 DEF Notes
  <2>4. CASE ~h
    <3>1. Snapshot(h, a) = NoSource
      BY <2>4 DEF Snapshot, NoSource
    <3> QED
      BY <2>1, <2>2, <2>4, <3>1 DEF Notes
  <2> QED
    BY <2>3, <2>4
<1> QED
  BY <1>1, <1>2 DEF Requests

\* The end of consume leaves nothing of the session behind.
LEMMA ConsumeReturnsKeeps ==
  ASSUME SessionInv, NEW got \in BOOLEAN, ConsumeReturns(got)
  PROVE  SessionInv'
<1> USE ConsumerAssumption DEF SessionInv, TypeOK, SessionsBounded, NoLeak, ConsumeReturns
<1>1. /\ requests' \in Seq(Requests) /\ Len(requests') <= 2
      /\ inbox' \in Seq(Notes) /\ Len(inbox') <= InboxCap
  BY EmptySeq
<1>2. /\ subscribed' \in BOOLEAN /\ received' \in BOOLEAN /\ ctxDone' \in BOOLEAN
      /\ up' \in BOOLEAN /\ hasSource' \in BOOLEAN
  BY Zenon DEF proxyVars
<1>3. /\ watching' \in Nat /\ leaving' \in Nat /\ watching' + leaving' <= MaxClosers
      /\ watching' = 0
  <2>1. watching \in {0, 1}
    OBVIOUS
  <2> QED
    BY <2>1 DEF ReleaseCloser, closerVars
<1>4. backoff' \in ReconnectMin .. ReconnectMax /\ wait' \in 0 .. ReconnectMax
      /\ pc' \in {"returned", "waiting"}
  BY DEF AfterConsume
<1>5. /\ cached' \in Activities /\ lastNotified' \in Activities
      /\ pushed' \in Snapshots
  BY DEF proxyVars
<1>6. /\ deadline' = 0 /\ age' = 0 /\ deadline' \in 0 .. PongWait /\ age' \in 0 .. PongWait + 1
      /\ link' \in {"up", "silent", "closed"} /\ age' + deadline' <= PongWait
  OBVIOUS
<1>7. /\ pc' \in {"dialing", "writing", "reading", "waiting", "returned"}
      /\ watching' <= IF pc' \in {"writing", "reading"} THEN 1 ELSE 0
  BY <1>3, <1>4
<1> QED
  BY <1>1, <1>2, <1>3, <1>4, <1>5, <1>6, <1>7, Zenon

\* The steps of the proxy, the network and Ctrl-C keep the invariant.
LEMMA EnvironmentKeeps ==
  ASSUME SessionInv,
         \/ \E r \in RawActivities : Frame(r)
         \/ \E s \in ConnectionStates : StateChange(s)
         \/ Handle \/ ProxyStops \/ ProxyStarts \/ LinkLost \/ CtrlC
  PROVE  SessionInv'
<1> USE ConsumerAssumption
    DEF SessionInv, SessionsBounded, NoLeak, proxyVars, wireVars, sessionVars, closerVars
<1>1. ASSUME NEW r \in RawActivities, Frame(r) PROVE SessionInv'
  <2>1. ParseActivity(r) \in Activities
    BY <1>1 DEF Frame, Activities
  <2>2. /\ cached' \in Activities /\ lastNotified' \in Activities
        /\ pushed' \in Snapshots
        /\ hasSource' = TRUE
    BY <1>1, <2>1 DEF Frame, TypeOK, Snapshots
  <2>3. inbox' \in Seq(Notes) /\ Len(inbox') <= InboxCap
    <3>1. CASE UNCHANGED inbox
      BY <3>1 DEF TypeOK
    <3>2. CASE Send(NewPresenceMessage(Snapshot(TRUE, ParseActivity(r))), ParseActivity(r))
      <4>1. Note(NewPresenceMessage(Snapshot(TRUE, ParseActivity(r))), ParseActivity(r))
              \in Notes
        BY <2>1 DEF Notes
      <4> QED
        BY <3>2, <4>1, SendTyped
    <3> QED
      BY <1>1, <3>1, <3>2 DEF Frame
  <2>4. hasSource' \in BOOLEAN
    BY <2>2, Zenon
  <2> QED
    BY <1>1, <2>2, <2>3, <2>4 DEF Frame, TypeOK
<1>2. ASSUME NEW s \in ConnectionStates, StateChange(s) PROVE SessionInv'
  <2>1. Note(NewStateMessage(s), Nil) \in Notes
    BY DEF Notes
  <2>2. inbox' \in Seq(Notes) /\ Len(inbox') <= InboxCap
    BY <1>2, <2>1, SendTyped DEF StateChange
  <2> QED
    BY <1>2, <2>2 DEF StateChange, TypeOK
<1>3. ASSUME Handle PROVE SessionInv'
  <2> DEFINE r == Head(requests)
             a == Answers(r, hasSource, cached)
  <2>1. r \in Requests /\ Tail(requests) \in Seq(Requests) /\ Len(Tail(requests)) <= 2
    BY <1>3, HeadTailProperties DEF Handle, TypeOK
  <2>2. \/ a = <<>>
        \/ a # <<>> /\ Note(Head(a), IF hasSource THEN cached ELSE Nil) \in Notes
    BY <2>1, RequestAnswered DEF TypeOK
  <2>3. /\ requests' = Tail(requests)
        /\ \/ a = <<>> /\ UNCHANGED inbox
           \/ a # <<>> /\ Send(Head(a), IF hasSource THEN cached ELSE Nil)
        /\ subscribed' = (subscribed \/ (r.type = "subscribe" /\ ClientMessageValid(r)))
        /\ UNCHANGED <<proxyVars, ctxDone, pc, sessionVars, backoff, wait, closerVars>>
    BY <1>3, Zenon DEF Handle
  <2> HIDE DEF r, a
  <2>4. inbox' \in Seq(Notes) /\ Len(inbox') <= InboxCap
    <3>1. CASE UNCHANGED inbox
      BY <3>1 DEF TypeOK
    <3>2. CASE Note(Head(a), IF hasSource THEN cached ELSE Nil) \in Notes
               /\ Send(Head(a), IF hasSource THEN cached ELSE Nil)
      BY <3>2, SendTyped
    <3> QED
      BY <2>2, <2>3, <3>1, <3>2
  <2>5. subscribed' \in BOOLEAN
    BY <2>3, Zenon DEF TypeOK
  <2> QED
    BY <2>1, <2>3, <2>4, <2>5 DEF TypeOK
<1>4. ASSUME ProxyStops PROVE SessionInv'
  <2>1. up' \in BOOLEAN /\ hasSource' \in BOOLEAN
    BY <1>4, Zenon DEF ProxyStops
  <2>2. /\ cached' \in Activities /\ lastNotified' \in Activities
        /\ pushed' \in Snapshots
    BY <1>4, ActivitiesParsed DEF ProxyStops, Snapshots
  <2> QED
    BY <1>4, <2>1, <2>2 DEF ProxyStops, TypeOK
<1>5. ASSUME ProxyStarts PROVE SessionInv'
  <2>1. up' \in BOOLEAN
    BY <1>5, Zenon DEF ProxyStarts
  <2> QED
    BY <1>5, <2>1 DEF ProxyStarts, TypeOK
<1>6. ASSUME LinkLost PROVE SessionInv'
  BY <1>6 DEF LinkLost, TypeOK
<1>7. ASSUME CtrlC PROVE SessionInv'
  <2>1. ctxDone' \in BOOLEAN
    BY <1>7, Zenon DEF CtrlC
  <2> QED
    BY <1>7, <2>1 DEF CtrlC, TypeOK
<1> QED
  BY <1>1, <1>2, <1>3, <1>4, <1>5, <1>6, <1>7

\* The steps of run, consume, the closer goroutines and the clock keep the invariant.
LEMMA ConsumerKeeps ==
  ASSUME SessionInv, DialOK \/ Consume \/ CloserCloses \/ CloserLeaves \/ Tick
  PROVE  SessionInv'
<1> USE ConsumerAssumption
    DEF SessionInv, SessionsBounded, NoLeak, proxyVars, wireVars, sessionVars, closerVars
<1>1. ASSUME DialOK PROVE SessionInv'
  <2>1. received' \in BOOLEAN
    BY <1>1, Zenon DEF DialOK
  <2> QED
    BY <1>1, <2>1 DEF DialOK, TypeOK
<1>2. ASSUME DialFails \/ WriteFails \/ ReadFails PROVE SessionInv'
  <2>1. \E got \in BOOLEAN : ConsumeReturns(got)
    <3>1. CASE ConsumeReturns(FALSE)
      BY <3>1, Zenon
    <3>2. CASE ConsumeReturns(received)
      BY <3>2, Zenon DEF TypeOK
    <3> QED
      BY <1>2, <3>1, <3>2 DEF DialFails, WriteFails, ReadFails
  <2> QED
    BY <2>1, ConsumeReturnsKeeps
<1>3. ASSUME WriteOK PROVE SessionInv'
  <2>1. requests' \in Seq(Requests) /\ Len(requests') = 2
    BY <1>3 DEF WriteOK, Requests
  <2> QED
    BY <1>3, <2>1 DEF WriteOK, TypeOK
<1>4. ASSUME Read PROVE SessionInv'
  <2>1. inbox' \in Seq(Notes) /\ Len(inbox') <= InboxCap
    BY <1>4, HeadTailProperties DEF Read, TypeOK
  <2>2. received' \in BOOLEAN
    BY <1>4, Zenon DEF Read
  <2> QED
    BY <1>4, <2>1, <2>2 DEF Read, TypeOK
<1>5. ASSUME Retry PROVE SessionInv'
  BY <1>5 DEF Retry, Doubled, TypeOK
<1>6. ASSUME WaitCancelled PROVE SessionInv'
  BY <1>6 DEF WaitCancelled, TypeOK
<1>7. ASSUME CloserCloses PROVE SessionInv'
  BY <1>7 DEF CloserCloses, CloserSelects, TypeOK
<1>8. ASSUME CloserLeaves PROVE SessionInv'
  BY <1>8 DEF CloserLeaves, TypeOK
<1>9. ASSUME Tick PROVE SessionInv'
  BY <1>9 DEF Tick, AfterPing, TypeOK
<1> QED
  BY <1>1, <1>2, <1>3, <1>4, <1>5, <1>6, <1>7, <1>8, <1>9 DEF Consume

\* One step keeps the invariant of the session.
LEMMA SessionStep ==
  ASSUME SessionInv, [Next]_vars
  PROVE  SessionInv'
<1>1. CASE UNCHANGED vars
  BY <1>1 DEF vars, SessionInv, TypeOK, SessionsBounded, NoLeak, proxyVars, wireVars,
       sessionVars, closerVars
<1> QED
  BY <1>1, EnvironmentKeeps, ConsumerKeeps DEF Next

\* Sessions that follow each other without end leave bounded deadlines, waits and
\* buffers and no goroutine behind, whatever the deadline, the backoff and the frames.
THEOREM ConsumerCorrect == Spec => []SessionInv
<1>1. Init => SessionInv
  <2> SUFFICES ASSUME Init PROVE SessionInv
    OBVIOUS
  <2> USE ConsumerAssumption DEF Init
  <2>1. /\ up \in BOOLEAN /\ hasSource \in BOOLEAN /\ subscribed \in BOOLEAN
        /\ ctxDone \in BOOLEAN /\ received \in BOOLEAN
    BY Zenon
  <2>2. /\ cached \in Activities /\ lastNotified \in Activities
        /\ pushed \in Snapshots
    BY ActivitiesParsed DEF Snapshots
  <2>3. /\ requests \in Seq(Requests) /\ Len(requests) <= 2
        /\ inbox \in Seq(Notes) /\ Len(inbox) <= InboxCap
    BY EmptySeq
  <2> QED
    BY <2>1, <2>2, <2>3 DEF SessionInv, TypeOK, SessionsBounded, NoLeak
<1> QED
  BY <1>1, SessionStep, PTL DEF Spec

\* Whatever Discord sends, every message on its way to the consumer is accepted by
\* the server's own validation and printed as what it is about: no source, a cleared
\* activity, or the activity that was cached.
THEOREM PrintedTruthfully == Spec => []PrintedTrue
<1>1. SessionInv => PrintedTrue
  BY InboxTrue DEF SessionInv
<1> QED
  BY <1>1, ConsumerCorrect, PTL

\* The cached activity is the one notified last, and the subscribers know it, unless
\* it is the zero activity and none was pushed.
PushedLast ==
  /\ cached = lastNotified
  /\ \/ hasSource /\ pushed = Snapshot(TRUE, lastNotified)
     \/ pushed = NoSource /\ lastNotified = ZeroActivity

\* Whatever Discord sends, a change of the activity or of its source that get_current
\* shows is pushed, but for the source that a first, empty activity brings.
THEOREM NothingSwallowed == Spec => []NoChangeSwallowed
<1>1. Init => PushedLast
  BY DEF Init, PushedLast
<1>2. SessionInv /\ PushedLast /\ [Next]_vars => PushedLast'
  <2> SUFFICES ASSUME SessionInv, PushedLast, [Next]_vars
               PROVE  PushedLast'
    OBVIOUS
  <2>1. ASSUME NEW r \in RawActivities, Frame(r) PROVE PushedLast'
    <3>1. ParseActivity(r) \in Parsed /\ lastNotified \in Parsed
      BY <2>1, ActivitiesParsed DEF Frame, Activities, SessionInv, TypeOK
    <3>2. Equals(ParseActivity(r), lastNotified) <=> ParseActivity(r) = lastNotified
      BY <3>1, EqualsIsEquality
    <3> QED
      BY <2>1, <3>2 DEF Frame, PushedLast
  <2>2. CASE ProxyStops
    BY <2>2 DEF ProxyStops, PushedLast
  <2>3. CASE UNCHANGED <<hasSource, cached, lastNotified, pushed>>
    BY <2>3 DEF PushedLast
  <2> USE DEF proxyVars
  <2>4. ASSUME NEW s \in ConnectionStates, StateChange(s) PROVE PushedLast'
    BY <2>3, <2>4 DEF StateChange
  <2>5. CASE Handle \/ ProxyStarts \/ LinkLost \/ CtrlC \/ DialOK
    BY <2>3, <2>5 DEF Handle, ProxyStarts, LinkLost, CtrlC, DialOK
  <2>6. CASE Consume \/ CloserCloses \/ CloserLeaves \/ Tick
    BY <2>3, <2>6 DEF Consume, DialFails, WriteOK, WriteFails, Read, ReadFails, Retry,
         WaitCancelled, ConsumeReturns, CloserCloses, CloserLeaves, Tick
  <2>7. CASE UNCHANGED vars
    BY <2>3, <2>7 DEF vars
  <2> QED
    BY <2>1, <2>2, <2>4, <2>5, <2>6, <2>7 DEF Next
<1>3. SessionInv /\ PushedLast => NoChangeSwallowed
  BY DEF SessionInv, TypeOK, PushedLast, NoChangeSwallowed, NoSource, Snapshot
<1> QED
  BY <1>1, <1>2, <1>3, ConsumerCorrect, PTL DEF Spec
================================================================================
