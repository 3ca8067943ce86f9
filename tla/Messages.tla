--------------------------------- MODULE Messages -------------------------------
(****************************************************************************)
(* The messages of the WebSocket protocol: how the server makes and checks  *)
(* them (internal/server/messages.go, hub.go), and how the example consumer *)
(* reads them (examples/consumer/protocol.go).                              *)
(****************************************************************************)
EXTENDS Activity

CONSTANTS
  ClientID     \* discord.client_id

\* An absent payload; an absent text.
NoPayload == Nil
NoText == "notext"

ConnectionStates == {"connected", "disconnected", "reconnecting"}
EventTypes == {"presence", "state", "current"}

\* Presence.Snapshot: nil before the first update.
Snapshot(hasSource, activity) ==
  IF hasSource THEN [source |-> "ipc", activity |-> MarshalJSON(activity)]
               ELSE [source |-> "none", activity |-> Nil]

Message(type, payload, status, id) ==
  [type |-> type, payload |-> payload, status |-> status, client_id |-> id]

NewPresenceMessage(snapshot) == Message("presence", snapshot, NoText, NoText)
NewCurrentMessage(snapshot) == Message("current", snapshot, NoText, ClientID)
NewErrorMessage(code) == Message("error", [code |-> code], NoText, NoText)
\* Run completes a state message with the client id.
NewStateMessage(status) == Message("state", NoPayload, status, ClientID)

\* ServerMessage.UnmarshalJSON accepts m: what the terminal dashboard requires.
ServerMessageValid(m) ==
  \/ m.type \in {"presence", "current", "error"} /\ m.payload # NoPayload
  \/ m.type = "state" /\ m.status \in ConnectionStates

\* Requests: a type and, for subscribe, the events.
Subscribe(events) == [type |-> "subscribe", events |-> events]
GetCurrent == [type |-> "get_current", events |-> {}]

\* ClientMessage.UnmarshalJSON accepts r.
ClientMessageValid(r) ==
  \/ r.type = "subscribe" /\ r.events # {} /\ r.events \subseteq EventTypes
  \/ r.type = "get_current"

\* What ReadPump answers to request r, if anything.
Answers(r, hasSource, activity) ==
  IF ~ClientMessageValid(r) THEN <<NewErrorMessage("MSG_001")>>
  ELSE IF r.type = "get_current" THEN <<NewCurrentMessage(Snapshot(hasSource, activity))>>
  ELSE <<>>

\* formatMessage: the line the consumer prints, or "skipped" when the payload does
\* not decode.
Format(m) ==
  IF m.type = "state" THEN [line |-> "state", status |-> m.status]
  ELSE IF m.payload = NoPayload THEN [line |-> "skipped"]
  ELSE IF m.type = "error" THEN [line |-> "error"]
  ELSE IF m.payload.activity = Nil THEN [line |-> "nosource"]
  ELSE LET a == UnmarshalJSON(m.payload.activity)
       IN IF IsEmpty(a) THEN [line |-> "cleared"] ELSE [line |-> "activity", activity |-> a]
================================================================================
