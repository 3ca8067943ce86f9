--------------------------------- MODULE Activity -------------------------------
(****************************************************************************)
(* The Activity type (pkg/types/activity.go) and the parser that makes one  *)
(* of a Discord frame (internal/ipc/parser.go), as operators.               *)
(*                                                                          *)
(* A text is blank or not.  The three optional structs (timestamps, assets, *)
(* party) are nil, the zero value or some other value: that is all Equals,  *)
(* IsEmpty, the parser and the JSON encoding tell apart.                    *)
(****************************************************************************)
EXTENDS Naturals, Sequences

CONSTANTS
  Texts, Blank,     \* strings, and ""
  Structs, Zero,    \* values of an optional struct, and its zero value
  Nil               \* a nil pointer; a frame without an activity

ASSUME ActivityAssumption ==
  Blank \in Texts /\ Zero \in Structs /\ Nil \notin Structs

MaxButtons == 2
TypeCodes == 0 .. 5
TextFields == {"details", "state"}
StructFields == {"timestamps", "assets", "party"}
Fields == TextFields \cup StructFields \cup {"buttons", "type"}

Optional == Structs \cup {Nil}
Button == [label : Texts, url : Texts]

\* What may come from Discord, and the activities of the proxy.
Raw == [details : Texts, state : Texts, timestamps : Optional, assets : Optional,
        party : Optional, buttons : Seq(Button), type : Nat]

\* Activity{}.
ZeroActivity ==
  [details |-> Blank, state |-> Blank, timestamps |-> Nil, assets |-> Nil,
   party |-> Nil, buttons |-> <<>>, type |-> 0]

--------------------------------------------------------------------------------
(* parser.go *)

\* parseTimestamps, parseAssets, parseParty: a struct without content becomes nil.
ParseStruct(src) == IF src = Zero THEN Nil ELSE src

\* parseButtons: at most two, each with a label and a URL.
ButtonsValid(bs) ==
  /\ Len(bs) <= MaxButtons
  /\ \A i \in 1 .. Len(bs) : bs[i].label # Blank /\ bs[i].url # Blank

\* ParseActivityFrame succeeds on src.
Parses(src) == src # Nil /\ src.type \in TypeCodes /\ ButtonsValid(src.buttons)

\* ParseActivity: the activity it returns without an error.
ParseActivity(src) ==
  [details |-> src.details, state |-> src.state,
   timestamps |-> ParseStruct(src.timestamps), assets |-> ParseStruct(src.assets),
   party |-> ParseStruct(src.party), buttons |-> src.buttons, type |-> src.type]

--------------------------------------------------------------------------------
(* activity.go *)

\* timestampsEqual, assetsEqual, partyEqual: nil equals the zero value.
StructEqual(a, b) ==
  \/ a = Nil /\ b = Nil
  \/ a = Nil /\ b # Nil /\ b = Zero
  \/ a # Nil /\ b = Nil /\ a = Zero
  \/ a # Nil /\ b # Nil /\ a = b

\* Faulty variant: only the number of buttons is compared.
ButtonsEqualLength(a, b) == Len(a) = Len(b)
ButtonsEqual(a, b) ==
  Len(a) = Len(b) /\ \A i \in 1 .. Len(a) : a[i].label = b[i].label /\ a[i].url = b[i].url

Equals(a, b) ==
  /\ a.details = b.details /\ a.state = b.state /\ a.type = b.type
  /\ StructEqual(a.timestamps, b.timestamps)
  /\ StructEqual(a.assets, b.assets)
  /\ StructEqual(a.party, b.party)
  /\ ButtonsEqual(a.buttons, b.buttons)

\* Faulty variant: only the fields that are shown as text are looked at.
IsEmptyText(a) == a.details = Blank /\ a.state = Blank /\ a.buttons = <<>>

IsEmpty(a) ==
  /\ a.details = Blank /\ a.state = Blank /\ a.type = 0
  /\ a.timestamps = Nil /\ a.assets = Nil /\ a.party = Nil
  /\ a.buttons = <<>>

\* The JSON encoding: blank texts, nil structs and empty lists are left out, the
\* type never is.
WireKeys(a) == {k \in Fields : k = "type" \/ a[k] # ZeroActivity[k]}
MarshalJSON(a) == [k \in WireKeys(a) |-> a[k]]

\* The decoder: a field that is not there has its zero value.
UnmarshalJSON(w) == [k \in Fields |-> IF k \in DOMAIN w THEN w[k] ELSE ZeroActivity[k]]
================================================================================
