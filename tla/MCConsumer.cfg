CONSTANTS
  Texts = {"", "x", "y"}
  Blank = ""
  Structs = {"0", "v"}
  Zero = "0"
  Nil = nil
  ClientID = "id"
  RawActivities <- MCRaw
  InboxCap = 1
  PongWait = 2
  ReconnectMin = 1
  ReconnectMax = 3
  MaxClosers = 2
SPECIFICATION Spec
INVARIANTS PrintedTrue NoChangeSwallowed SessionInv
PROPERTIES Exits Resumes
CHECK_DEADLOCK FALSE
