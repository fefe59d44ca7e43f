\* One chat with IM and web messages, the last one a plugin command; a crash,
\* two failures, gates, and agents closed at any moment.
SPECIFICATION Spec
CONSTANTS
  c1 = c1
  c2 = c2
  Chats <- OneChat
  NoChat = NoChat
  Msgs <- Three
  Commands = {4}
  StartCursors = {0, 1}
  MaxRetries = 1
  GateCloses = {TRUE, FALSE}
  EarlyClose = {TRUE, FALSE}
  MaxCrashes = 1
  MaxFailures = 2
INVARIANT TypeOK
INVARIANT CommittedBehindPull
INVARIANT NeverSkipped
INVARIANT CommittedIsHandled
INVARIANT SeenHasTaker
PROPERTY LivingAgentKeeps
CHECK_DEADLOCK FALSE
