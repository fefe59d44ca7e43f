\* Two IM chats, two messages; a crash of the host, an agent that fails, agents
\* closed only when idle.
SPECIFICATION FairImSpec
CONSTANTS
  c1 = c1
  c2 = c2
  Chats <- TwoChats
  NoChat = NoChat
  Msgs <- Two
  Commands = {}
  StartCursors = {1}
  MaxRetries = 2
  GateCloses = {FALSE}
  EarlyClose = {FALSE}
  MaxCrashes = 1
  MaxFailures = 1
PROPERTY TakenUpInOrder
PROPERTY AnsweredUnlessInjected
CHECK_DEADLOCK FALSE
