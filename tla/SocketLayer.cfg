SPECIFICATION FairSpec
CONSTANTS
  Fd = {3, 4}
  MessageLen = 4
  AnswerLen = 3
  SendBuffer = 2
  ReadLen = 2
INVARIANTS
  SentIsAcknowledged
  ReadsUpToTheEnd
  NoDescriptorLeaks
PROPERTIES
  IncomingIsRead
  MessageIsSent
CHECK_DEADLOCK FALSE
