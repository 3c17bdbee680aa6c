SPECIFICATION FairSpec
CONSTANTS
  QueueLen = 1
  MaxIter = 3
  MaxRepeat = 2
  TTL = 0
  Channels = {"feishu", "client"}
  Kinds = {"greeting", "picture"}
  Calls <- FewCalls
  MaxMsgs = 2
  MaxTicks = 1
PROPERTIES KeepsPromise AnswersAll
CHECK_DEADLOCK FALSE
