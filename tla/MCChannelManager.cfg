SPECIFICATION MCSpec
CONSTANTS
  ch1 = ch1
  ch2 = ch2
  m1 = m1
  m2 = m2
  m3 = m3
  Names <- MCNames
  Messages <- MCMessages
  ChannelOf <- MCChannelOf
  Chunks <- MCChunks
  BusCapacity = 1
  QueueSize = 1
  MaxRetries = 1
  cli = cli
  Internal <- MCInternal
  NoMessage = NoMessage
CHECK_DEADLOCK FALSE
INVARIANTS
  TypeOK
  RetryDiscipline
  SentInOrder
  NothingLostWhileRunning
PROPERTIES
  NoSendAfterStop
  EveryMessageSettled
  StopAllReturns
