SPECIFICATION FairSpec
CONSTANTS
  Retries <- MCRetries
  MaxLines <- MCMaxLines
CHECK_DEADLOCK FALSE
INVARIANTS
  TypeOK
  NeverResumesRefused
  AnswerIsWhole
PROPERTIES
  NoOverlappingAttempts
  InvokeReturns
