SPECIFICATION MCLiveSpec
CONSTANTS
  m1 = m1
  m2 = m2
  m3 = m3
  s1 = s1
  s2 = s2
  Messages <- MCMessages
  Keys <- MCOneKey
  SessionOf <- MCOneSession
  NoId = NoId
  NoHandler = NoHandler
  NoSave = NoSave
CHECK_DEADLOCK FALSE
PROPERTIES
  StopFreesTheSession
  CommandsAlwaysFinish
