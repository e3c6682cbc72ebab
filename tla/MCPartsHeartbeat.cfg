SPECIFICATION PartsSpec
CONSTANTS
  Parts = {"heartbeat"}
  k1 = k1
  k2 = k2
  i1 = i1
  i2 = i2
  c1 = c1
  c2 = c2
  Keys <- MCKeys
  Ids <- MCIds
  Clients <- MCClients
  NoId = NoId
  NoSave = NoSave
  Refs = {r1, r2}
  Paths = {p1, p2}
  MaxLosses = 3
  Chats = {a, b}
  Internal = {}
  NoChat = NoChat
  Handlers = {h1, h2}
  Posts = {1, 2}
  Msgs = {m1, m2}
  Hosts <- MCHosts
  NoSign = NoSign
  Names <- MCAdapters
  ReadLimit = 3
  Kinds <- MCKinds
  Platforms <- MCKinds
  NumParts = 2
  MaxRetries = 2
CHECK_DEADLOCK FALSE
INVARIANTS
  BeatsGoToLastChannel
