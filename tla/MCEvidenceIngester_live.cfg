\* Three connections, so that two can overlap for ever beside the third; at most
\* four records are reachable, so POSTs and reads never stop coming.
SPECIFICATION EndlessSpec
CONSTANTS
  Conns = {c1, c2, c3}
  Ids = {a}
  Unroutable = {}
  Records <- MCOneRecord
  NoRecord = NoRecord
  NoId = NoId
  NoScenario = NoScenario
  Any = Any
  Unreadable = Unreadable
  NoCall = NoCall
  NoAnswer = NoAnswer
  NoConn = NoConn
  MaxPosts = 4
  MaxRestarts = 0
  a = a
  b = b
  alpha = alpha
  beta = beta
  urgent = urgent
PROPERTY
  EveryCallEnds
