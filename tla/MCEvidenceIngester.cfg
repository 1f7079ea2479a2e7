\* Two connections, every call of the interface, a death of the process: the
\* interface is that of an atomic store.
SPECIFICATION Spec
CONSTANTS
  Conns = {c1, c2}
  Ids = {a, b}
  Unroutable = {b}
  Records <- MCAllRecords
  NoRecord = NoRecord
  NoId = NoId
  NoScenario = NoScenario
  Any = Any
  Unreadable = Unreadable
  NoCall = NoCall
  NoAnswer = NoAnswer
  NoConn = NoConn
  MaxPosts = 2
  MaxRestarts = 1
  a = a
  b = b
  alpha = alpha
  beta = beta
  urgent = urgent
INVARIANTS
  MapIsWrittenAlone
  CounterBetween
PROPERTY
  CallsAreAtomic
