\* Two tasks publishing three events between them, handlers that fail in every
\* way, and subscriptions at any time.
SPECIFICATION FairSpec
CHECK_DEADLOCK FALSE
CONSTANTS
  Handlers = {h1, h2}
  CancellingHandlers = {h2}
  Events = {completed}
  Publishers = {p1, p2}
  MaxSubscriptions = 2
  MaxPublications = 3
INVARIANTS
  OneEventAtATime
  HandledInPublicationOrder
PROPERTY
  EveryHandlerRuns
