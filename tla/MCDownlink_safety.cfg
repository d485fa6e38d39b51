\* NLG framing and stale-break filtering over every delivery order.
CONSTANTS
  e1 = e1  e2 = e2  NoId = NoId  NULL = NULL  HdrId = HdrId  EmptyId = EmptyId
  EventIds <- MCEventIds
  MaxPkts = 9
SPECIFICATION Spec
INVARIANT TypeOK
PROPERTY NlgFramed
\* The receive thread may wait for ever once the cloud stops sending (MaxPkts).
CHECK_DEADLOCK FALSE
