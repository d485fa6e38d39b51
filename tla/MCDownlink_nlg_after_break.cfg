\* NLG text of a broken event still reaches the application.
CONSTANTS
  e1 = e1  e2 = e2  NoId = NoId  NULL = NULL  HdrId = HdrId  EmptyId = EmptyId
  EventIds <- MCEventIds
  MaxPkts = 6
SPECIFICATION Spec
INVARIANT NoNlgAfterBreak
