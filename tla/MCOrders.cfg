SPECIFICATION Spec
CONSTANTS
  Payment = {p1, p2, p3}
  Job = {j1}
  None = None
  PoolSize = 3
  MaxCount = 2
INVARIANTS IInv OrderSafe ProcessedWasSent NoNeedlessCopy
PROPERTIES AnsweredUnlessExhausted EveryOrderAnnounced OrdersDelivered
CHECK_DEADLOCK FALSE
