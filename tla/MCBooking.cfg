SPECIFICATION BookingSpec
CONSTANTS
  Seat = {s1}
  User = {u1}
  Request = {r1}
  Payment = {p1, p2}
  Sweep = {w1}
  Charge = {c1}
  Null = Null
  ReserveMode = {"pessimistic"}
  PayMode = {"routed", "optimistic"}
  ChargeMode = {"pessimistic"}
  Hold = 1
  Grace = 1
  TxnBound = 1
  MaxTime = 3
  Opening = {1}
  Amount = {1}
INVARIANTS AllOrNothing UnpaidSaleHasCause SoldOnceByVersion NoWaitCycle LocksHaveOwners
PROPERTIES ExpiredHoldReleased LocksReleased
