SPECIFICATION Spec
CONSTANTS
  Seat = {s1}
  User = {u1}
  Request = {r1, r2}
  Payment = {}
  Sweep = {w1, w2}
  Null = Null
  ReserveMode = {"pessimistic"}
  PayMode = {"routed"}
  Hold = 1
  Grace = 1
  TxnBound = 1
  MaxTime = 4
INVARIANTS HoldKept
