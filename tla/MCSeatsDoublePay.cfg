SPECIFICATION Spec
CONSTANTS
  Seat = {s1}
  User = {u1}
  Request = {r1}
  Payment = {p1, p2}
  Sweep = {w1}
  Null = Null
  ReserveMode = {"pessimistic"}
  PayMode = {"routed"}
  Hold = 2
  Grace = 1
  TxnBound = 1
  MaxTime = 2
INVARIANTS SoldOnce
