SPECIFICATION Spec
CONSTANTS
  Seat = {s1}
  User = {u1, u2}
  Request = {r1, r2}
  Payment = {p1}
  Sweep = {w1}
  Null = Null
  ReserveMode = {"pessimistic", "optimistic", "cached", "legacy"}
  PayMode = {"routed", "optimistic"}
  Hold = 1
  Grace = 1
  TxnBound = 1
  MaxTime = 4
INVARIANTS IInv HoldHonoured OneHolder ReservationBacked VersionGuardsStatus
PROPERTIES SoldStaysSold SeatsFollowLife
SYMMETRY Interchangeable
