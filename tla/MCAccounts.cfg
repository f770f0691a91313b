SPECIFICATION Spec
CONSTANTS
  User = {u1}
  Charge = {c1, c2}
  Debit = {d1, d2}
  Null = Null
  ChargeMode = {"optimistic", "pessimistic", "increment"}
  PayMode = {"routed", "optimistic"}
  Opening = {0, 1}
  Amount <- SignedAmounts
INVARIANTS IInv ConflictMeansProgress
PROPERTIES BalancesFollowLedger LossNeedsOvertaking OnlyNegativeChargesOverdraw
