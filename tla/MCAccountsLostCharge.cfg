SPECIFICATION Spec
CONSTANTS
  User = {u1}
  Charge = {c1}
  Debit = {d1}
  Null = Null
  ChargeMode = {"pessimistic"}
  PayMode = {"routed"}
  Opening = {1}
  Amount = {1}
PROPERTIES EachCallItsAmount
