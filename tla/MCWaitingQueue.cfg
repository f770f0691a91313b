SPECIFICATION Spec
CONSTANTS
  Token = {t1, t2}
  Activator = {a1}
  Expirer = {e1}
  Limit = 1
  Ttl = 1
  MaxTime = 3
INVARIANTS IInv FirstComeFirstServed
PROPERTIES ExpireIsFinal ExpiredForCause QueueTakesTurns EveryTokenActivated EveryTokenExpires
