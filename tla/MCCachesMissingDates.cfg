SPECIFICATION Spec
CONSTANTS
  Reader = {r1, r2}
  Date = {1, 2}
  Performance = {1, 2}
  Seat = {s1}
  Ttl = 1
  CallBound = 1
  MaxTime = 2
INVARIANTS DatesComplete
