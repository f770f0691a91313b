SPECIFICATION Spec
CONSTANTS
  Reader = {r1, r2}
  Date = {1, 2}
  Performance = {1}
  Seat = {s1, s2}
  Ttl = 1
  CallBound = 1
  MaxTime = 5
INVARIANTS IInv ListedWasFree AnswersExist
PROPERTIES OrphanedByFailure
SYMMETRY Interchangeable
