SPECIFICATION FairSpec
CONSTANTS
  IPs = {a, b}
  Requests = {r1, r2, r3}
  IPOf <- MCIPOf
  Limiters = {l1, l2}
  Cost = 2
  Burst = 2
  TTL = 5
  MaxHold = 2
INVARIANTS
  TypeOK
  HeldIsInMap
PROPERTIES
  IsTokenBucket
  IdleIsForgotten
CHECK_DEADLOCK FALSE
