SPECIFICATION Spec
CONSTANTS
  Files = {f1, f2, f3}
  Requests = {r1, r2}
  Kinds = {"upload"}
  Sizes = {2}
  MaxStorage = 4
INVARIANTS
  QuotaRespected
CHECK_DEADLOCK FALSE
