SPECIFICATION FairSpec
INVARIANTS
  TypeOK
PROPERTIES
  KeepsPromise
  DoReturns
  GoroutinesEnd
CHECK_DEADLOCK FALSE
