CONSTANTS
  Workers = {w1, w2}
  Users = {u1}
  Requests = {r1, r2}
  UserOf <- MCUserOf
  Kinds = {"stream", "upload"}
  Parents = {"client"}
  MaxStarts = 1
  NoJob = NoJob
SPECIFICATION Spec
INVARIANTS
  TypeOK
  OutputOutlivesJob
  RunningCounts
  SuccessIsFfmpegs
  NoFrozenProgress
SYMMETRY MCSymmetry
CHECK_DEADLOCK FALSE
