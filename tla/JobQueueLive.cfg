CONSTANTS
  Workers = {w1}
  Users = {u1}
  Requests = {r1, r2}
  UserOf <- MCUserOf
  Kinds = {"cloud"}
  Parents = {}
  MaxStarts = 0
  NoJob = NoJob
SPECIFICATION LiveSpec
PROPERTIES
  EveryRequestAnswered
  WorkersComeBack
  StrayIsKilled
CHECK_DEADLOCK FALSE
