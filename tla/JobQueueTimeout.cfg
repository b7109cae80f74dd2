CONSTANTS
  Workers = {w1}
  Users = {u1}
  Requests = {r1}
  UserOf <- MCUserOf
  Kinds = {"upload"}
  Parents = {"timeout"}
  MaxStarts = 0
  NoJob = NoJob
SPECIFICATION LiveSpec
PROPERTIES
  TimedOutIsAnswered
CHECK_DEADLOCK FALSE
