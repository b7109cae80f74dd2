SPECIFICATION FairSpec
PROPERTIES
  FailedUpdateKeepsFile
CHECK_DEADLOCK FALSE
