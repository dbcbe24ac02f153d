CHECK_DEADLOCK FALSE
SPECIFICATION FairTree
CONSTANTS
  Member = {leader, m1}
  Leader = leader
  Stream = {stdout, stderr}
  Unkillable = {}
  Foreign = {}
  Daemons = FALSE
  IOErrors = FALSE
  Cancels = FALSE
PROPERTIES
  TimeoutStaysActive
