CHECK_DEADLOCK FALSE
SPECIFICATION FairSpec
CONSTANTS
  Proc = {p1, p2}
  Nobody = nobody
  Crashes = TRUE
  MaxRevision = 2
  Member = {leader, m1, m2}
  Leader = leader
  Stream = {stdout, stderr}
  Unkillable = {m2}
  Foreign = {m1}
  Daemons = TRUE
  IOErrors = TRUE
  Cancels = TRUE
INVARIANTS
  OneWriter
  NothingLeftBehind
  StoppedIsGone
PROPERTIES
  ImplementsRegister
  CallsEnd
  EndsUnlessOutputIsHeld
