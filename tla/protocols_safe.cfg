CHECK_DEADLOCK FALSE
SPECIFICATION Spec
SYMMETRY Symmetry
CONSTANTS
  Proc = {w1, w2}
  Nobody = nobody
  Run = {r1, r2}
  Crashes = TRUE
  MaxEvents = 3
  MaxAttempts = 2
  Output = {o1, o2}
  Undeclared = undeclared
  Command = {p1, p2, p3, c4, c5}
  NoCommand = nocommand
  CommandKills = TRUE
  Pull = {p1, p2, p3}
  NoPull = nopull
  Index = {i1, i2}
  PullKills = TRUE
  Faults = TRUE
  SlowOwners = TRUE
  Caller = {p1, p2, p3}
  NoCaller = nocaller
  CallerKills = TRUE
  MaxRuns = 2
  MaxRevision = 2
  Playbook <- ThreeSteps
  DependsOn <- CheckNeedsPrepare
  NoStep = nostep
  Target = 100
  Enabled = TRUE
  MaxTurns = 5
  MaxCost = 8
  MaxFailures = 2
  MaxForeign = 1
INVARIANTS
  TypesOK
  OneChain
  AcknowledgedIsCovered
  EngineStartsOnce
  IntentThenResult
  ReceiptIsTrue
  SucceededIsPublished
  ExclusiveUnlessRecoveredTwice
  ArchiveNamesTheLock
  PulledStaysWhole
  CorruptOnlyAfterAFault
  VerdictIsEvidenced
  NothingUnverifiedIsLeft
PROPERTIES
  NothingAfterABreak
  RecordedGatesAreCurrent
