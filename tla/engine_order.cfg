SPECIFICATION Spec
CONSTANTS
  NStages = 2
  First <- TwoStages
  StageNeeds <- InSequence
  StepNeeds <- NeedsPrevious
  StagePolicy <- StagePolicies
  StepPolicy <- StepPolicies
  Gated = {}
  Fixer = {2}
  PerFinding = {2}
  Blocking = {3}
  Digest = {d1}
  Commit = {c1}
  Resets = "unlocked"
  Reports = FALSE
  Crashes = TRUE
  MaxRuns = 1
  MaxAttempts = 2
INVARIANTS
  DeclaredOrder
  CompletedIsEarned
  ActiveHasAttempt
  PausedForAReason
  LoggedIsTrue
PROPERTIES
  ImplementsLifecycle
