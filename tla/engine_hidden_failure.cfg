SPECIFICATION Spec
CONSTANTS
  NStages = 2
  First <- TwoStages
  StageNeeds <- InSequence
  StepNeeds <- NeedsPrevious
  StagePolicy <- StagePolicies
  StepPolicy <- NoConditions
  Gated = {}
  Fixer = {2}
  PerFinding = {}
  Blocking = {3}
  Digest = {d1}
  Commit = {c1}
  Resets = "never"
  Reports = TRUE
  Crashes = FALSE
  MaxRuns = 1
  MaxAttempts = 2
INVARIANTS
  CompletedWithoutFailure
