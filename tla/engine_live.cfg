SPECIFICATION FairSpec
CONSTANTS
  NStages = 2
  First <- OneByOne
  StageNeeds <- InSequence
  StepNeeds <- NeedsPrevious
  StagePolicy <- NoStageConditions
  StepPolicy <- StopSecond
  Gated = {}
  Fixer = {2}
  PerFinding = {}
  Blocking = {}
  Digest = {d1}
  Commit = {c1,c2}
  Resets = "anytime"
  Reports = TRUE
  Crashes = FALSE
  MaxRuns = 1
  MaxAttempts = 1
PROPERTIES
  CommandsEnd
