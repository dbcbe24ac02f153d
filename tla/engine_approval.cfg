SPECIFICATION Spec
CONSTANTS
  NStages = 2
  First <- OneByOne
  StageNeeds <- InSequence
  StepNeeds <- NeedsPrevious
  StagePolicy <- NoStageConditions
  StepPolicy <- NoConditions
  Gated = {1,2}
  Fixer = {2}
  PerFinding = {}
  Blocking = {}
  Digest = {d1,d2}
  Commit = {c1}
  Resets = "never"
  Reports = FALSE
  Crashes = FALSE
  MaxRuns = 2
  MaxAttempts = 2
INVARIANTS
  TypeOK
  AuthorizedWork
  PinnedPlaybook
PROPERTIES
  TerminalRunStays
