SPECIFICATION Spec
CONSTANTS
  N = 2
  Path = {"unit", "spec", "other", "ignored"}
  Tests = {"unit", "spec"}
  Scope = {"unit", "spec", "ignored"}
  Ignored = {"ignored"}
  Version <- Versions
  NeedsApproval = FALSE
  RequireTest = FALSE
  Interrupts = TRUE
  MaxAttempts = 3
INVARIANTS
  RolledBackBetweenAttempts
