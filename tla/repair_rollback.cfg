SPECIFICATION FairSpec
CONSTANTS
  N = 2
  Path = {"unit", "spec", "other", "ignored"}
  Tests = {"unit", "spec"}
  Scope = {"unit", "spec", "ignored"}
  Ignored = {"ignored"}
  Version <- Versions
  NeedsApproval = TRUE
  RequireTest = TRUE
  Interrupts = TRUE
  MaxAttempts = 2
INVARIANTS
  TypeOK
  RejectedIsRolledBack
  ForbiddenIsRemoved
  RollbackIsExact
  TestsStay
  SucceededIsSettled
PROPERTIES
  SettledStays
  AttemptsEnd
