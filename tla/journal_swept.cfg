CHECK_DEADLOCK FALSE
SPECIFICATION JournalSpec
CONSTANTS
  Proc = {p1, p2}
  Nobody = nobody
  Run = {r1, r2}
  Crashes = FALSE
  MaxEvents = 4
INVARIANTS
  IntactUnlessKilled
