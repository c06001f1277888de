\* The cron job and an administrator at the same time.
SPECIFICATION Spec
CONSTANTS
  Records = {x1, x2}
  Runs = {cron, admin}
  DryRuns = {}
  SbisConfigured = {TRUE}
  MaxRestarts = 0
  MaxFaults = 0
INVARIANTS OneUpdPerPeriod
CHECK_DEADLOCK FALSE
