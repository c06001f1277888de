\* The cron job, an administrator and a preview at once; a restart, a failure.
SPECIFICATION FairSpec
CONSTANTS
  Records = {x1}
  Runs = {cron, admin, preview}
  DryRuns = {preview}
  SbisConfigured = {TRUE, FALSE}
  MaxRestarts = 1
  MaxFaults = 1
INVARIANTS ClosingSound BilledInRoubles
PROPERTIES UpdSettles
CHECK_DEADLOCK FALSE
