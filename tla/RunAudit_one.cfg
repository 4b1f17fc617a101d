SPECIFICATION Spec
CONSTANTS
  Runs = {r1}
  Actions = {a1, a2}
  MaxActiveRuns = 1
  MaxRevisions = 1
  StoreFaults = TRUE
INVARIANTS ReviewCoversLastAttempt WritesEndTheRun LogNeverAheadOfRow ActiveRunsAreOwned AuditTellsTruth
PROPERTIES FinalRowsStay ImplementsLifecycle
CHECK_DEADLOCK FALSE
