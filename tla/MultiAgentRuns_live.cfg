SPECIFICATION FairSpec
CONSTANTS
  Runs = {r1, r2}
  Actions = {}
  MaxActiveRuns = 1
  MaxRevisions = 0
  StoreFaults = FALSE
INVARIANTS CapacityRespected
PROPERTIES RunsSettle
