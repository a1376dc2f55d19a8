CONSTANTS
  Ingests <- MCIngests
  Finding <- MCFinding
  Activations <- MCActivations
  Clusters <- MCClusters
  Scope <- MCScope
  Stages = {"implement", "test"}
  Runs = {1, 2, 3}
  Issues = {1, 2}
  Modes = {"block", "warn"}
  AdvisoryLimit = 1
  MaxFaults = 2
  None = None
  Calls = {1, 2, 3}
  Workloads <- MCWorkloads
  RecentLimit = 3
  MaxFailures = 1
SPECIFICATION MCSpec
INVARIANTS
  TypeOK
  ClusterCountsEvents
  RecurringIsProposed
  DuplicatesOnlyByRace
  InvariantIsBacked
  InvariantStatsFollow
  BlockingAlwaysIncluded
  HotspotSignalled
  SignalsCountEvents
  BaselineOfOthers
