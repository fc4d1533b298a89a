CONSTANTS
  Events = {e1, e2, e3}
  Replicas = {p1, p2}
  BatchSize = 2
  Files <- MCFiles
  Paired <- MCPaired
  Top = 1
  MaxCrashes = 1
  None = None
  Probes = {c1}
  MaxTurns = 5
  Keys = {"cron:sample"}
  NoHolder = NoHolder
  MaxRuns = 4
SPECIFICATION MCSpec
SYMMETRY ReplicaSymmetry
INVARIANT MarkedMeansDelivered WorkHasItsPools AcceptedIsSound ServesMigrated
INVARIANT ReadyIsTrue OneRunner
