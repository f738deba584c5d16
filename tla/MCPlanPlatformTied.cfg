CONSTANTS
  Replicas = {r1, r2}
  OpIds <- MCTiedOpIds
  OpOf <- MCTiedOps
  PlanTasks = {"a", "b"}
  NoTask = NoTask
  MaxSaved = 2
  PatchOf <- MCPatches
  VersionIds = {v1, v2, v3}
  Lamports = {1, 2}
  PlanStates <- MCPlanStates
  Epochs = {9, 10}
  OpLists <- MCOpLists
  NoResult = NoResult
  Cut = Cut
  EpochOf <- MCEpochOf
  CurrentEpochs = {3, 4}
  keep_epochs = 1
  Unreadable = Unreadable
  Needs = {n1}
  Proposed = {x1, x2}
  NoDecide = NoDecide
  Stamps = {1, 2}
  PartitionTimeout = 1
  PartitionMaxTime = 4
  PartitionMaxEpoch = 3
  MaxCalls <- MCMaxCalls
SYMMETRY Interchangeable
SPECIFICATION Spec
INVARIANT MergedReplicasAgree
CHECK_DEADLOCK FALSE
