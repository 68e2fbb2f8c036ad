SPECIFICATION Spec
CONSTANTS
  Callers = {c1}
  CallRoles = {"producer"}
  Ops = {"createTask", "writeSuccess", "getTask"}
  Topologies = {"standalone", "sentinel", "cluster"}
  PoolSizes <- OneOrNone
  Clustered = {TRUE, FALSE}
  MaxCalls = 3
  MaxFaults = 2
CHECK_DEADLOCK FALSE
INVARIANTS CallsTruthful MissesHealed ScopeSound ProbeHeals
