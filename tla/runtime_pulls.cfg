SPECIFICATION LiveSpec
CONSTANTS
  Models = {m1}
  Adapters = {}
  BaseOf <- MCBaseOf
  Pods = {}
  Owner <- MCOwner
  Calls = {k1}
  NoCall = NoCall
  Configs = {1, 2}
  NoRuntime = NoRuntime
  NoPod = NoPod
  ReadinessCheckMaxRetryCount = 1
  MaxIPs = 0
  MaxDisturbances = 1
  PreloadedModels = {}
  Parallelism = 3
INVARIANT WaiterIsKnown
INVARIANT RuntimeIsAutoscaled
INVARIANT ClusterIsFollowed
 
CHECK_DEADLOCK FALSE
