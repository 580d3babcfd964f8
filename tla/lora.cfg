SPECIFICATION Spec
CONSTANTS
  Models = {m1}
  Adapters = {a1}
  BaseOf <- MCBaseOf
  Pods = {p1, p2}
  Owner <- MCOwner
  Calls = {k1}
  NoCall = NoCall
  Configs = {1}
  NoRuntime = NoRuntime
  NoPod = NoPod
  NoStatus = NoStatus
  ReadinessCheckMaxRetryCount = 0
  MaxIPs = 1
  MaxDisturbances = 0
  MaxRequests = 1
INVARIANT AdapterIsWorkedOn
INVARIANT ReadyIsServed
CHECK_DEADLOCK FALSE
SYMMETRY MCPodSymmetry
