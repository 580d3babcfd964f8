SPECIFICATION Spec
CONSTANTS
  e1 = e1
  e2 = e2
  c1 = c1
  c1b = c1b
  c2 = c2
  t1 = t1
  tn1 = tn1
  m1 = m1
  Engines = {e1, e2}
  Models = {m1}
  Tenants = {tn1}
  Tasks = {t1}
  Conns = {c1, c2}
  NoEngine = NoEngine
  NoConn = NoConn
  NoEntry = NoEntry
  NoJob = NoJob
  ConnEngine <- MCConnEngine
  ConnTenant <- MCConnTenant
  ConnLocal <- MCConnLocal
  TaskTenant <- MCTaskTenant
  TaskModel <- MCTaskModel
  TaskTarget <- MCTaskTarget
  TaskStream <- MCTaskStream
  TaskForwarded <- MCTaskForwarded
  MayCancel = {}
  DynamicModelLoading = FALSE
  Statuses <- MCStatuses
  MaxRetryCount = 2
  QueueSize = 2
  BufSize = 6
  NumChunks = 2
INVARIANT NoLostTask
INVARIANT StreamFromOneAttempt
