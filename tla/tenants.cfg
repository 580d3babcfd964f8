SPECIFICATION Spec
CONSTANTS
  e1 = e1
  e2 = e2
  e3 = e3
  c1 = c1
  c2 = c2
  c3 = c3
  t1 = t1
  t2 = t2
  tn1 = tn1
  tn2 = tn2
  m1 = m1
  Engines = {e1, e2, e3}
  Models = {m1}
  Tenants = {tn1, tn2}
  Tasks = {t1, t2}
  Conns = {c1, c2, c3}
  NoEngine = NoEngine
  NoConn = NoConn
  NoEntry = NoEntry
  NoJob = NoJob
  ConnEngine <- MCConnEngine
  ConnTenant <- TenantOfConn
  ConnLocal <- AllLocal
  TaskTenant <- TenantOfTask
  TaskModel <- MCTaskModel
  TaskTarget <- T2Target
  TaskStream <- T2Forwarded
  TaskForwarded <- T2Forwarded
  MayCancel = {}
  DynamicModelLoading = TRUE
  Statuses <- MCStatuses
  MaxRetryCount = 1
  QueueSize = 2
  BufSize = 3
  NumChunks = 1
INVARIANT RouterConsistent
INVARIANT ExecutedByRightEngine
