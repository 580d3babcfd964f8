SPECIFICATION FairSpec
CONSTANTS
  e1 = e1
  e2 = e2
  e3 = e3
  c1 = c1
  c2 = c2
  c3 = c3
  t1 = t1
  t2 = t2
  tn1 = tn1
  tn2 = tn2
  m1 = m1
  Engines = {e1}
  Models = {m1}
  Tenants = {tn1}
  Tasks = {t1, t2}
  Conns = {c1}
  NoEngine = NoEngine
  NoConn = NoConn
  NoEntry = NoEntry
  NoJob = NoJob
  ConnEngine <- MCConnEngine
  ConnTenant <- OneTenantConn
  ConnLocal <- AllLocal
  TaskTenant <- OneTenantTask
  TaskModel <- MCTaskModel
  TaskTarget <- NoTarget
  TaskStream <- NoneForwarded
  TaskForwarded <- NoneForwarded
  MayCancel = {t1, t2}
  DynamicModelLoading = FALSE
  Statuses <- ReadyStatus
  MaxRetryCount = 1
  QueueSize = 1
  BufSize = 2
  NumChunks = 1
PROPERTY LossOfEngineIsNoticed
PROPERTY CancelledTaskLeaves
