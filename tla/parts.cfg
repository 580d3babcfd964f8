SPECIFICATION PartsSpec
CONSTANTS
  Engines = {e1, e2}
  EngineStates = {x}
  NoEngine = NoEngine
  NoSender = NoSender
  Streams = {1, 2}
  MaxLocalChanges = 2
  LateHandlers = FALSE
  TicksPerSecond = 2
  Interval = 3
  Burst = 2
  MaxTicks = 8
  MaxReplicas = 2
  Contents = {a, b}
  MaxRevision = 3
  MaxPodFailures = 1
  MaxScales = 1
  NotKnown = NotKnown
  BucketNum = 2
  MaxSeconds = 3
  MaxInFlight = 1
  ScaleTargetValue = 1
  MinScale = 0
  MaxScale = 2
  MaxScaleUpRate = 200
  MaxScaleDownRate = 50
  ScaleToZeroGracePeriod = 1
  DeployedReplicas = 1
  Scalers = {1, 2}
  NoSts0 = NoSts0
  Requests = {r1, r2}
  HandlersOf <- MCHandlersOf
  NoRequest = NoRequest
  NoEntry = NoEntry
  MaxModelChanges = 1
  base = base
  tuned = tuned
  weights = weights
  adapter = adapter
  merges = merges
  Models = {base, tuned}
  BaseModelOf <- MCBaseOfModel
  Required <- MCRequired
  Optional <- MCOptional
  WithModelfile = {tuned}
  PreloadedModel = base
  NoFile = NoFile
  QueueLength = 2
  MaxPullerFailures = 2
  c1 = c1
  c2 = c2
  c3 = c3
  m1 = m1
  m2 = m2
  OllamaModels = {m1}
  PullCalls = {c1, c2}
  ModelOfCall <- MCModelOfCall
  MaxStsChanges = 4
  DeployedModels = {m1, m2}
  SharedVolume = {m1}
  NoSts = NoSts
  NotListed = NotListed
  MaxConfigs = 2
  MaxDeployFailures = 1
  BufferSize = 5
  MaxStreamLength = 6
  Pods = {1, 2}
  RuntimeTasks = {k1, k2}
  RuntimeRequestMaxRetries = 2
  BlacklistDuration = 1
  MaxPodChanges = 1
  NumPods = 2
  MaxSetChanges = 3
  LocalEngines = {l1, l2}
  ClientTasks = {k1}
  PeerTasks = {k2}
  DelaySuffices = TRUE
INVARIANT PartsTypeOK
INVARIANT TableIsOwned
INVARIANT RateIsKept
 
INVARIANT AverageIsExact
INVARIANT SleepsOnlyWhenIdle
INVARIANT CacheKnowsActivation
INVARIANT CompletedIsWhole
 
INVARIANT EventsOfAnyChunking
INVARIANT LivePodIsReached
INVARIANT RuntimeHasItsModel
PROPERTY TableMirrorsEngines
PROPERTY TableConverges
PROPERTY DriftedPodsGo
PROPERTY RequestsAreAccounted
PROPERTY PullsComplete
PROPERTY RuntimesAreDeployed
 
CHECK_DEADLOCK FALSE
