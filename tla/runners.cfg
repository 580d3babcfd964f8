SPECIFICATION FairSpec
CONSTANTS
  Runners = {r1, r2}
  Tasks = {g1}
  GoAways = {g1}
  Heartbeats = {}
INVARIANT RunnerIsDue
INVARIANT RunnersAreBounded
PROPERTY EngineReturns
PROPERTY BrokenStreamIsLeft
PROPERTY ShutdownIsReported
