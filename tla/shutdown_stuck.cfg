SPECIFICATION FairSpec
CONSTANTS
  Runners = {r1}
  Tasks = {g1, t1}
  GoAways = {g1}
  Heartbeats = {}
PROPERTY ShutdownProceeds
