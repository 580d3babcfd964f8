SPECIFICATION OllamaSpec
CONSTANTS
  c1 = c1
  c2 = c2
  c3 = c3
  m1 = m1
  m2 = m2
  OllamaModels = {m1, m2}
  PullCalls = {c1, c2, c3}
  ModelOfCall <- MCModelOfCall
  MaxStsChanges = 4
INVARIANT ChannelsAreClosedOnce
CHECK_DEADLOCK FALSE
