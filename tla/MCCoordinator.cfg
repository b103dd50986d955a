CONSTANTS
  Features <- MCFeatures
  Budget = 6
  Latency <- MCLatency
  Threshold = 2
  Mode = {"Quiet", "Balance"}
SPECIFICATION FairSpec
INVARIANTS
  TypeOK
  StatusAgrees
  OnlineMatchesMisses
  AvailableHasData
PROPERTIES
  SlowFeaturesBlockNoOther
  Recovers
  FanModeSettles
