CONSTANTS
  Features <- MCFeatures
  Budget = 6
  Latency <- MCLatency
  Threshold = 2
  Mode = {"Quiet", "Balance"}
SPECIFICATION Spec
PROPERTIES
  OfflineAfterTwoInARow
