CONSTANTS
  Key <- MCKey3
  Type <- MCType
  TypeOf <- MCTypeOf
  Rank <- MCRank
  Refusing <- MCRefusing
  Stalled <- MCStalled
  Transient = {}
  Failures = {"unsupported", "retry"}
  Reader = {"poll", "service"}
  Interval = 1
  MaxWrites = 1
SPECIFICATION FairSpec
PROPERTIES
  PeersProgress
  WritesAreSeen
