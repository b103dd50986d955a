CONSTANTS
  Key <- MCKey2
  Type <- MCType
  TypeOf <- MCTypeOf
  Rank <- MCRank
  Refusing <- MCRefusingPeer
  Stalled = {}
  Transient = {"shared_a"}
  Failures <- MCFailures
  Reader = {"poll", "service", "write"}
  Interval = 2
  MaxWrites = 1
SPECIFICATION Spec
INVARIANTS
  TypeOK
  CacheCoherent
  WriteWillBeSeen
  ReadsAreNeeded
  IssueMeansUnreadable
PROPERTY
  NoSilentLoss
