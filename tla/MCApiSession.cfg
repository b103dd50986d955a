CONSTANTS
  Caller = {"poll", "task"}
  Kinds <- MCKinds
  Paths = 2
SPECIFICATION FairSpec
INVARIANTS
  TypeOK
  AuthIsEarned
  RequestsCarrySession
PROPERTIES
  ImplementsCalls
  SessionRecovers
