SPECIFICATION Spec
CONSTANTS
  Target = {s, m}
  MyDrive = {m}
  Caller = {c, d}
  None = None
  Threshold = 2
  MaxEvents = 2
INVARIANTS
  TypeOK
  RepairsMatchMisses
  OneKind
  ButtonsMatch
PROPERTY RepairsStay
SYMMETRY Alike
