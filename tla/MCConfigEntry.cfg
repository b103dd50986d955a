SPECIFICATION MCSpec
CONSTANTS
  a = a
  b = b
  h1 = h1
  h2 = h2
  None = None
  Console = {a, b}
  Host = {h1, h2}
  Password = {p, q}
  Entry = {1, 2}
  Flow = {f, g}
  Typed = {a}
  Tells <- MCTells
  MaxEvents = 2
INVARIANTS
  TypeOK
  RunsAsStored
  UniqueIds
  StaysWithItsConsole
  SavedSettingsStay
SYMMETRY Alike
CHECK_DEADLOCK FALSE
