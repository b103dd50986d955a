CONSTANTS
  Weekday <- MCWeekday
  Monthday <- MCMonthday
  FirstWeekday = "1"
  FirstMonthday = "1"
  MaxStored = 2
  MinLimit = 1
  MaxLimit = 2
  DefaultLimit = 1
  Keep = Keep
  c1 = c1
  c2 = c2
  c3 = c3
  shared = shared
  mydrive = mydrive
  NoOne = NoOne
  Caller = {c1, c2, c3}
  Target = {shared}
  Type = {"shared"}
  TypeOf <- MCLiveTypeOf
  Routes <- MCLiveRoutes
  Updates <- MCLiveUpdates
  Initial <- MCInitial
SPECIFICATION FairSpec
PROPERTIES
  EveryCallEnds
