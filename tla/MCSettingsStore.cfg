CONSTANTS
  Weekday <- MCWeekday
  Monthday <- MCMonthday
  FirstWeekday = "1"
  FirstMonthday = "1"
  MaxStored = 4
  MinLimit = 1
  MaxLimit = 3
  DefaultLimit = 2
  Keep = Keep
  Caller = {c1}
  Target = {t1}
  Updates <- MCUpdates
  Initial <- MCInitial
SPECIFICATION StoreSpec
PROPERTIES
  RequestedFieldsStick
  OtherFieldsKept
  WrittenIsPlain
