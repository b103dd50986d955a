--------------------------- MODULE MCSettingsStore ---------------------------
(* One caller changing one target, from every document the NAS may hold. *)
EXTENDS SettingsStore

MCWeekday == {"1", "3"}
MCMonthday == {"1", "31"}

\* Half past twelve in the night and at noon, a time that cannot be, none.
MCText ==
  {[hour |-> 12, minute |-> 30, suffix |-> "am"],
   [hour |-> 12, minute |-> 30, suffix |-> "pm"],
   [hour |-> 24, minute |-> 0, suffix |-> ""],
   [hour |-> 0, minute |-> 0, suffix |-> Junk]}

MCInitial ==
  [enabled : Tristate, limit : 0..MaxStored, enable : Tristate,
   hourly : BOOLEAN, weekdays : SUBSET (Weekday \cup {Junk}),
   monthdays : SUBSET (Monthday \cup {Junk}), time : MCText]

MCUpdates ==
  {TurnOn, TurnOff, SetTime(<<16, 30>>)}
    \cup {SetLimit(n) : n \in Limit}
    \cup {SetFrequency(f) : f \in Frequency}
    \cup {SetWeekday("3"), SetMonthday("31")}
    \cup {SetSchedule(f, <<16, 30>>, {"3"}, {"31"}) : f \in Frequency}
    \cup {SetSchedule("Weekly", Keep, {"3"}, Keep)}
=============================================================================
