--------------------------- MODULE SnapshotDocument ---------------------------
(***************************************************************************)
(* The two conversions around a snapshot setting: what the client makes of *)
(* a document the NAS stores (snapshot_payload.py, snapshot_schedule.py),  *)
(* and the full document it writes for a requested change                  *)
(* (snapshot_write.py).                                                    *)
(*                                                                         *)
(* A day list is the set of its entries: "" and "*" both hold no day, and  *)
(* Junk stands for entries that are no valid day.  A stored time is the    *)
(* text <hour>:<minute><suffix>, or has the suffix Junk when it is absent  *)
(* or no such text; seconds are ignored.  The optional "frequency" label   *)
(* some firmware adds to a schedule is left out: the client never writes   *)
(* one.                                                                    *)
(***************************************************************************)
EXTENDS Integers, FiniteSets

CONSTANTS
  Weekday,      \* valid weekly entries, 0..6
  Monthday,     \* valid monthly entries, 1..31
  FirstWeekday, \* the weekly default "1"
  FirstMonthday,\* the monthly default "1"
  MaxStored,    \* bound on the limit a stored document holds
  MinLimit, MaxLimit, DefaultLimit,
  Keep          \* a field an update leaves alone (None)

Junk == "junk"
Suffix == {"", "am", "pm", Junk}

\* Times of day, of hour and minute; a text that tells none; what is written
\* in its place.
Time == (0..23) \X (0..59)
NoTime == <<>>
Midnight == <<0, 0>>

ASSUME DayAssumption ==
  /\ FirstWeekday \in Weekday
  /\ FirstMonthday \in Monthday
  /\ Junk \notin Weekday \cup Monthday

ASSUME LimitAssumption ==
  /\ MinLimit \in Nat \ {0}
  /\ MaxLimit \in Nat
  /\ DefaultLimit \in MinLimit..MaxLimit
  /\ MaxStored \in Nat
  /\ MaxLimit <= MaxStored

Frequency == {"Never", "Daily", "Weekly", "Monthly"}
Tristate == {"yes", "no", "absent"}
Limit == MinLimit..MaxLimit

ASSUME KeepAssumption ==
  /\ Keep \notin BOOLEAN /\ Keep \notin Limit
  /\ Keep \notin Frequency /\ Keep \notin Time
  /\ \A days \in (SUBSET Weekday) \cup (SUBSET Monthday) : Keep # days

Smaller(a, b) == IF a < b THEN a ELSE b
Larger(a, b) == IF a > b THEN a ELSE b

\* A document as the NAS stores it; a limit of 0 also stands for none.
Document ==
  [enabled   : Tristate,
   limit     : 0..MaxStored,
   enable    : Tristate,
   hourly    : BOOLEAN,      \* interval = 60
   weekdays  : SUBSET (Weekday \cup {Junk}),
   monthdays : SUBSET (Monthday \cup {Junk}),
   time      : [hour : 0..99, minute : 0..99, suffix : Suffix]]

\* A target as the client presents it.
Presented ==
  [enabled   : BOOLEAN,
   limit     : 0..MaxStored,
   running   : BOOLEAN,      \* schedule_enabled
   frequency : Frequency,
   weekdays  : SUBSET (Weekday \cup {Junk}),
   monthdays : SUBSET (Monthday \cup {Junk}),
   time      : Time \cup {NoTime}]

-----------------------------------------------------------------------------
(* Reading.                                                                *)

\* The schedule's kind is inferred from the day lists unless it is off.
FrequencyOf(d) ==
  IF d.enable = "no"                             THEN "Never"
  ELSE IF d.monthdays # {}                       THEN "Monthly"
  ELSE IF d.weekdays # {}                        THEN "Weekly"
  ELSE IF d.hourly \/ d.enable = "yes"           THEN "Daily"
  ELSE "Never"

\* A twelve-hour clock has no hour 0, and its day starts at 12 am.
HourOf(x) ==
  CASE x.suffix = "am" /\ x.hour = 12 -> 0
    [] x.suffix = "pm" /\ x.hour < 12 -> x.hour + 12
    [] OTHER -> x.hour

TimeParts(x) ==
  IF /\ x.suffix # Junk
     /\ x.suffix \in {"am", "pm"} => x.hour \in 1..12
     /\ HourOf(x) \in 0..23 /\ x.minute \in 0..59
  THEN <<HourOf(x), x.minute>>
  ELSE NoTime

Read(d) ==
  [enabled   |-> IF d.enabled = "absent" THEN d.limit > 0 ELSE d.enabled = "yes",
   limit     |-> d.limit,
   running   |-> d.enable = "yes",
   frequency |-> FrequencyOf(d),
   weekdays  |-> d.weekdays,
   monthdays |-> d.monthdays,
   time      |-> TimeParts(d.time)]

\* The valid entries of a day list; the entities show the first of them.
ValidDays(days, valid) == days \cap valid

\* The weekday and the day of the month the entities show.
WeekdayShown(p) == ValidDays(p.weekdays, Weekday)
MonthdayShown(p) == ValidDays(p.monthdays, Monthday)

-----------------------------------------------------------------------------
(* Requested changes: the ones entities and services make.                 *)

NoChange == [enabled |-> Keep, limit |-> Keep, frequency |-> Keep,
             time |-> Keep, weekdays |-> Keep, monthdays |-> Keep]

TurnOn == [NoChange EXCEPT !.enabled = TRUE]
TurnOff == [NoChange EXCEPT !.enabled = FALSE]
SetLimit(n) == [NoChange EXCEPT !.limit = n]
SetTime(t) == [NoChange EXCEPT !.time = t]
SetFrequency(f) == [NoChange EXCEPT !.frequency = f]

\* Choosing a day chooses the kind of schedule that has such days.
SetWeekday(day) == [NoChange EXCEPT !.frequency = "Weekly", !.weekdays = {day}]
SetMonthday(day) ==
  [NoChange EXCEPT !.frequency = "Monthly", !.monthdays = {day}]

SetSchedule(f, t, w, m) ==
  [NoChange EXCEPT !.frequency = f, !.time = t, !.weekdays = w, !.monthdays = m]

\* What a service lets through as the day of a schedule.
OneWeekday == {{day} : day \in Weekday}
OneMonthday == {{day} : day \in Monthday}

Update ==
  [enabled   : BOOLEAN \cup {Keep},
   limit     : Limit \cup {Keep},
   frequency : Frequency \cup {Keep},
   time      : Time \cup {Keep},
   weekdays  : OneWeekday \cup {Keep},
   monthdays : OneMonthday \cup {Keep}]

\* Turning the target off and nothing else removes its setting.
DeleteRequired(u) == u = TurnOff

-----------------------------------------------------------------------------
(* Writing.                                                                *)

Requested(value, current) == IF value = Keep THEN current ELSE value

\* A stored limit below the minimum is replaced by a default.
LimitKept(p, u) == Requested(u.limit, p.limit)
LimitToWrite(p, u) ==
  LET kept == IF p.limit >= MinLimit THEN p.limit
              ELSE IF Requested(u.enabled, p.enabled) THEN DefaultLimit
              ELSE MinLimit
  IN  Smaller(Larger(Requested(u.limit, kept), MinLimit), MaxLimit)

\* The days requested, else the valid ones the target had, else a default.
DaysIgnoringRequest(requested, current, valid, default) ==
  IF ValidDays(current, valid) # {} THEN ValidDays(current, valid)
  ELSE {default}
DaysToWrite(requested, current, valid, default) ==
  IF requested # Keep THEN requested
  ELSE IF ValidDays(current, valid) # {} THEN ValidDays(current, valid)
  ELSE {default}

FirstRunTime(t) ==
  LET written == IF t = NoTime THEN Midnight ELSE t
  IN  [hour |-> written[1], minute |-> written[2], suffix |-> ""]

EnableUnlessNever(p, u) == Requested(u.frequency, p.frequency) # "Never"
EnableToWrite(p, u) ==
  /\ Requested(u.frequency, p.frequency) # "Never"
  /\ u.frequency = Keep => p.running

\* The whole document sent by a PUT.
WriteBody(p, u) ==
  LET frequency == Requested(u.frequency, p.frequency)
  IN  [enabled   |-> IF Requested(u.enabled, p.enabled) THEN "yes" ELSE "no",
       limit     |-> LimitToWrite(p, u),
       enable    |-> IF EnableToWrite(p, u) THEN "yes" ELSE "no",
       hourly    |-> TRUE,
       weekdays  |-> IF frequency = "Weekly"
                     THEN DaysToWrite(u.weekdays, p.weekdays, Weekday,
                                      FirstWeekday)
                     ELSE {},
       monthdays |-> IF frequency = "Monthly"
                     THEN DaysToWrite(u.monthdays, p.monthdays, Monthday,
                                      FirstMonthday)
                     ELSE {},
       time      |-> FirstRunTime(Requested(u.time, p.time))]

\* What the NAS reports for a target whose setting was removed.
Removed ==
  [enabled |-> "no", limit |-> 0, enable |-> "absent", hourly |-> FALSE,
   weekdays |-> {}, monthdays |-> {},
   time |-> [hour |-> 0, minute |-> 0, suffix |-> Junk]]

\* A document that says outright whether the target and its schedule are
\* on, with values the client can write.
Plain(d) ==
  /\ d.enabled # "absent" /\ d.enable # "absent"
  /\ d.limit \in Limit
  /\ TimeParts(d.time) # NoTime
  /\ FrequencyOf(d) = "Weekly" => d.weekdays \cap Weekday # {}
  /\ FrequencyOf(d) = "Monthly" => d.monthdays \cap Monthday # {}
=============================================================================
