------------------------- MODULE SettingsStoreProofs -------------------------
(***************************************************************************)
(* What the client promises about a change of a snapshot setting holds for *)
(* every document the NAS may store and every update that can be asked     *)
(* for: the conversions are shown once, on one document and one update,    *)
(* and a step of the store is such a conversion.                           *)
(***************************************************************************)
EXTENDS SettingsStore, TLAPS

-----------------------------------------------------------------------------
(* The conversions, one document and one update at a time.                 *)

\* A text tells a time of day or none; the text written tells the time it was
\* written for.
LEMMA TimesArePresentable ==
  ASSUME NEW d \in Document
  PROVE  TimeParts(d.time) \in Time \cup {NoTime}
BY DEF Document, TimeParts, HourOf, Time

LEMMA TimesReadBack ==
  ASSUME NEW t \in Time \cup {NoTime}
  PROVE  /\ FirstRunTime(t) \in [hour : 0..99, minute : 0..99, suffix : Suffix]
         /\ TimeParts(FirstRunTime(t)) = IF t = NoTime THEN Midnight ELSE t
<1> DEFINE written == IF t = NoTime THEN Midnight ELSE t
           x == FirstRunTime(t)
<1>1. written \in Time
  BY DEF Time, Midnight
<1>2. /\ written[1] \in 0..23 /\ written[2] \in 0..59
      /\ written = <<written[1], written[2]>>
  BY <1>1 DEF Time
<1>3. x = [hour |-> written[1], minute |-> written[2], suffix |-> ""]
  BY DEF FirstRunTime
<1> HIDE DEF written, x
<1>4. HourOf(x) = written[1] /\ x.suffix = "" /\ x.minute = written[2]
  BY <1>3 DEF HourOf
<1>5. TimeParts(x) = written
  <2>1. x.suffix # Junk /\ x.suffix \notin {"am", "pm"}
    BY <1>4 DEF Junk
  <2>2. HourOf(x) \in 0..23 /\ x.minute \in 0..59
    BY <1>2, <1>4
  <2>3. TimeParts(x) = <<HourOf(x), x.minute>>
    BY <2>1, <2>2 DEF TimeParts
  <2> QED
    BY <1>2, <1>4, <2>3
<1>6. x \in [hour : 0..99, minute : 0..99, suffix : Suffix]
  <2>1. written[1] \in 0..99 /\ written[2] \in 0..99
    BY <1>2
  <2> QED
    BY <1>3, <2>1 DEF Suffix
<1> QED
  BY <1>5, <1>6 DEF written, x

LEMMA TimesDiffer == NoTime \notin Time /\ Midnight \in Time
BY DEF NoTime, Time, Midnight

LEMMA ReadIsPresentable ==
  ASSUME NEW d \in Document
  PROVE  Read(d) \in Presented
<1>1. /\ d.limit \in 0..MaxStored
      /\ d.weekdays \in SUBSET (Weekday \cup {Junk})
      /\ d.monthdays \in SUBSET (Monthday \cup {Junk})
      /\ TimeParts(d.time) \in Time \cup {NoTime}
  BY TimesArePresentable DEF Document
<1>2. FrequencyOf(d) \in Frequency
  BY DEF FrequencyOf, Frequency
<1>3. (IF d.enabled = "absent" THEN d.limit > 0 ELSE d.enabled = "yes")
        \in BOOLEAN
  <2>1. CASE d.enabled = "absent"
    BY <2>1
  <2>2. CASE d.enabled # "absent"
    BY <2>2
  <2> QED
    BY <2>1, <2>2
<1>4. (d.enable = "yes") \in BOOLEAN
  OBVIOUS
<1> QED
  BY <1>1, <1>2, <1>3, <1>4, Zenon DEF Read, Presented

LEMMA LimitIsWritable ==
  ASSUME NEW p \in Presented, NEW u \in Update
  PROVE  /\ LimitToWrite(p, u) \in Limit
         /\ u.limit # Keep => LimitToWrite(p, u) = u.limit
         /\ u.limit = Keep /\ p.limit \in Limit => LimitToWrite(p, u) = p.limit
<1> DEFINE kept == IF p.limit >= MinLimit THEN p.limit
                   ELSE IF Requested(u.enabled, p.enabled) THEN DefaultLimit
                   ELSE MinLimit
           wanted == Requested(u.limit, kept)
<1>1. /\ MinLimit \in Nat /\ MaxLimit \in Nat /\ MaxStored \in Nat
      /\ DefaultLimit \in Nat
      /\ 1 <= MinLimit /\ MinLimit <= MaxLimit /\ MaxLimit <= MaxStored
  BY LimitAssumption
<1>2. kept \in Nat /\ (p.limit \in Limit => kept = p.limit)
  <2>1. p.limit \in Nat
    BY <1>1 DEF Presented
  <2> QED
    BY <1>1, <2>1 DEF Limit
<1>3. u.limit = Keep \/ u.limit \in Limit
  BY DEF Update
<1>4. wanted \in Nat /\ (u.limit \in Limit /\ u.limit # Keep => wanted = u.limit)
      /\ (u.limit = Keep => wanted = kept)
  BY <1>1, <1>2, <1>3 DEF Requested, Limit
<1>5. LimitToWrite(p, u) = Smaller(Larger(wanted, MinLimit), MaxLimit)
  BY DEF LimitToWrite
<1> HIDE DEF wanted, kept
<1> QED
  BY <1>1, <1>2, <1>3, <1>4, <1>5 DEF Smaller, Larger, Limit

LEMMA DaysAreWritable ==
  ASSUME NEW valid, NEW default \in valid, NEW current,
         NEW requested, requested = Keep \/ requested \in {{day} : day \in valid}
  PROVE  /\ DaysToWrite(requested, current, valid, default) \subseteq valid
         /\ DaysToWrite(requested, current, valid, default) # {}
         /\ requested # Keep =>
              DaysToWrite(requested, current, valid, default) = requested
         /\ requested = Keep /\ current \cap valid # {} =>
              DaysToWrite(requested, current, valid, default)
                = current \cap valid
BY DEF DaysToWrite, ValidDays

\* The days written for each kind of schedule.
LEMMA ScheduleDays ==
  ASSUME NEW p \in Presented, NEW u \in Update
  PROVE  /\ WriteBody(p, u).weekdays \subseteq Weekday
         /\ WriteBody(p, u).monthdays \subseteq Monthday
         /\ Requested(u.frequency, p.frequency) = "Weekly" =>
              /\ WriteBody(p, u).monthdays = {}
              /\ WriteBody(p, u).weekdays # {}
              /\ u.weekdays # Keep => WriteBody(p, u).weekdays = u.weekdays
              /\ u.weekdays = Keep /\ p.weekdays \cap Weekday # {} =>
                   WriteBody(p, u).weekdays = p.weekdays \cap Weekday
         /\ Requested(u.frequency, p.frequency) = "Monthly" =>
              /\ WriteBody(p, u).monthdays # {}
              /\ u.monthdays # Keep => WriteBody(p, u).monthdays = u.monthdays
              /\ u.monthdays = Keep /\ p.monthdays \cap Monthday # {} =>
                   WriteBody(p, u).monthdays = p.monthdays \cap Monthday
         /\ Requested(u.frequency, p.frequency) \notin {"Weekly", "Monthly"} =>
              WriteBody(p, u).weekdays = {} /\ WriteBody(p, u).monthdays = {}
<1> DEFINE weekly == DaysToWrite(u.weekdays, p.weekdays, Weekday, FirstWeekday)
           monthly == DaysToWrite(u.monthdays, p.monthdays, Monthday,
                                  FirstMonthday)
           frequency == Requested(u.frequency, p.frequency)
<1>1. /\ u.weekdays = Keep \/ u.weekdays \in {{day} : day \in Weekday}
      /\ u.monthdays = Keep \/ u.monthdays \in {{day} : day \in Monthday}
  BY DEF Update, OneWeekday, OneMonthday
<1>2. /\ weekly \subseteq Weekday /\ weekly # {}
      /\ u.weekdays # Keep => weekly = u.weekdays
      /\ u.weekdays = Keep /\ p.weekdays \cap Weekday # {} =>
           weekly = p.weekdays \cap Weekday
  BY <1>1, DayAssumption, DaysAreWritable
<1>3. /\ monthly \subseteq Monthday /\ monthly # {}
      /\ u.monthdays # Keep => monthly = u.monthdays
      /\ u.monthdays = Keep /\ p.monthdays \cap Monthday # {} =>
           monthly = p.monthdays \cap Monthday
  BY <1>1, DayAssumption, DaysAreWritable
<1>4. /\ WriteBody(p, u).weekdays = IF frequency = "Weekly" THEN weekly ELSE {}
      /\ WriteBody(p, u).monthdays = IF frequency = "Monthly" THEN monthly ELSE {}
  BY DEF WriteBody
<1> HIDE DEF weekly, monthly
<1> QED
  BY <1>2, <1>3, <1>4

\* The document written is one the NAS can store, and says everything
\* outright.
LEMMA BodyIsPlain ==
  ASSUME NEW p \in Presented, NEW u \in Update
  PROVE  /\ WriteBody(p, u) \in Document
         /\ Plain(WriteBody(p, u))
<1> DEFINE body == WriteBody(p, u)
<1>1. body.limit = LimitToWrite(p, u) /\ body.limit \in Limit
  BY LimitIsWritable DEF WriteBody
<1>2. Limit \subseteq 0..MaxStored
  BY LimitAssumption DEF Limit
<1>3. body.weekdays \subseteq Weekday /\ body.monthdays \subseteq Monthday
  BY ScheduleDays
<1>4. /\ body.time \in [hour : 0..99, minute : 0..99, suffix : Suffix]
      /\ TimeParts(body.time) # NoTime
  <2>1. p.time \in Time \cup {NoTime} /\ u.time \in Time \cup {Keep}
    BY DEF Presented, Update
  <2>2. Requested(u.time, p.time) \in Time \cup {NoTime}
    BY <2>1 DEF Requested
  <2>3. body.time = FirstRunTime(Requested(u.time, p.time))
    BY DEF WriteBody
  <2> QED
    BY <2>2, <2>3, TimesReadBack, TimesDiffer
<1>5. /\ body.enabled \in {"yes", "no"} /\ body.enable \in {"yes", "no"}
      /\ body.hourly = TRUE
  BY DEF WriteBody
<1>6. body = [enabled |-> body.enabled, limit |-> body.limit,
              enable |-> body.enable, hourly |-> body.hourly,
              weekdays |-> body.weekdays, monthdays |-> body.monthdays,
              time |-> body.time]
  BY DEF WriteBody
<1>7. body \in Document
  <2> HIDE DEF body
  <2> QED
    BY <1>1, <1>2, <1>3, <1>4, <1>5, <1>6 DEF Document, Tristate
<1>8. /\ FrequencyOf(body) = "Weekly" => body.weekdays \cap Weekday # {}
      /\ FrequencyOf(body) = "Monthly" => body.monthdays \cap Monthday # {}
  <2> HIDE DEF body
  <2> QED
    BY <1>3 DEF FrequencyOf
<1> QED
  <2> HIDE DEF body
  <2>1. Plain(body)
    BY <1>1, <1>4, <1>5, <1>8 DEF Plain
  <2> QED
    BY <1>7, <2>1 DEF body

\* The kind of schedule written reads back, and whether it is on.
LEMMA ScheduleReadsBack ==
  ASSUME NEW p \in Presented, NEW u \in Update
  PROVE  LET f == Requested(u.frequency, p.frequency)
             after == Read(WriteBody(p, u))
         IN  /\ u.frequency # Keep => after.frequency = u.frequency
             /\ p.running /\ f = p.frequency => after.frequency = f
             /\ f = "Never" => after.frequency = "Never"
             /\ u.frequency = Keep =>
                  (after.running <=> p.running /\ p.frequency # "Never")
<1> DEFINE body == WriteBody(p, u)
           f == Requested(u.frequency, p.frequency)
<1>1. /\ f \in Frequency
      /\ u.frequency = Keep => f = p.frequency
      /\ u.frequency # Keep => f = u.frequency
  BY DEF Presented, Update, Requested, Frequency
<1>2. body.enable = IF EnableToWrite(p, u) THEN "yes" ELSE "no"
  BY DEF WriteBody
<1>3. /\ f = "Weekly" => body.monthdays = {} /\ body.weekdays # {}
      /\ f = "Monthly" => body.monthdays # {}
      /\ f \notin {"Weekly", "Monthly"} =>
           body.weekdays = {} /\ body.monthdays = {}
  BY ScheduleDays
<1>4. /\ Read(body).frequency = FrequencyOf(body)
      /\ Read(body).running <=> body.enable = "yes"
  BY DEF Read
<1>5. p.running \in BOOLEAN
  BY DEF Presented
<1>6. EnableToWrite(p, u) <=> f # "Never" /\ (u.frequency = Keep => p.running)
  BY DEF EnableToWrite
<1>7. FrequencyOf(body) =
        IF body.enable = "no" THEN "Never"
        ELSE IF body.monthdays # {} THEN "Monthly"
        ELSE IF body.weekdays # {} THEN "Weekly"
        ELSE IF body.hourly \/ body.enable = "yes" THEN "Daily"
        ELSE "Never"
  BY DEF FrequencyOf
<1> HIDE DEF body, f
<1>8. EnableToWrite(p, u) => FrequencyOf(body) = f
  BY <1>1, <1>2, <1>3, <1>6, <1>7 DEF Frequency
<1>9. ~EnableToWrite(p, u) => FrequencyOf(body) = "Never"
  BY <1>2, <1>7
<1>10. /\ u.frequency # Keep => FrequencyOf(body) = u.frequency
       /\ p.running /\ f = p.frequency => FrequencyOf(body) = f
       /\ f = "Never" => FrequencyOf(body) = "Never"
       /\ u.frequency = Keep =>
            (body.enable = "yes" <=> p.running /\ p.frequency # "Never")
  BY <1>1, <1>2, <1>5, <1>6, <1>8, <1>9
<1> QED
  BY <1>4, <1>10 DEF body, f

LEMMA RemovedIsDocument == Removed \in Document
BY LimitAssumption DEF Removed, Document, Tristate, Suffix

-----------------------------------------------------------------------------
(* One change of one document.                                             *)

LEMMA ChangesAreDocuments ==
  ASSUME NEW d \in Document, NEW u \in Update, NEW e \in Changed(d, u)
  PROVE  e \in Document /\ (e = Removed \/ Plain(e))
<1>1. e = WriteBody(Read(d), u) \/ e = Removed
  BY DEF Changed
<1> QED
  BY <1>1, ReadIsPresentable, BodyIsPlain, RemovedIsDocument

LEMMA ChangeShows ==
  ASSUME NEW d \in Document, NEW u \in Update, NEW e \in Changed(d, u)
  PROVE  Shows(Read(e), u)
<1> DEFINE p == Read(d)
<1>1. p \in Presented
  BY ReadIsPresentable
<1>2. CASE e = WriteBody(p, u)
  <2>1. u.enabled # Keep => Read(e).enabled = u.enabled
    <3>1. u.enabled # Keep => u.enabled \in BOOLEAN
      BY DEF Update
    <3>2. e.enabled = IF Requested(u.enabled, p.enabled) THEN "yes" ELSE "no"
      BY <1>2 DEF WriteBody
    <3>3. Read(e).enabled = IF e.enabled = "absent" THEN e.limit > 0
                            ELSE e.enabled = "yes"
      BY DEF Read
    <3>4. CASE u.enabled # Keep
      <4>1. e.enabled = IF u.enabled THEN "yes" ELSE "no"
        BY <3>2, <3>4 DEF Requested
      <4>2. Read(e).enabled = (e.enabled = "yes")
        BY <3>3, <4>1
      <4>3. CASE u.enabled = TRUE
        BY <4>1, <4>2, <4>3
      <4>4. CASE u.enabled = FALSE
        BY <4>1, <4>2, <4>4
      <4> QED
        BY <3>1, <3>4, <4>3, <4>4
    <3> QED
      BY <3>4
  <2>2. u.limit # Keep => Read(e).limit = u.limit
    BY <1>1, <1>2, LimitIsWritable DEF WriteBody, Read
  <2>3. u.frequency # Keep => Read(e).frequency = u.frequency
    BY <1>1, <1>2, ScheduleReadsBack
  <2>4. u.time # Keep => Read(e).time = u.time
    <3>1. u.time # Keep => u.time \in Time
      BY DEF Update
    <3>2. u.time # Keep => e.time = FirstRunTime(u.time)
      BY <1>2 DEF WriteBody, Requested
    <3>3. u.time # Keep => TimeParts(e.time) = u.time
      BY <3>1, <3>2, TimesReadBack, TimesDiffer
    <3> QED
      BY <3>3 DEF Read
  <2>5. /\ Read(e).weekdays = e.weekdays
        /\ Read(e).monthdays = e.monthdays
    BY DEF Read
  <2>6. u.frequency \in {"Weekly", "Monthly"} =>
          Requested(u.frequency, p.frequency) = u.frequency
    BY KeepAssumption DEF Requested, Frequency
  <2>7. u.weekdays # Keep /\ u.frequency = "Weekly"
          => WeekdayShown(Read(e)) = u.weekdays
    <3>1. e.weekdays \subseteq Weekday
      BY <1>1, <1>2, ScheduleDays
    <3> QED
      BY <3>1, <1>1, <1>2, <2>5, <2>6, ScheduleDays DEF WeekdayShown, ValidDays
  <2>8. u.monthdays # Keep /\ u.frequency = "Monthly"
          => MonthdayShown(Read(e)) = u.monthdays
    <3>1. e.monthdays \subseteq Monthday
      BY <1>1, <1>2, ScheduleDays
    <3> QED
      BY <3>1, <1>1, <1>2, <2>5, <2>6, ScheduleDays DEF MonthdayShown, ValidDays
  <2> QED
    BY <2>1, <2>2, <2>3, <2>4, <2>7, <2>8 DEF Shows
<1>3. CASE e = Removed /\ DeleteRequired(u)
  <2>1. /\ u.enabled = FALSE /\ u.limit = Keep /\ u.frequency = Keep
        /\ u.time = Keep /\ u.weekdays = Keep /\ u.monthdays = Keep
    BY <1>3 DEF DeleteRequired, TurnOff, NoChange
  <2>2. Read(e).enabled = FALSE
    BY <1>3 DEF Read, Removed
  <2> QED
    BY <2>1, <2>2 DEF Shows
<1> QED
  BY <1>2, <1>3 DEF Changed

LEMMA ChangeStartsNothing ==
  ASSUME NEW d \in Document, NEW u \in Update, NEW e \in Changed(d, u)
  PROVE  StartsNothing(Read(d), Read(e), u)
<1>1. CASE e = WriteBody(Read(d), u)
  BY <1>1, ReadIsPresentable, ScheduleReadsBack DEF StartsNothing
<1>2. CASE e = Removed
  <2>1. Read(e).running = FALSE
    BY <1>2 DEF Read, Removed
  <2> QED
    BY <2>1 DEF StartsNothing
<1> QED
  BY <1>1, <1>2 DEF Changed

LEMMA ChangeKeepsTheRest ==
  ASSUME NEW d \in Document, Plain(d),
         NEW u \in Update, ~DeleteRequired(u),
         NEW e \in Changed(d, u)
  PROVE  KeepsTheRest(Read(d), Read(e), u)
<1> DEFINE p == Read(d)
<1>1. p \in Presented
  BY ReadIsPresentable
<1>2. e = WriteBody(p, u)
  BY DEF Changed
<1>3. u.enabled = Keep => Read(e).enabled = p.enabled
  <2>1. CASE u.enabled = Keep
    <3>1. d.enabled \in {"yes", "no"}
      BY DEF Plain, Document, Tristate
    <3>2. p.enabled = (d.enabled = "yes")
      BY <3>1 DEF Read
    <3>3. e.enabled = IF p.enabled THEN "yes" ELSE "no"
      BY <1>2, <2>1 DEF WriteBody, Requested
    <3>4. Read(e).enabled = (e.enabled = "yes")
      BY <3>3 DEF Read
    <3>5. CASE d.enabled = "yes"
      BY <3>2, <3>3, <3>4, <3>5
    <3>6. CASE d.enabled = "no"
      BY <3>2, <3>3, <3>4, <3>6
    <3> QED
      BY <3>1, <3>5, <3>6
  <2> QED
    BY <2>1
<1>4. u.limit = Keep => Read(e).limit = p.limit
  <2>1. p.limit \in Limit
    BY DEF Plain, Read
  <2> QED
    BY <1>1, <1>2, <2>1, LimitIsWritable DEF WriteBody, Read
<1>5. u.time = Keep => Read(e).time = p.time
  <2>1. p.time # NoTime /\ p.time \in Time \cup {NoTime}
    BY <1>1 DEF Plain, Read, Presented
  <2>2. u.time = Keep => e.time = FirstRunTime(p.time)
    BY <1>2 DEF WriteBody, Requested
  <2>3. u.time = Keep => TimeParts(e.time) = p.time
    BY <2>1, <2>2, TimesReadBack
  <2> QED
    BY <2>3 DEF Read
<1>6. CASE u.frequency = Keep
  <2> DEFINE f == Requested(u.frequency, p.frequency)
  <2>1. f = p.frequency
    BY <1>6 DEF Requested
  <2>2. /\ d.enable \in {"yes", "no"}
        /\ p.running <=> d.enable = "yes"
        /\ p.frequency = FrequencyOf(d)
    BY DEF Plain, Document, Tristate, Read
  <2>3. p.running <=> p.frequency # "Never"
    BY <2>2 DEF FrequencyOf
  <2>4. Read(e).frequency = p.frequency
    BY <1>1, <1>2, <2>1, <2>3, ScheduleReadsBack
  <2>5. Read(e).running <=> p.running
    BY <1>1, <1>2, <1>6, <2>3, ScheduleReadsBack
  <2>6. Read(e).running \in BOOLEAN /\ p.running \in BOOLEAN
    BY DEF Read
  <2>7. Read(e).running = p.running
    BY <2>5, <2>6
  <2>8. /\ p.frequency = "Weekly" => p.weekdays \cap Weekday # {}
        /\ p.frequency = "Monthly" => p.monthdays \cap Monthday # {}
    BY DEF Plain, Read
  <2>9. /\ Read(e).weekdays = e.weekdays
        /\ Read(e).monthdays = e.monthdays
    BY DEF Read
  <2>10. /\ p.frequency = "Weekly" /\ u.weekdays = Keep
              => Read(e).weekdays = p.weekdays \cap Weekday
         /\ p.frequency = "Monthly" /\ u.monthdays = Keep
              => Read(e).monthdays = p.monthdays \cap Monthday
    BY <1>1, <1>2, <2>1, <2>8, <2>9, ScheduleDays
  <2> QED
    BY <1>3, <1>4, <1>5, <2>4, <2>7, <2>10
       DEF KeepsTheRest, WeekdayShown, MonthdayShown, ValidDays
<1> QED
  BY <1>3, <1>4, <1>5, <1>6 DEF KeepsTheRest
-----------------------------------------------------------------------------
(* The store.                                                              *)

StoreTypeOK ==
  /\ stored \in [Target -> Document]
  /\ phase \in [Caller -> {"idle", "open"}]
  /\ request \in [Caller -> Request]
  /\ outcome \in [Caller -> Outcome \cup {"none"}]

LEMMA AnyRequestIsRequest == AnyRequest \in Request
<1>1. PICK t \in Target, u \in Updates : TRUE
  BY StoreAssumption
<1>2. [target |-> t, update |-> u] \in Request
  BY <1>1 DEF Request
<1> QED
  BY <1>2 DEF AnyRequest

\* What a call can have done when it returns.
LEMMA ReturnChanges ==
  ASSUME StoreTypeOK, NEW c \in Caller, Return(c)
  PROVE  /\ outcome' = [outcome EXCEPT ![c] = outcome'[c]]
         /\ outcome'[c] \in Outcome
         /\ \/ /\ outcome'[c] \notin Refused
               /\ \E d \in Changed(stored[request[c].target],
                                  request[c].update) :
                    stored' = [stored EXCEPT ![request[c].target] = d]
            \/ outcome'[c] # "ok" /\ UNCHANGED stored
<1>1. PICK o \in Outcome :
        /\ outcome' = [outcome EXCEPT ![c] = o]
        /\ \/ /\ o \notin Refused
              /\ \E d \in Changed(stored[request[c].target],
                                 request[c].update) :
                   stored' = [stored EXCEPT ![request[c].target] = d]
           \/ o # "ok" /\ UNCHANGED stored
  BY DEF Return
<1>2. outcome'[c] = o
  BY <1>1 DEF StoreTypeOK
<1> QED
  BY <1>1, <1>2

LEMMA RequestFields ==
  ASSUME StoreTypeOK, NEW c \in Caller
  PROVE  /\ request[c].target \in Target
         /\ request[c].update \in Update
BY StoreAssumption DEF StoreTypeOK, Request

LEMMA StoreTypeStep ==
  StoreTypeOK /\ [StoreNext]_storeVars => StoreTypeOK'
<1> SUFFICES ASSUME StoreTypeOK, [StoreNext]_storeVars
             PROVE  StoreTypeOK'
  OBVIOUS
<1>1. CASE UNCHANGED storeVars
  BY <1>1 DEF storeVars, StoreTypeOK
<1>2. ASSUME NEW c \in Caller, Call(c)
      PROVE  StoreTypeOK'
  BY <1>2 DEF Call, StoreTypeOK
<1>3. ASSUME NEW c \in Caller, Return(c)
      PROVE  StoreTypeOK'
  <2>1. stored' \in [Target -> Document]
    <3>1. CASE UNCHANGED stored
      BY <3>1 DEF StoreTypeOK
    <3>2. ASSUME NEW d \in Changed(stored[request[c].target],
                                   request[c].update),
                 stored' = [stored EXCEPT ![request[c].target] = d]
          PROVE  stored' \in [Target -> Document]
      <4>1. d \in Document
        BY RequestFields, ChangesAreDocuments DEF StoreTypeOK
      <4> QED
        BY <3>2, <4>1 DEF StoreTypeOK
    <3> QED
      BY <1>3, <3>1, <3>2, ReturnChanges
  <2>2. /\ phase' = [phase EXCEPT ![c] = "idle"]
        /\ request' = [request EXCEPT ![c] = AnyRequest]
    BY <1>3 DEF Return
  <2>3. outcome' \in [Caller -> Outcome \cup {"none"}]
    BY <1>3, ReturnChanges DEF StoreTypeOK
  <2> QED
    BY <2>1, <2>2, <2>3, AnyRequestIsRequest DEF StoreTypeOK
<1> QED
  BY <1>1, <1>2, <1>3 DEF StoreNext

LEMMA StoreTypeInit == StoreInit => StoreTypeOK
BY StoreAssumption, AnyRequestIsRequest DEF StoreInit, StoreTypeOK

LEMMA StoreTypeCorrect == StoreSpec => []StoreTypeOK
BY StoreTypeInit, StoreTypeStep, PTL DEF StoreSpec

\* A call that reports success is the one that returns in this step, and
\* it changed its target.
LEMMA ReturnedChanges ==
  ASSUME StoreTypeOK, [StoreNext]_storeVars, NEW c \in Caller, Returned(c)
  PROVE  \E d \in Changed(stored[request[c].target], request[c].update) :
           stored'[request[c].target] = d
<1>1. CASE UNCHANGED storeVars
  BY <1>1 DEF storeVars, Returned
<1>2. ASSUME NEW e \in Caller, Call(e)
      PROVE  FALSE
  BY <1>2 DEF Call, Returned, StoreTypeOK
<1>3. ASSUME NEW e \in Caller, Return(e)
      PROVE  \E d \in Changed(stored[request[c].target], request[c].update) :
               stored'[request[c].target] = d
  <2>1. e = c
    <3>1. outcome' = [outcome EXCEPT ![e] = outcome'[e]]
      BY <1>3, ReturnChanges
    <3> QED
      BY <3>1 DEF Returned, StoreTypeOK
  <2>2. PICK d \in Changed(stored[request[c].target], request[c].update) :
          stored' = [stored EXCEPT ![request[c].target] = d]
    BY <1>3, <2>1, ReturnChanges DEF Returned
  <2> QED
    BY <2>2, RequestFields DEF StoreTypeOK
<1> QED
  BY <1>1, <1>2, <1>3 DEF StoreNext

\* A change that was reported as made reads back as it was requested,
\* whichever document the client merged it into.
THEOREM RequestsAreMet == StoreSpec => RequestedFieldsStick
<1>1. StoreTypeOK /\ [StoreNext]_storeVars =>
        [\A c \in Caller :
           Returned(c) => Shows(Read(stored'[request[c].target]),
                                request[c].update)]_storeVars
  <2> SUFFICES ASSUME StoreTypeOK, [StoreNext]_storeVars,
                      NEW c \in Caller, Returned(c)
               PROVE  Shows(Read(stored'[request[c].target]),
                            request[c].update)
    OBVIOUS
  <2>1. PICK d \in Changed(stored[request[c].target], request[c].update) :
          stored'[request[c].target] = d
    BY ReturnedChanges
  <2>2. stored[request[c].target] \in Document
    BY RequestFields DEF StoreTypeOK
  <2> QED
    BY <2>1, <2>2, RequestFields, ChangeShows
<1> QED
  BY <1>1, StoreTypeCorrect, PTL DEF StoreSpec, RequestedFieldsStick

\* Writing the whole document back disturbs no field the caller did not ask
\* to change, and never starts a schedule on the side.
THEOREM OthersAreKept == StoreSpec => OtherFieldsKept
<1> DEFINE Kept(c) ==
      LET t == request[c].target
          u == request[c].update
          before == Read(stored[t])
          after == Read(stored'[t])
      IN  /\ StartsNothing(before, after, u)
          /\ Plain(stored[t]) /\ ~DeleteRequired(u)
               => KeepsTheRest(before, after, u)
<1>1. ASSUME StoreTypeOK, [StoreNext]_storeVars, NEW c \in Caller, Returned(c)
      PROVE  Kept(c)
  <2>1. PICK d \in Changed(stored[request[c].target], request[c].update) :
          stored'[request[c].target] = d
    BY <1>1, ReturnedChanges
  <2>2. stored[request[c].target] \in Document /\ request[c].update \in Update
    BY <1>1, RequestFields DEF StoreTypeOK
  <2>3. StartsNothing(Read(stored[request[c].target]), Read(d),
                      request[c].update)
    BY <2>2, ChangeStartsNothing
  <2>4. Plain(stored[request[c].target]) /\ ~DeleteRequired(request[c].update)
          => KeepsTheRest(Read(stored[request[c].target]), Read(d),
                          request[c].update)
    BY <2>2, ChangeKeepsTheRest
  <2> QED
    BY <2>1, <2>3, <2>4
<1>2. StoreTypeOK /\ [StoreNext]_storeVars =>
        [\A c \in Caller : Returned(c) => Kept(c)]_storeVars
  BY <1>1
<1> QED
  BY <1>2, StoreTypeCorrect, PTL DEF StoreSpec, OtherFieldsKept

\* Whatever the client leaves on the NAS says everything outright.
THEOREM WritesArePlain == StoreSpec => WrittenIsPlain
<1>1. StoreTypeOK /\ [StoreNext]_storeVars =>
        [\A t \in Target :
           stored'[t] # stored[t] /\ stored'[t] # Removed
             => Plain(stored'[t])]_storeVars
  <2> SUFFICES ASSUME StoreTypeOK, StoreNext, NEW t \in Target,
                      stored'[t] # stored[t], stored'[t] # Removed
               PROVE  Plain(stored'[t])
    BY DEF storeVars
  <2>1. ASSUME NEW c \in Caller, Call(c)
        PROVE  FALSE
    BY <2>1 DEF Call
  <2>2. ASSUME NEW c \in Caller, Return(c)
        PROVE  Plain(stored'[t])
    <3>1. PICK d \in Changed(stored[request[c].target], request[c].update) :
            stored' = [stored EXCEPT ![request[c].target] = d]
      BY <2>2, ReturnChanges
    <3>2. stored[request[c].target] \in Document
      BY RequestFields DEF StoreTypeOK
    <3>3. d = Removed \/ Plain(d)
      BY <3>2, RequestFields, ChangesAreDocuments
    <3>4. stored'[t] = d
      BY <3>1 DEF StoreTypeOK
    <3> QED
      BY <3>3, <3>4
  <2> QED
    BY <2>1, <2>2 DEF StoreNext
<1> QED
  BY <1>1, StoreTypeCorrect, PTL DEF StoreSpec, WrittenIsPlain
=============================================================================
