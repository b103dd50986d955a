------------------------ MODULE SnapshotSettingsProofs ------------------------
(***************************************************************************)
(* The client's locked read, merge and write implements SettingsStore, for *)
(* any number of callers and targets.                                      *)
(*                                                                         *)
(* A caller past the lock is alone there, so the NAS keeps the document it *)
(* has read until it writes: that is the inductive invariant, and it is    *)
(* what makes the step that writes a change of the current document.       *)
(***************************************************************************)
EXTENDS SnapshotSettings, SequenceTheorems, TLAPS

\* What is proved of the store's conversions.
Facts == INSTANCE SettingsStoreProofs
  WITH phase <- [c \in Caller |->
                   IF call[c].stage = "idle" THEN "idle" ELSE "open"]

\* Exactly the lock's owner is past the lock.
OnlyOwnerInside ==
  \A c \in Caller : call[c].stage \in Inside <=> owner = c

IInv == TypeOK /\ OnlyOwnerInside /\ CopyIsCurrent

-----------------------------------------------------------------------------
(* The parts of a call.                                                    *)

LEMMA AnyRequestIsRequest == Store!AnyRequest \in Request
<1>1. PICK t \in Target, u \in Updates : TRUE
  BY SettingsAssumption
<1>2. [target |-> t, update |-> u] \in Store!Request
  BY <1>1 DEF Store!Request
<1> QED
  BY <1>2 DEF Store!AnyRequest, Store!Request, Request

LEMMA AttemptsOfRequest ==
  ASSUME NEW r \in Request
  PROVE  /\ Len(Attempts(r)) \in 1..4
         /\ 1 \in 1..Len(Attempts(r))
         /\ \A i \in 1..Len(Attempts(r)) :
              Attempts(r)[i] = "DELETE" => DeleteRequired(r.update)
<1> DEFINE routes == Routes[r.target]
           deletes == IF DeleteRequired(r.update) THEN routes ELSE 0
<1>1. routes \in {1, 2}
  BY SettingsAssumption DEF Request
<1>2. deletes \in 0..2 /\ (~DeleteRequired(r.update) => deletes = 0)
  BY <1>1
<1>3. Attempts(r) = [i \in 1..(deletes + routes) |->
                       IF i <= deletes THEN "DELETE" ELSE "PUT"]
  BY DEF Attempts
<1> HIDE DEF deletes, routes
<1>4. Attempts(r) \in Seq({"DELETE", "PUT"})
  BY <1>1, <1>2, <1>3
<1>5. Len(Attempts(r)) = deletes + routes
  BY <1>1, <1>2, <1>3, <1>4
<1> QED
  BY <1>1, <1>2, <1>3, <1>5

-----------------------------------------------------------------------------
(* The conversions of a call are the store's.                              *)

LEMMA SameDocuments ==
  /\ Facts!Document = Document /\ Facts!Presented = Presented
  /\ Facts!Update = Update /\ Facts!Removed = Removed
BY DEF Facts!Document, Facts!Presented, Facts!Update, Facts!Removed,
       Facts!Tristate, Facts!Suffix, Facts!Frequency, Facts!Time, Facts!NoTime,
       Facts!Limit, Facts!OneWeekday, Facts!OneMonthday, Facts!Junk,
       Document, Presented, Update, Removed, Tristate, Suffix, Frequency, Time,
       NoTime, Limit, OneWeekday, OneMonthday, Junk

LEMMA SameAssumptions ==
  /\ Facts!DayAssumption /\ Facts!LimitAssumption
  /\ Facts!KeepAssumption /\ Facts!StoreAssumption
<1>1. Facts!DayAssumption
  BY DayAssumption DEF Facts!Junk, Junk
<1>2. Facts!LimitAssumption
  BY LimitAssumption
<1>3. Facts!KeepAssumption
  BY KeepAssumption
     DEF Facts!Limit, Facts!Frequency, Facts!Time, Limit, Frequency, Time
<1>4. Facts!StoreAssumption
  BY SettingsAssumption, SameDocuments
<1> QED
  BY <1>1, <1>2, <1>3, <1>4

LEMMA SameRead ==
  ASSUME NEW d
  PROVE  Facts!Read(d) = Read(d)
<1>1. Facts!TimeParts(d.time) = TimeParts(d.time)
  BY DEF Facts!TimeParts, Facts!HourOf, Facts!NoTime, Facts!Junk,
         TimeParts, HourOf, NoTime, Junk
<1>2. Facts!FrequencyOf(d) = FrequencyOf(d)
  BY DEF Facts!FrequencyOf, FrequencyOf
<1> QED
  BY <1>1, <1>2 DEF Facts!Read, Read

LEMMA ReadIsPresentable ==
  ASSUME NEW d \in Document
  PROVE  Read(d) \in Presented
BY SameAssumptions, SameDocuments, SameRead, Facts!ReadIsPresentable

LEMMA RemovedIsDocument == Removed \in Document
BY SameAssumptions, SameDocuments, Facts!RemovedIsDocument

LEMMA BodyIsDocument ==
  ASSUME NEW p \in Presented, NEW u \in Update
  PROVE  WriteBody(p, u) \in Document
<1>1. Facts!WriteBody(p, u) \in Facts!Document
  BY SameAssumptions, SameDocuments, Facts!BodyIsPlain
<1>2. Facts!WriteBody(p, u) = WriteBody(p, u)
  <2>1. Facts!LimitToWrite(p, u) = LimitToWrite(p, u)
    BY DEF Facts!LimitToWrite, Facts!Requested, Facts!Smaller, Facts!Larger,
           LimitToWrite, Requested, Smaller, Larger
  <2>2. Facts!EnableToWrite(p, u) <=> EnableToWrite(p, u)
    BY DEF Facts!EnableToWrite, Facts!Requested, EnableToWrite, Requested
  <2> QED
    BY <2>1, <2>2
       DEF Facts!WriteBody, Facts!DaysToWrite, Facts!Requested, Facts!ValidDays,
           Facts!FirstRunTime, Facts!NoTime, Facts!Midnight,
           WriteBody, DaysToWrite, Requested, ValidDays, FirstRunTime, NoTime, Midnight
<1> QED
  BY <1>1, <1>2, SameDocuments

-----------------------------------------------------------------------------

LEMMA IdleIsCall == Idle \in CallState
<1>1. NoCopy \in Presented
  BY RemovedIsDocument, ReadIsPresentable DEF NoCopy
<1> QED
  BY <1>1 DEF Idle, CallState, Stage

LEMMA EffectIsDocument ==
  ASSUME TypeOK, NEW c \in Caller
  PROVE  Effect(c) \in Document
<1>1. call[c].copy \in Presented /\ MyUpdate(c) \in Update
  BY SettingsAssumption DEF TypeOK, CallState, Request, MyUpdate
<1> QED
  BY <1>1, BodyIsDocument, RemovedIsDocument DEF Effect

\* What is true of the caller's part after a step of a call that is past
\* the lock, or has just taken it.
CallPost(c) ==
  /\ call' \in [Caller -> CallState]
  /\ request' \in [Caller -> Request]
  /\ outcome' \in [Caller -> Store!Outcome \cup {"none"}]
  /\ \A d \in Caller : call'[d].attempt \in 1..Len(Attempts(request'[d]))
  /\ \A d \in Caller \ {c} : call'[d] = call[d] /\ request'[d] = request[d]
  /\ owner' = IF call'[c].stage \in Inside THEN c ELSE NoOne

LEMMA EndedPost ==
  ASSUME TypeOK, NEW c \in Caller, NEW o \in Store!Outcome, Ended(c, o),
         owner' = OwnerAfter(o)
  PROVE  CallPost(c) /\ call'[c] = Idle
<1>1. call' = [call EXCEPT ![c] = Idle]
  BY DEF Ended, Stop
<1>2. call' \in [Caller -> CallState] /\ call'[c] = Idle
  BY <1>1, IdleIsCall DEF TypeOK
<1>3. request' \in [Caller -> Request]
  BY AnyRequestIsRequest DEF Ended, TypeOK
<1>4. outcome' \in [Caller -> Store!Outcome \cup {"none"}]
  BY DEF Ended, TypeOK
<1>5. \A d \in Caller \ {c} : call'[d] = call[d] /\ request'[d] = request[d]
  BY <1>1 DEF Ended, TypeOK
<1>6. ASSUME NEW d \in Caller
      PROVE  call'[d].attempt \in 1..Len(Attempts(request'[d]))
  <2>1. CASE d = c
    <3>1. 1 \in 1..Len(Attempts(request'[d]))
      BY <1>3, AttemptsOfRequest
    <3>2. call'[d].attempt = 1
      BY <1>2, <2>1 DEF Idle
    <3> QED
      BY <3>1, <3>2
  <2>2. CASE d # c
    BY <1>5, <2>2 DEF TypeOK
  <2> QED
    BY <2>1, <2>2
<1>7. owner' = NoOne /\ call'[c].stage \notin Inside
  BY <1>2 DEF OwnerAfter, Idle, Inside
<1> QED
  BY <1>2, <1>3, <1>4, <1>5, <1>6, <1>7 DEF CallPost

LEMMA GoOnPost ==
  ASSUME TypeOK, NEW c \in Caller, NEW s \in CallState, s.stage \in Inside,
         s.attempt \in 1..Len(Attempts(request[c])),
         GoOn(c, [call EXCEPT ![c] = s])
  PROVE  CallPost(c) /\ call'[c] = s /\ request' = request
BY DEF GoOn, CallPost, TypeOK

LEMMA AtIsCall ==
  ASSUME TypeOK, NEW c \in Caller, NEW st \in Stage, NEW again \in BOOLEAN
  PROVE  LET s == [stage |-> st, copy |-> call[c].copy,
                   attempt |-> call[c].attempt, relogged |-> again]
         IN  /\ At(c, st, again) = [call EXCEPT ![c] = s]
             /\ s \in CallState /\ s.stage = st
             /\ s.attempt = call[c].attempt /\ s.copy = call[c].copy
BY DEF At, TypeOK, CallState

-----------------------------------------------------------------------------
(* Steps past the lock: what they keep and which step of the store they    *)
(* are.                                                                    *)

RestTyped ==
  /\ line' \in Seq(Caller)
  /\ polling' \in BOOLEAN
  /\ readSupported' \in BOOLEAN
  /\ writeSupported' \in [Type -> BOOLEAN]

Good(c) ==
  /\ CallPost(c)
  /\ RestTyped
  /\ stored' \in [Target -> Document]
  /\ call'[c].stage \in {"relogin", "write"} =>
       /\ stored' = stored
       /\ call'[c].copy = Read(stored[request'[c].target])
  /\ Store!Return(c) \/ UNCHANGED Store!storeVars

\* What the store allows a call that ends with o to have done.
Applied(c, o) ==
  \/ /\ o \notin Store!Refused
     /\ \E d \in Store!Changed(stored[request[c].target], request[c].update) :
          stored' = [stored EXCEPT ![request[c].target] = d]
  \/ o # "ok" /\ UNCHANGED stored

\* The store's conversions are the client's.
LEMMA SameChanges ==
  ASSUME NEW d, NEW u
  PROVE  Store!Changed(d, u) =
           {WriteBody(Read(d), u)}
             \cup IF DeleteRequired(u) THEN {Removed} ELSE {}
<1>1. Store!Read(d) = Read(d)
  <2>1. Store!TimeParts(d.time) = TimeParts(d.time)
    BY DEF Store!TimeParts, Store!HourOf, Store!NoTime, Store!Junk,
           TimeParts, HourOf, NoTime, Junk
  <2>2. Store!FrequencyOf(d) = FrequencyOf(d)
    BY DEF Store!FrequencyOf, FrequencyOf
  <2> QED
    BY <2>1, <2>2 DEF Store!Read, Read
<1>2. ASSUME NEW p
      PROVE  Store!WriteBody(p, u) = WriteBody(p, u)
  <2>1. Store!LimitToWrite(p, u) = LimitToWrite(p, u)
    BY DEF Store!LimitToWrite, Store!Requested, Store!Smaller, Store!Larger,
           LimitToWrite, Requested, Smaller, Larger
  <2>2. Store!EnableToWrite(p, u) <=> EnableToWrite(p, u)
    BY DEF Store!EnableToWrite, Store!Requested, EnableToWrite, Requested
  <2> QED
    BY <2>1, <2>2
       DEF Store!WriteBody, Store!DaysToWrite, Store!Requested,
           Store!ValidDays, Store!FirstRunTime, Store!NoTime, Store!Midnight,
           WriteBody, DaysToWrite, Requested, ValidDays, FirstRunTime, NoTime,
           Midnight
<1>3. Store!DeleteRequired(u) <=> DeleteRequired(u)
  BY DEF Store!DeleteRequired, Store!TurnOff, Store!NoChange, DeleteRequired,
         TurnOff, NoChange
<1>4. Store!Removed = Removed
  BY DEF Store!Removed, Store!Junk, Removed, Junk
<1> QED
  BY <1>1, <1>2, <1>3, <1>4 DEF Store!Changed

LEMMA EndedReturns ==
  ASSUME TypeOK, NEW c \in Caller, call[c].stage # "idle",
         NEW o \in Store!Outcome, Ended(c, o), Applied(c, o)
  PROVE  Store!Return(c)
<1> DEFINE phase == [d \in Caller |-> IF call[d].stage = "idle" THEN "idle"
                                     ELSE "open"]
           phaseNext == [d \in Caller |-> IF call'[d].stage = "idle" THEN "idle"
                                         ELSE "open"]
<1>1. phase[c] = "open"
  OBVIOUS
<1>2. phaseNext = [phase EXCEPT ![c] = "idle"]
  <2>1. call' = [call EXCEPT ![c] = Idle]
    BY DEF Ended, Stop
  <2>2. \A d \in Caller : call'[d] = IF d = c THEN Idle ELSE call[d]
    BY <2>1 DEF TypeOK
  <2>3. Idle.stage = "idle"
    BY DEF Idle
  <2> QED
    BY <2>2, <2>3
<1>3. /\ outcome' = [outcome EXCEPT ![c] = o]
      /\ request' = [request EXCEPT ![c] = Store!AnyRequest]
  BY DEF Ended
<1> QED
  BY <1>1, <1>2, <1>3 DEF Store!Return, Applied

LEMMA EndIsGood ==
  ASSUME TypeOK, NEW c \in Caller, call[c].stage # "idle",
         NEW o \in Store!Outcome, Ended(c, o), owner' = OwnerAfter(o),
         Applied(c, o), stored' \in [Target -> Document], RestTyped
  PROVE  Good(c)
<1>1. CallPost(c) /\ call'[c].stage = "idle"
  BY EndedPost DEF Idle
<1> QED
  BY <1>1, EndedReturns DEF Good

LEMMA GoOnIsGood ==
  ASSUME TypeOK, NEW c \in Caller, call[c].stage # "idle",
         CallPost(c), call'[c].stage # "idle",
         UNCHANGED <<stored, request, outcome>>, RestTyped,
         call'[c].stage \in {"relogin", "write"} =>
           call'[c].copy = Read(stored[request[c].target])
  PROVE  Good(c)
<1>1. \A d \in Caller : call'[d].stage = "idle" <=> call[d].stage = "idle"
  BY DEF CallPost
<1>2. [d \in Caller |-> IF call'[d].stage = "idle" THEN "idle" ELSE "open"]
        = [d \in Caller |-> IF call[d].stage = "idle" THEN "idle" ELSE "open"]
  BY <1>1
<1>3. UNCHANGED Store!storeVars
  BY <1>2 DEF Store!storeVars
<1> QED
  BY <1>3 DEF Good, TypeOK

LEMMA GoOnAtIsGood ==
  ASSUME TypeOK, NEW c \in Caller, call[c].stage # "idle",
         NEW st \in Inside, NEW again \in BOOLEAN, GoOn(c, At(c, st, again)),
         UNCHANGED stored, RestTyped,
         st \in {"relogin", "write"} =>
           call[c].copy = Read(stored[request[c].target])
  PROVE  Good(c)
<1> DEFINE s == [stage |-> st, copy |-> call[c].copy,
                 attempt |-> call[c].attempt, relogged |-> again]
<1>1. /\ At(c, st, again) = [call EXCEPT ![c] = s]
      /\ s \in CallState /\ s.stage = st
      /\ s.attempt = call[c].attempt /\ s.copy = call[c].copy
  BY AtIsCall DEF Stage, Inside
<1>2. s.attempt \in 1..Len(Attempts(request[c]))
  BY <1>1 DEF TypeOK
<1> HIDE DEF s
<1>3. CallPost(c) /\ call'[c] = s
  BY <1>1, <1>2, GoOnPost
<1>4. UNCHANGED <<request, outcome>>
  BY DEF GoOn
<1>5. call'[c].stage # "idle"
  BY <1>1, <1>3 DEF Inside
<1> QED
  BY <1>1, <1>3, <1>4, <1>5, GoOnIsGood

LEMMA BeginReadIsGood ==
  ASSUME TypeOK, NEW c \in Caller, call[c].stage # "idle",
         NEW again \in BOOLEAN, BeginRead(c, again),
         UNCHANGED stored, RestTyped
  PROVE  Good(c)
<1>1. CASE GoOn(c, At(c, "read", again))
  BY <1>1, GoOnAtIsGood DEF Inside
<1>2. CASE Ended(c, "unexpected") /\ owner' = OwnerAfter("unexpected")
  <2>1. "unexpected" \in Store!Outcome /\ Applied(c, "unexpected")
    BY DEF Store!Outcome, Store!Refused, Applied
  <2> QED
    BY <1>2, <2>1, EndIsGood DEF TypeOK
<1> QED
  BY <1>1, <1>2 DEF BeginRead

LEMMA BeginWriteIsGood ==
  ASSUME TypeOK, NEW c \in Caller, call[c].stage # "idle",
         NEW again \in BOOLEAN, NEW copy \in Presented,
         copy = Read(stored[MyTarget(c)]), BeginWrite(c, copy, again),
         UNCHANGED stored, RestTyped
  PROVE  Good(c)
<1>1. CASE GoOn(c, [call EXCEPT ![c] = [stage |-> "write", copy |-> copy,
                                        attempt |-> 1, relogged |-> again]])
  <2> DEFINE s == [stage |-> "write", copy |-> copy, attempt |-> 1,
                   relogged |-> again]
  <2>1. s \in CallState /\ s.stage \in Inside /\ s.copy = copy
        /\ s.attempt = 1 /\ s.stage # "idle"
    BY DEF CallState, Stage, Inside
  <2>2. 1 \in 1..Len(Attempts(request[c]))
    BY AttemptsOfRequest DEF TypeOK
  <2> HIDE DEF s
  <2>3. GoOn(c, [call EXCEPT ![c] = s])
    BY <1>1 DEF s
  <2>4. CallPost(c) /\ call'[c] = s
    BY <2>1, <2>2, <2>3, GoOnPost
  <2>5. UNCHANGED <<request, outcome>>
    BY <2>3 DEF GoOn
  <2> QED
    BY <2>1, <2>4, <2>5, GoOnIsGood DEF MyTarget
<1>2. CASE Ended(c, "unsupported") /\ owner' = OwnerAfter("unsupported")
  <2>1. "unsupported" \in Store!Outcome /\ Applied(c, "unsupported")
    BY DEF Store!Outcome, Store!Refused, Applied
  <2> QED
    BY <1>2, <2>1, EndIsGood DEF TypeOK
<1> QED
  BY <1>1, <1>2 DEF BeginWrite

\* A call that ends without having written.
LEMMA FinishIsGood ==
  ASSUME TypeOK, NEW c \in Caller, call[c].stage # "idle",
         NEW o \in Store!Outcome \ {"ok"}, Finish(c, o), UNCHANGED stored,
         polling' \in BOOLEAN, readSupported' \in BOOLEAN,
         writeSupported' \in [Type -> BOOLEAN]
  PROVE  Good(c)
<1>1. Ended(c, o) /\ owner' = OwnerAfter(o) /\ UNCHANGED line
  BY DEF Finish
<1>2. RestTyped /\ Applied(c, o) /\ stored' \in [Target -> Document]
  BY <1>1 DEF RestTyped, Applied, TypeOK
<1> QED
  BY <1>1, <1>2, EndIsGood

\* A call that ends having written: the change is one of the document the
\* NAS held at that moment.
LEMMA FinishAppliedIsGood ==
  ASSUME IInv, NEW c \in Caller, call[c].stage = "write",
         NEW o \in Store!Outcome \ Store!Refused, Finish(c, o), Apply(c),
         polling' \in BOOLEAN, readSupported' \in BOOLEAN,
         writeSupported' \in [Type -> BOOLEAN]
  PROVE  Good(c)
<1>1. Ended(c, o) /\ owner' = OwnerAfter(o) /\ UNCHANGED line
  BY DEF Finish
<1>2. TypeOK /\ RestTyped
  BY <1>1 DEF RestTyped, IInv, TypeOK
<1>3. stored' = [stored EXCEPT ![request[c].target] = Effect(c)]
  BY DEF Apply, MyTarget
<1>4. Effect(c) \in Store!Changed(stored[request[c].target], request[c].update)
  <2>1. call[c].copy = Read(stored[request[c].target])
    BY DEF IInv, CopyIsCurrent, MyTarget
  <2>2. /\ request[c] \in Request
        /\ call[c].attempt \in 1..Len(Attempts(request[c]))
    BY <1>2 DEF TypeOK
  <2>3. Attempts(request[c])[call[c].attempt] = "DELETE"
          => DeleteRequired(request[c].update)
    BY <2>2, AttemptsOfRequest
  <2> QED
    BY <2>1, <2>3, SameChanges DEF Effect, MyUpdate
<1>5. Applied(c, o)
  BY <1>3, <1>4 DEF Applied
<1>6. stored' \in [Target -> Document]
  BY <1>2, <1>3, EffectIsDocument DEF TypeOK
<1> QED
  BY <1>1, <1>2, <1>5, <1>6, EndIsGood

LEMMA EnterIsGood ==
  ASSUME IInv, NEW c \in Caller, Enter(c)
  PROVE  Good(c)
<1>1. TypeOK /\ call[c].stage # "idle" /\ UNCHANGED stored
  BY DEF Enter, MyTurn, IInv
<1>2. RestTyped
  <2>1. line' = Tail(line) /\ line \in Seq(Caller) /\ line # <<>>
    BY DEF Enter, MyTurn, IInv, TypeOK
  <2>2. line' \in Seq(Caller)
    BY <2>1
  <2> QED
    BY <2>2 DEF Enter, RestTyped, IInv, TypeOK
<1>3. CASE GoOn(c, At(c, "login", FALSE))
  BY <1>1, <1>2, <1>3, GoOnAtIsGood DEF Inside
<1>4. CASE BeginRead(c, FALSE)
  BY <1>1, <1>2, <1>4, BeginReadIsGood
<1> QED
  BY <1>3, <1>4 DEF Enter

LEMMA LoginIsGood ==
  ASSUME IInv, NEW c \in Caller, LoggedIn(c) \/ LoginFailed(c)
  PROVE  Good(c)
<1>1. TypeOK
  BY DEF IInv
<1>2. CASE LoggedIn(c)
  <2>1. UNCHANGED stored /\ RestTyped
    BY <1>1, <1>2 DEF LoggedIn, RestTyped, TypeOK
  <2>2. CASE call[c].stage = "login" /\ BeginRead(c, call[c].relogged)
    <3>1. call[c].relogged \in BOOLEAN
      BY <1>1 DEF TypeOK, CallState
    <3> QED
      BY <1>1, <2>1, <2>2, <3>1, BeginReadIsGood
  <2>3. CASE call[c].stage = "relogin" /\ BeginWrite(c, call[c].copy, TRUE)
    <3>1. /\ call[c].copy \in Presented
          /\ call[c].copy = Read(stored[MyTarget(c)])
      BY <1>1, <2>3 DEF IInv, CopyIsCurrent, TypeOK, CallState
    <3> QED
      BY <1>1, <2>1, <2>3, <3>1, BeginWriteIsGood
  <2> QED
    BY <1>2, <2>2, <2>3 DEF LoggedIn
<1>3. CASE LoginFailed(c)
  <2>1. PICK o \in {"auth", "connect"} : Finish(c, o)
    BY <1>3 DEF LoginFailed
  <2>2. o \in Store!Outcome \ {"ok"}
    BY DEF Store!Outcome, Store!Refused, Store!Unknown
  <2>3. /\ call[c].stage # "idle" /\ UNCHANGED stored
        /\ polling' \in BOOLEAN /\ readSupported' \in BOOLEAN
        /\ writeSupported' \in [Type -> BOOLEAN]
    BY <1>1, <1>3 DEF LoginFailed, TypeOK
  <2> QED
    BY <1>1, <2>1, <2>2, <2>3, FinishIsGood
<1> QED
  BY <1>2, <1>3

LEMMA ReadAnswerIsGood ==
  ASSUME IInv, NEW c \in Caller,
         \/ ReadListed(c) \/ ReadUnusable(c) \/ ReadUnavailable(c)
         \/ ReadFailed(c) \/ ReadRefused(c)
  PROVE  Good(c)
<1>1. TypeOK
  BY DEF IInv
<1>2. /\ call[c].stage = "read" /\ UNCHANGED stored
      /\ polling' \in BOOLEAN /\ writeSupported' \in [Type -> BOOLEAN]
  BY <1>1 DEF ReadListed, ReadUnusable, ReadUnavailable, ReadFailed,
              ReadRefused, TypeOK
<1>3. readSupported' \in BOOLEAN
  BY <1>1 DEF ReadListed, ReadUnusable, ReadUnavailable, ReadFailed,
              ReadRefused, TypeOK
<1>4. {"unexpected", "connect", "auth"} \subseteq Store!Outcome \ {"ok"}
  BY DEF Store!Outcome, Store!Refused, Store!Unknown
<1>5. CASE ReadListed(c)
  <2>1. stored[MyTarget(c)] \in Document
    BY <1>1 DEF TypeOK, MyTarget, Request
  <2>2. Read(stored[MyTarget(c)]) \in Presented
    BY <2>1, ReadIsPresentable
  <2>3. RestTyped
    BY <1>1, <1>2, <1>3, <1>5 DEF ReadListed, RestTyped, TypeOK
  <2> QED
    BY <1>1, <1>2, <1>5, <2>2, <2>3, BeginWriteIsGood DEF ReadListed
<1>6. CASE ReadUnusable(c) \/ ReadUnavailable(c) \/ ReadFailed(c)
  <2>1. Finish(c, "unexpected") \/ Finish(c, "connect")
    BY <1>6 DEF ReadUnusable, ReadUnavailable, ReadFailed
  <2> QED
    BY <1>1, <1>2, <1>3, <1>4, <2>1, FinishIsGood
<1>7. CASE ReadRefused(c)
  <2>1. CASE GoOn(c, At(c, "login", TRUE)) /\ UNCHANGED line
    <3>1. RestTyped
      BY <1>1, <1>2, <1>3, <2>1 DEF RestTyped, TypeOK
    <3> QED
      BY <1>1, <1>2, <2>1, <3>1, GoOnAtIsGood DEF Inside
  <2>2. CASE Finish(c, "auth")
    BY <1>1, <1>2, <1>3, <1>4, <2>2, FinishIsGood
  <2> QED
    BY <1>7, <2>1, <2>2 DEF ReadRefused
<1> QED
  BY <1>5, <1>6, <1>7

LEMMA WriteAnswerIsGood ==
  ASSUME IInv, NEW c \in Caller,
         \/ WriteAccepted(c) \/ WriteUnavailable(c) \/ WriteFailed(c)
         \/ WriteRefused(c)
  PROVE  Good(c)
<1>1. TypeOK
  BY DEF IInv
<1>2. /\ call[c].stage = "write"
      /\ polling' \in BOOLEAN /\ readSupported' \in BOOLEAN
  BY <1>1 DEF WriteAccepted, WriteUnavailable, WriteFailed, WriteRefused, TypeOK
<1>3. writeSupported' \in [Type -> BOOLEAN]
  BY <1>1 DEF WriteAccepted, WriteUnavailable, WriteFailed, WriteRefused, TypeOK
<1>4. /\ {"ok", "connect"} \subseteq Store!Outcome \ Store!Refused
      /\ {"connect", "auth", "unsupported"} \subseteq Store!Outcome \ {"ok"}
  BY DEF Store!Outcome, Store!Refused, Store!Unknown
<1>5. call[c].copy = Read(stored[request[c].target])
  BY <1>2 DEF IInv, CopyIsCurrent, MyTarget
<1>6. CASE WriteAccepted(c)
  BY <1>2, <1>3, <1>4, <1>6, FinishAppliedIsGood DEF WriteAccepted
<1>7. CASE WriteFailed(c)
  <2>1. Finish(c, "connect")
    BY <1>7 DEF WriteFailed, AfterFailure
  <2>2. CASE Apply(c)
    BY <1>2, <1>3, <1>4, <2>1, <2>2, FinishAppliedIsGood
  <2>3. CASE UNCHANGED stored
    BY <1>1, <1>2, <1>3, <1>4, <2>1, <2>3, FinishIsGood
  <2> QED
    BY <1>7, <2>2, <2>3 DEF WriteFailed
<1>8. CASE WriteUnavailable(c)
  <2>1. UNCHANGED stored
    BY <1>8 DEF WriteUnavailable
  <2>2. CASE /\ MoreAttempts(c)
             /\ GoOn(c, [call EXCEPT ![c].attempt = @ + 1])
             /\ UNCHANGED line
    <3> DEFINE s == [call[c] EXCEPT !.attempt = @ + 1]
    <3>1. s.attempt \in 1..Len(Attempts(request[c]))
      <4>1. /\ call[c].attempt \in 1..Len(Attempts(request[c]))
            /\ call[c].attempt < Len(Attempts(request[c]))
        BY <1>1, <2>2 DEF TypeOK, MoreAttempts
      <4>2. Len(Attempts(request[c])) \in 1..4
        BY <1>1, AttemptsOfRequest DEF TypeOK
      <4>3. s.attempt = call[c].attempt + 1
        BY <1>1 DEF TypeOK, CallState
      <4> HIDE DEF s
      <4> QED
        BY <4>1, <4>2, <4>3
    <3>2. Len(Attempts(request[c])) \in 1..4
      BY <1>1, AttemptsOfRequest DEF TypeOK
    <3>3. s.attempt \in 1..4
      <4> DEFINE n == Len(Attempts(request[c]))
      <4>1. n \in 1..4 /\ s.attempt \in 1..n
        BY <3>1, <3>2
      <4> HIDE DEF s, n
      <4> QED
        BY <4>1
    <3>4. s \in CallState /\ s.stage = "write" /\ s.copy = call[c].copy
      BY <1>1, <1>2, <3>3 DEF TypeOK, CallState
    <3>5. GoOn(c, [call EXCEPT ![c] = s])
      BY <2>2
    <3> HIDE DEF s
    <3>6. CallPost(c) /\ call'[c] = s
      BY <1>1, <3>1, <3>4, <3>5, GoOnPost DEF Inside
    <3>7. UNCHANGED <<request, outcome>>
      BY <2>2 DEF GoOn
    <3>8. RestTyped
      BY <1>1, <1>2, <1>3, <2>2 DEF RestTyped, TypeOK
    <3> QED
      BY <1>1, <1>2, <1>5, <2>1, <3>4, <3>6, <3>7, <3>8, GoOnIsGood
  <2>3. CASE Finish(c, "unsupported")
    BY <1>1, <1>2, <1>3, <1>4, <2>1, <2>3, FinishIsGood
  <2> QED
    BY <1>8, <2>2, <2>3 DEF WriteUnavailable
<1>9. CASE WriteRefused(c)
  <2>1. UNCHANGED stored
    BY <1>9 DEF WriteRefused
  <2>2. CASE GoOn(c, At(c, "relogin", TRUE)) /\ UNCHANGED line
    <3>1. RestTyped
      BY <1>1, <1>2, <1>3, <2>2 DEF RestTyped, TypeOK
    <3> QED
      BY <1>1, <1>2, <1>5, <2>1, <2>2, <3>1, GoOnAtIsGood DEF Inside
  <2>3. CASE Finish(c, "auth")
    BY <1>1, <1>2, <1>3, <1>4, <2>1, <2>3, FinishIsGood
  <2> QED
    BY <1>9, <2>2, <2>3 DEF WriteRefused
<1> QED
  BY <1>6, <1>7, <1>8, <1>9

LEMMA CancelIsGood ==
  ASSUME IInv, NEW c \in Caller, CancelledInside(c)
  PROVE  Good(c)
<1>1. TypeOK
  BY DEF IInv
<1>2. /\ call[c].stage # "idle" /\ Finish(c, "cancelled")
      /\ polling' \in BOOLEAN /\ readSupported' \in BOOLEAN
      /\ writeSupported' \in [Type -> BOOLEAN]
  BY <1>1 DEF CancelledInside, Inside, TypeOK
<1>3. "cancelled" \in (Store!Outcome \ {"ok"}) \ Store!Refused
  BY DEF Store!Outcome, Store!Refused, Store!Unknown
<1>4. CASE UNCHANGED stored
  BY <1>1, <1>2, <1>3, <1>4, FinishIsGood
<1>5. CASE call[c].stage = "write" /\ Apply(c)
  BY <1>2, <1>3, <1>5, FinishAppliedIsGood
<1> QED
  BY <1>4, <1>5 DEF CancelledInside

-----------------------------------------------------------------------------
(* The invariant.                                                          *)

LEMMA InsideKeeps ==
  ASSUME IInv, NEW c \in Caller, owner \in {c, NoOne}, Good(c)
  PROVE  IInv'
<1>1. TypeOK'
  <2>1. owner' \in Caller \cup {NoOne}
    BY DEF Good, CallPost
  <2> QED
    BY <2>1 DEF Good, CallPost, RestTyped, TypeOK
<1>2. \A d \in Caller \ {c} :
        call[d].stage \notin Inside /\ call'[d].stage \notin Inside
  BY SettingsAssumption DEF IInv, OnlyOwnerInside, Good, CallPost
<1>3. OnlyOwnerInside'
  BY <1>2, SettingsAssumption DEF OnlyOwnerInside, Good, CallPost
<1>4. CopyIsCurrent'
  BY <1>2 DEF CopyIsCurrent, Good, MyTarget, Inside
<1> QED
  BY <1>1, <1>3, <1>4 DEF IInv

\* A step past the lock is taken by its owner.
LEMMA StepInside ==
  ASSUME IInv, NEW c \in Caller,
         Enter(c) \/ Answered(c) \/ CancelledInside(c)
  PROVE  Good(c) /\ owner \in {c, NoOne}
<1>1. CASE Enter(c)
  BY <1>1, EnterIsGood DEF Enter, MyTurn
<1>2. CASE Answered(c) \/ CancelledInside(c)
  <2>1. call[c].stage \in Inside
    BY <1>2 DEF Answered, CancelledInside, LoggedIn, LoginFailed, ReadListed,
                ReadUnusable, ReadUnavailable, ReadFailed, ReadRefused,
                WriteAccepted, WriteUnavailable, WriteFailed, WriteRefused,
                Inside
  <2>2. owner = c
    BY <2>1 DEF IInv, OnlyOwnerInside
  <2> QED
    BY <1>2, <2>2, LoginIsGood, ReadAnswerIsGood, WriteAnswerIsGood,
       CancelIsGood DEF Answered
<1> QED
  BY <1>1, <1>2

\* A new call waits.
LEMMA CallKeeps ==
  ASSUME IInv, NEW c \in Caller, Call(c)
  PROVE  IInv' /\ Store!Call(c)
<1> DEFINE s == [Idle EXCEPT !.stage = "queued"]
<1>1. TypeOK
  BY DEF IInv
<1>2. s \in CallState /\ s.stage = "queued" /\ s.attempt = 1
  BY IdleIsCall DEF CallState, Stage, Idle
<1>3. PICK r \in Store!Request : request' = [request EXCEPT ![c] = r]
  BY DEF Call
<1>4. r \in Request
  BY DEF Request, Store!Request
<1>5. /\ call[c].stage = "idle" /\ call' = [call EXCEPT ![c] = s]
      /\ outcome' = [outcome EXCEPT ![c] = "none"]
      /\ line' = Append(line, c)
      /\ UNCHANGED <<stored, owner, polling, readSupported, writeSupported>>
  BY DEF Call
<1> HIDE DEF s
<1>6. call' \in [Caller -> CallState] /\ call'[c] = s
  BY <1>1, <1>2, <1>5 DEF TypeOK
<1>7. request' \in [Caller -> Request] /\ request'[c] = r
  BY <1>1, <1>3, <1>4 DEF TypeOK
<1>8. \A d \in Caller \ {c} : call'[d] = call[d] /\ request'[d] = request[d]
  BY <1>1, <1>3, <1>5 DEF TypeOK
<1>9. ASSUME NEW d \in Caller
      PROVE  call'[d].attempt \in 1..Len(Attempts(request'[d]))
  <2>1. 1 \in 1..Len(Attempts(r))
    BY <1>4, AttemptsOfRequest
  <2>2. CASE d = c
    BY <1>2, <1>6, <1>7, <2>1, <2>2
  <2>3. CASE d # c
    BY <1>1, <1>8, <2>3 DEF TypeOK
  <2> QED
    BY <2>2, <2>3
<1>10. line' \in Seq(Caller)
  BY <1>1, <1>5 DEF TypeOK
<1>11. TypeOK'
  BY <1>1, <1>5, <1>6, <1>7, <1>9, <1>10 DEF TypeOK
<1>12. OnlyOwnerInside'
  <2>1. \A d \in Caller : call'[d].stage \in Inside <=> call[d].stage \in Inside
    BY <1>2, <1>5, <1>6, <1>8 DEF Inside
  <2> QED
    BY <1>5, <2>1 DEF IInv, OnlyOwnerInside
<1>13. CopyIsCurrent'
  BY <1>2, <1>5, <1>6, <1>8 DEF IInv, CopyIsCurrent, MyTarget
<1>14. Store!Call(c)
  <2> DEFINE phase == [d \in Caller |-> IF call[d].stage = "idle" THEN "idle"
                                       ELSE "open"]
             phaseNext == [d \in Caller |-> IF call'[d].stage = "idle"
                                           THEN "idle" ELSE "open"]
  <2>1. phase[c] = "idle"
    BY <1>5
  <2>2. phaseNext = [phase EXCEPT ![c] = "open"]
    BY <1>2, <1>6, <1>8
  <2> QED
    BY <1>3, <1>5, <2>1, <2>2 DEF Store!Call
<1> QED
  BY <1>11, <1>12, <1>13, <1>14 DEF IInv

LEMMA WithoutIsLine ==
  ASSUME NEW s \in Seq(Caller), NEW i \in 1..Len(s)
  PROVE  Without(s, i) \in Seq(Caller)
<1>1. SubSeq(s, 1, i - 1) \in Seq(Caller)
  <2>1. \A j \in 1..(i - 1) : s[j] \in Caller
    OBVIOUS
  <2> QED
    BY <2>1, SubSeqProperties
<1>2. SubSeq(s, i + 1, Len(s)) \in Seq(Caller)
  BY SubSeqProperties
<1> QED
  BY <1>1, <1>2, ConcatProperties DEF Without

\* A waiter that is cancelled leaves the line and has changed nothing.
LEMMA CancelledWaitingKeeps ==
  ASSUME IInv, NEW c \in Caller, CancelledWaiting(c)
  PROVE  IInv' /\ Store!Return(c)
<1>1. TypeOK /\ "cancelled" \in Store!Outcome /\ Ended(c, "cancelled")
      /\ call[c].stage = "queued"
      /\ UNCHANGED <<stored, owner, polling, readSupported, writeSupported>>
  BY DEF IInv, Store!Outcome, Store!Unknown, CancelledWaiting
<1>2. Applied(c, "cancelled")
  BY <1>1 DEF Applied
<1>3. Store!Return(c)
  BY <1>1, <1>2, EndedReturns
<1>4. call' = [call EXCEPT ![c] = Idle]
  BY <1>1 DEF Ended, Stop
<1>5. call' \in [Caller -> CallState] /\ call'[c] = Idle
  BY <1>1, <1>4, IdleIsCall DEF TypeOK
<1>6. /\ request' \in [Caller -> Request]
      /\ outcome' \in [Caller -> Store!Outcome \cup {"none"}]
  BY <1>1, AnyRequestIsRequest DEF Ended, TypeOK
<1>7. \A d \in Caller \ {c} : call'[d] = call[d] /\ request'[d] = request[d]
  BY <1>1, <1>4 DEF Ended, TypeOK
<1>8. ASSUME NEW d \in Caller
      PROVE  call'[d].attempt \in 1..Len(Attempts(request'[d]))
  <2>1. 1 \in 1..Len(Attempts(request'[d]))
    BY <1>6, AttemptsOfRequest
  <2>2. CASE d = c
    <3>1. call'[d].attempt = 1
      BY <1>5, <2>2 DEF Idle
    <3> QED
      BY <2>1, <3>1
  <2>3. CASE d # c
    BY <1>1, <1>7, <2>3 DEF TypeOK
  <2> QED
    BY <2>2, <2>3
<1>9. line' \in Seq(Caller)
  BY <1>1, WithoutIsLine DEF CancelledWaiting, TypeOK
<1>10. TypeOK'
  BY <1>1, <1>5, <1>6, <1>8, <1>9 DEF TypeOK
<1>11. call'[c].stage = "idle"
  BY <1>5 DEF Idle
<1>12. OnlyOwnerInside'
  <2>1. \A d \in Caller : call'[d].stage \in Inside <=> call[d].stage \in Inside
    BY <1>1, <1>7, <1>11 DEF Inside
  <2> QED
    BY <1>1, <2>1 DEF IInv, OnlyOwnerInside
<1>13. CopyIsCurrent'
  BY <1>1, <1>7, <1>11 DEF IInv, CopyIsCurrent, MyTarget
<1> QED
  BY <1>3, <1>10, <1>12, <1>13 DEF IInv

\* The coordinator's reads touch no call.
LEMMA PollKeeps ==
  ASSUME IInv, PollStart \/ PollEnd
  PROVE  IInv' /\ UNCHANGED Store!storeVars
<1>1. UNCHANGED <<stored, call, request, outcome, owner, line, writeSupported>>
  BY DEF PollStart, PollEnd
<1>2. polling' \in BOOLEAN /\ readSupported' \in BOOLEAN
  BY DEF PollStart, PollEnd, IInv, TypeOK
<1>3. IInv'
  BY <1>1, <1>2 DEF IInv, TypeOK, OnlyOwnerInside, CopyIsCurrent, MyTarget
<1> QED
  BY <1>1, <1>3 DEF Store!storeVars

LEMMA NextKeeps ==
  IInv /\ [Next]_vars => IInv' /\ [Store!StoreNext]_Store!storeVars
<1> SUFFICES ASSUME IInv, [Next]_vars
             PROVE  IInv' /\ [Store!StoreNext]_Store!storeVars
  OBVIOUS
<1>1. ASSUME NEW c \in Caller,
             Enter(c) \/ Answered(c) \/ CancelledInside(c)
      PROVE  IInv' /\ [Store!StoreNext]_Store!storeVars
  <2>1. Good(c) /\ owner \in {c, NoOne}
    BY <1>1, StepInside
  <2> QED
    BY <2>1, InsideKeeps DEF Good, Store!StoreNext
<1>2. ASSUME NEW c \in Caller, Call(c)
      PROVE  IInv' /\ [Store!StoreNext]_Store!storeVars
  BY <1>2, CallKeeps DEF Store!StoreNext
<1>3. ASSUME NEW c \in Caller, CancelledWaiting(c)
      PROVE  IInv' /\ [Store!StoreNext]_Store!storeVars
  BY <1>3, CancelledWaitingKeeps DEF Store!StoreNext
<1>4. CASE PollStart \/ PollEnd
  BY <1>4, PollKeeps
<1>5. CASE UNCHANGED vars
  <2>1. IInv'
    BY <1>5 DEF vars, IInv, TypeOK, OnlyOwnerInside, CopyIsCurrent, MyTarget
  <2> QED
    BY <1>5, <2>1 DEF vars, Store!storeVars
<1> QED
  BY <1>1, <1>2, <1>3, <1>4, <1>5 DEF Next

LEMMA InitEstablishes == Init => IInv /\ Store!StoreInit
<1> SUFFICES ASSUME Init
             PROVE  IInv /\ Store!StoreInit
  OBVIOUS
<1>1. /\ call \in [Caller -> CallState]
      /\ \A c \in Caller : call[c] = Idle
  BY IdleIsCall DEF Init
<1>2. request \in [Caller -> Request]
  BY AnyRequestIsRequest DEF Init
<1>3. \A c \in Caller : call[c].stage = "idle" /\ call[c].attempt = 1
  BY <1>1 DEF Idle
<1>4. \A c \in Caller : call[c].attempt \in 1..Len(Attempts(request[c]))
  <2>1. \A c \in Caller : 1 \in 1..Len(Attempts(request[c]))
    BY <1>2, AttemptsOfRequest
  <2> QED
    BY <1>3, <2>1
<1>5. TypeOK
  <2>1. /\ stored \in [Target -> Document]
        /\ writeSupported \in [Type -> BOOLEAN]
    BY SettingsAssumption DEF Init
  <2>2. /\ outcome \in [Caller -> Store!Outcome \cup {"none"}]
        /\ owner \in Caller \cup {NoOne}
        /\ polling \in BOOLEAN /\ readSupported \in BOOLEAN
    BY DEF Init
  <2>3. line \in Seq(Caller)
    BY EmptySeq DEF Init
  <2> QED
    BY <1>1, <1>2, <1>4, <2>1, <2>2, <2>3 DEF TypeOK
<1>6. OnlyOwnerInside /\ CopyIsCurrent
  BY <1>3, SettingsAssumption DEF Init, OnlyOwnerInside, CopyIsCurrent, Inside
<1>7. [c \in Caller |-> IF call[c].stage = "idle" THEN "idle" ELSE "open"]
        = [c \in Caller |-> "idle"]
  BY <1>3
<1>8. Store!StoreInit
  BY <1>7 DEF Init, Store!StoreInit
<1> QED
  BY <1>5, <1>6, <1>8 DEF IInv

LEMMA InvariantHolds == Spec => []IInv
<1>1. Init => IInv
  BY InitEstablishes
<1>2. IInv /\ [Next]_vars => IInv'
  BY NextKeeps
<1> QED
  BY <1>1, <1>2, PTL DEF Spec

\* The client's state is well formed in every reachable state; a call never
\* runs out of write attempts.
THEOREM TypeCorrect == Spec => []TypeOK
<1>1. IInv => TypeOK
  BY DEF IInv
<1> QED
  BY <1>1, InvariantHolds, PTL

\* No call ever writes a document merged into a stale copy.
THEOREM CopiesAreCurrent == Spec => []CopyIsCurrent
<1>1. IInv => CopyIsCurrent
  BY DEF IInv
<1> QED
  BY <1>1, InvariantHolds, PTL

\* Overlapping calls of the client look as if each took effect at most once
\* and at one moment.
THEOREM SettingsImplementStore == Spec => ImplementsStore
<1>1. Init => Store!StoreInit
  BY InitEstablishes
<1>2. IInv /\ [Next]_vars => [Store!StoreNext]_Store!storeVars
  BY NextKeeps
<1> QED
  BY <1>1, <1>2, InvariantHolds, PTL DEF Spec, ImplementsStore, Store!StoreSpec
=============================================================================
