-------------------------- MODULE ConfigEntryProofs --------------------------
(***************************************************************************)
(* A config entry stays with its console, keeps what its user stored and   *)
(* runs as stored, for any entries, flows, consoles and addresses.         *)
(*                                                                         *)
(* The shape of the state comes first: which flows have an entry, and what *)
(* a flow that validates or has validated holds.  Each of the properties   *)
(* is inductive on top of it, with what its waiting flow or setup knows.   *)
(***************************************************************************)
EXTENDS ConfigEntry, TLAPS

StoredEntry ==
  [uid : Uid, host : Host, password : Password, wol : MaybeConsole,
   mac : MaybeConsole, aliases : SUBSET Host]

Signature == Host \X Password \X MaybeConsole

RuntimeType ==
  [host : Host \cup {None}, password : Password \cup {None}, wol : MaybeConsole,
   signature : Signature \cup {None}, online : BOOLEAN]

\* What a flow holds at each step; S are the stored entries.
Shape(x, S) ==
  /\ x.kind \in {"reauth", "reconfigure"} => x.entry \in S
  /\ x.kind \in {"none", "user", "zeroconf"} => x.entry = None
  /\ x.step = "validating" =>
       x.kind # "none" /\ x.host \in Host /\ x.password \in Password
  /\ x.step = "features" =>
       /\ x.kind \in {"user", "zeroconf"}
       /\ x.uid \in Uid /\ x.host \in Host /\ x.password \in Password

WorldOK ==
  /\ at \in [Host -> MaybeConsole] /\ accepts \in [Console -> Password]
  /\ events \in 0..MaxEvents
EntryOK ==
  /\ entry \in [Entry -> StoredEntry \cup {NoEntry}]
  /\ life \in [Entry -> Life]
  /\ \A s \in Entry : life[s] = "none" <=> entry[s] = NoEntry
RuntimeOK ==
  /\ runtime \in [Entry -> RuntimeType]
  /\ \A s \in Entry : life[s] = "polling" => runtime[s].host \in Host
  /\ listening \in [Entry -> BOOLEAN] /\ reloading \in [Entry -> BOOLEAN]
FlowOK ==
  /\ flow \in [Flow -> FlowType]
  /\ \A f \in Flow : Shape(flow[f], Stored)
HistoryOK ==
  /\ vouched \in [Entry -> MaybeConsole]
  /\ saved \in [Entry -> Signature \cup {Settings(NoEntry)}]
  /\ raced \in [Entry -> BOOLEAN] /\ late \in [Entry -> BOOLEAN]

TInv == WorldOK /\ EntryOK /\ RuntimeOK /\ FlowOK /\ HistoryOK

-----------------------------------------------------------------------------
(* Shapes.                                                                 *)

LEMMA EntryShapes ==
  /\ NoEntry \notin StoredEntry
  /\ EntryType = StoredEntry \cup {NoEntry}
  /\ NoRuntime \in RuntimeType
  /\ NoFlow \in FlowType /\ \A S : Shape(NoFlow, S)
  /\ NoFlow.kind = "none" /\ NoFlow.step = "form" /\ NoFlow.entry = None
<1>1. NoEntry \notin StoredEntry
  BY NoneAssumption DEF NoEntry, StoredEntry
<1>2. NoRuntime \in RuntimeType
  BY DEF NoRuntime, RuntimeType, MaybeConsole
<1>3. NoFlow \in FlowType
  BY DEF NoFlow, FlowType, EntryType, MaybeConsole
<1> QED
  BY <1>1, <1>2, <1>3 DEF EntryType, StoredEntry, NoFlow, Shape

LEMMA StoredShape ==
  ASSUME EntryOK, NEW s \in Stored
  PROVE  s \in Entry /\ entry[s] \in StoredEntry /\ life[s] # "none"
BY DEF EntryOK, Stored

LEMMA UidShape ==
  ASSUME NEW told \in Told, NEW c \in Console, NEW h \in Host
  PROVE  /\ InfoUid(told, c, h) \in Uid
         /\ told # "host" => InfoUid(told, c, h)[2] = c
         /\ InfoUid(told, c, h)[1] = told
BY DEF InfoUid, Uid, Told

LEMMA SettingsShape ==
  ASSUME NEW e \in StoredEntry
  PROVE  Settings(e) \in Signature
BY DEF Settings, StoredEntry, Signature

\* An observation and a recorded poll change metadata only.
LEMMA ObservedShape ==
  ASSUME NEW e \in StoredEntry, NEW d \in Device
  PROVE  /\ Observed(e, d) \in StoredEntry /\ Observed(e, d).uid = e.uid
         /\ Settings(Observed(e, d)) = Settings(e)
BY DEF Observed, StoredEntry, Device, Settings, MaybeConsole

LEMMA RecordedShape ==
  ASSUME NEW e \in StoredEntry, NEW c \in Console
  PROVE  /\ Recorded(e, c) \in StoredEntry /\ Recorded(e, c).uid = e.uid
         /\ Settings(Recorded(e, c)) = Settings(e)
BY DEF Recorded, StoredEntry, Settings, MaybeConsole

\* A stored entry is replaced by a stored entry.
LEMMA EntryReplaced ==
  ASSUME EntryOK, NEW s \in Stored, NEW e \in StoredEntry,
         entry' = [entry EXCEPT ![s] = e],
         life' \in [Entry -> Life],
         \A t \in Entry : life'[t] = "none" <=> life[t] = "none"
  PROVE  EntryOK' /\ Stored' = Stored
<1>1. \A t \in Entry : entry'[t] = IF t = s THEN e ELSE entry[t]
  BY DEF EntryOK
<1>2. s \in Entry /\ e # NoEntry /\ entry[s] # NoEntry
  BY EntryShapes, StoredShape DEF Stored
<1>3. \A t \in Entry : entry'[t] = NoEntry <=> entry[t] = NoEntry
  BY <1>1, <1>2
<1>4. entry' \in [Entry -> StoredEntry \cup {NoEntry}]
  BY DEF EntryOK
<1>5. Stored' = Stored
  BY <1>3 DEF Stored
<1> QED
  BY <1>3, <1>4, <1>5 DEF EntryOK

LEMMA EntryKept ==
  ASSUME EntryOK, entry' = entry, life' \in [Entry -> Life],
         \A t \in Entry : life'[t] = "none" <=> life[t] = "none"
  PROVE  EntryOK' /\ Stored' = Stored
BY DEF EntryOK, Stored

\* Flows end; the stored entries stay.
LEMMA FlowsEnd ==
  ASSUME FlowOK, Stored \subseteq Stored', NEW ending,
         flow' = [f \in Flow |-> IF f \in ending THEN NoFlow ELSE flow[f]]
  PROVE  FlowOK'
<1>1. \A f \in Flow : flow'[f] = NoFlow \/ flow'[f] = flow[f]
  OBVIOUS
<1>2. flow' \in [Flow -> FlowType]
  BY EntryShapes DEF FlowOK
<1> QED
  BY <1>1, <1>2, EntryShapes DEF FlowOK, Shape

\* One flow takes a step.
LEMMA FlowSteps ==
  ASSUME FlowOK, Stored \subseteq Stored', NEW f \in Flow,
         NEW x \in FlowType, Shape(x, Stored'), flow' = [flow EXCEPT ![f] = x]
  PROVE  FlowOK'
<1>1. \A g \in Flow : flow'[g] = IF g = f THEN x ELSE flow[g]
  BY DEF FlowOK
<1>2. flow' \in [Flow -> FlowType]
  BY DEF FlowOK
<1> QED
  BY <1>1, <1>2 DEF FlowOK, Shape

LEMMA FlowsKept ==
  ASSUME FlowOK, Stored \subseteq Stored', flow' = flow
  PROVE  FlowOK'
BY DEF FlowOK, Shape

\* The entry of one place is updated.
LEMMA UpdateShape ==
  ASSUME TInv, NEW s \in Stored, NEW e \in StoredEntry, Update(s, e),
         life' = life, UNCHANGED <<runtime, reloading>>
  PROVE  EntryOK' /\ RuntimeOK' /\ Stored' = Stored /\ late' \in [Entry -> BOOLEAN]
<1>1. EntryOK' /\ Stored' = Stored
  BY EntryReplaced DEF TInv, EntryOK, Update
<1>2. listening' \in [Entry -> BOOLEAN] /\ late' \in [Entry -> BOOLEAN]
  BY StoredShape DEF TInv, RuntimeOK, HistoryOK, Update
<1> QED
  BY <1>1, <1>2 DEF TInv, RuntimeOK

-----------------------------------------------------------------------------
(* Setup, reload, restart keep the shape.                                  *)

LEMMA DuplicatesEnd ==
  ASSUME FlowOK, Stored \subseteq Stored', NEW e, flow' = WithoutDuplicates(e)
  PROVE  FlowOK'
<1> DEFINE ending == {f \in Flow : /\ flow[f].kind = "zeroconf" /\ flow[f].step = "form"
                                   /\ FlowIsOf(e, flow[f].device)}
<1>1. flow' = [f \in Flow |-> IF f \in ending THEN NoFlow ELSE flow[f]]
  BY DEF WithoutDuplicates
<1> HIDE DEF ending
<1> QED
  BY <1>1, FlowsEnd

LEMMA SetUpShape ==
  ASSUME TInv, NEW s \in Entry, SetUp(s)
  PROVE  TInv'
<1> DEFINE e == Backfilled(entry[s])
           r == [NoRuntime EXCEPT !.host = e.host, !.password = e.password, !.wol = e.wol]
<1>1. /\ life[s] \in {"due", "retry", "loaded", "error"}
      /\ entry' = [entry EXCEPT ![s] = e] /\ flow' = WithoutDuplicates(e)
      /\ runtime' = [runtime EXCEPT ![s] = r]
      /\ life' = [life EXCEPT ![s] = "polling"]
      /\ reloading' = [reloading EXCEPT ![s] = FALSE]
      /\ late' = [late EXCEPT ![s] = FALSE]
      /\ UNCHANGED <<at, accepts, listening, events, vouched, saved, raced>>
  BY DEF SetUp, worldVars, userVars
<1>2. s \in Stored /\ entry[s] \in StoredEntry
  BY <1>1, StoredShape DEF TInv, EntryOK, Stored
<1>3. e \in StoredEntry
  BY <1>2 DEF StoredEntry, Backfilled
<1>4. r \in RuntimeType /\ r.host \in Host
  BY <1>3 DEF StoredEntry, NoRuntime, RuntimeType, MaybeConsole
<1> HIDE DEF e, r
<1>5. life' \in [Entry -> Life] /\ \A t \in Entry : life'[t] = "none" <=> life[t] = "none"
  BY <1>1 DEF TInv, EntryOK, Life
<1>6. EntryOK' /\ Stored' = Stored
  BY <1>1, <1>2, <1>3, <1>5, EntryReplaced DEF TInv
<1>7. FlowOK'
  BY <1>1, <1>6, DuplicatesEnd DEF TInv
<1>8. RuntimeOK'
  BY <1>1, <1>4 DEF TInv, RuntimeOK, EntryOK
<1>9. WorldOK' /\ HistoryOK'
  BY <1>1 DEF TInv, WorldOK, HistoryOK
<1> QED
  BY <1>6, <1>7, <1>8, <1>9 DEF TInv

LEMMA StartReauthShape ==
  ASSUME FlowOK, Stored \subseteq Stored', NEW s \in Stored, s \in Entry, StartReauth(s)
  PROVE  FlowOK'
<1>1. CASE \E f \in Flow : flow[f].entry = s
  BY <1>1, FlowsKept DEF StartReauth
<1>2. CASE ~\E f \in Flow : flow[f].entry = s
  <2> DEFINE x == [NoFlow EXCEPT !.kind = "reauth", !.entry = s]
  <2>1. PICK f \in Flow : flow' = [flow EXCEPT ![f] = x]
    BY <1>2 DEF StartReauth, Free
  <2>2. x \in FlowType /\ x.kind = "reauth" /\ x.entry = s /\ x.step = "form"
    BY DEF NoFlow, FlowType, EntryType, MaybeConsole
  <2>3. Shape(x, Stored')
    BY <2>2 DEF Shape
  <2> HIDE DEF x
  <2> QED
    BY <2>1, <2>2, <2>3, FlowSteps
<1> QED
  BY <1>1, <1>2

LEMMA GoOnShape ==
  ASSUME TInv, NEW s \in Entry, life[s] = "polling", NEW online \in BOOLEAN,
         NEW mac \in MaybeConsole, GoOn(s, online, mac),
         UNCHANGED <<worldVars, listening, reloading, events, userVars, late>>
  PROVE  TInv'
<1> DEFINE e == IF mac = None THEN entry[s] ELSE Recorded(entry[s], mac)
<1>1. s \in Stored /\ entry[s] \in StoredEntry
  BY StoredShape DEF TInv, EntryOK, Stored
<1>2. e \in StoredEntry /\ Settings(e) \in Signature
  BY <1>1, RecordedShape, SettingsShape DEF MaybeConsole
<1>3. entry' = [entry EXCEPT ![s] = e] /\ entry'[s] = e
  BY DEF GoOn, TInv, EntryOK
<1> DEFINE r == [runtime[s] EXCEPT !.online = online, !.signature = Settings(e)]
<1>4. runtime' = [runtime EXCEPT ![s] = r]
  BY <1>3 DEF GoOn, TInv, RuntimeOK
<1>5. life' = [life EXCEPT ![s] = "platforms"] /\ flow' = flow
  BY DEF GoOn
<1>6. r \in RuntimeType
  BY <1>2 DEF TInv, RuntimeOK, RuntimeType
<1> HIDE DEF e, r
<1>7. life' \in [Entry -> Life] /\ \A t \in Entry : life'[t] = "none" <=> life[t] = "none"
  BY <1>5 DEF TInv, EntryOK, Life
<1>8. EntryOK' /\ Stored' = Stored
  BY <1>1, <1>2, <1>3, <1>7, EntryReplaced DEF TInv
<1>9. FlowOK'
  BY <1>5, <1>8, FlowsKept DEF TInv
<1>10. RuntimeOK'
  BY <1>4, <1>5, <1>6 DEF TInv, RuntimeOK, EntryOK
<1>11. WorldOK' /\ HistoryOK'
  BY DEF TInv, WorldOK, HistoryOK, worldVars, userVars
<1> QED
  BY <1>8, <1>9, <1>10, <1>11 DEF TInv

LEMMA GiveUpShape ==
  ASSUME TInv, NEW s \in Entry, life[s] # "none", NEW state \in {"error", "retry"},
         GiveUp(s, state), Stored' = Stored => FlowOK',
         UNCHANGED <<worldVars, listening, reloading, events, userVars, late>>
  PROVE  TInv'
<1>1. /\ entry' = entry /\ life' = [life EXCEPT ![s] = state]
      /\ runtime' = [runtime EXCEPT ![s] = NoRuntime]
  BY DEF GiveUp
<1>2. life' \in [Entry -> Life] /\ \A t \in Entry : life'[t] = "none" <=> life[t] = "none"
  BY <1>1 DEF TInv, EntryOK, Life
<1>3. EntryOK' /\ Stored' = Stored
  BY <1>1, <1>2, EntryKept DEF TInv
<1>4. RuntimeOK'
  BY <1>1, EntryShapes DEF TInv, RuntimeOK, EntryOK
<1>5. WorldOK' /\ HistoryOK'
  BY DEF TInv, WorldOK, HistoryOK, worldVars, userVars
<1> QED
  BY <1>3, <1>4, <1>5 DEF TInv

LEMMA FirstPollShape ==
  ASSUME TInv, NEW s \in Entry, FirstPoll(s)
  PROVE  TInv'
<1> DEFINE h == runtime[s].host
           p == runtime[s].password
<1>1. /\ life[s] = "polling"
      /\ UNCHANGED <<worldVars, listening, reloading, events, userVars, late>>
      /\ \/ \E mac \in {None, at[h]} : GoOn(s, TRUE, mac)
         \/ StartReauth(s) /\ GiveUp(s, "error")
         \/ GoOn(s, FALSE, None)
         \/ GiveUp(s, "retry") /\ UNCHANGED flow
  BY DEF FirstPoll
<1>2. h \in Host /\ at[h] \in MaybeConsole /\ None \in MaybeConsole
  BY <1>1 DEF TInv, RuntimeOK, WorldOK, MaybeConsole
<1>3. s \in Stored
  BY <1>1 DEF TInv, EntryOK, Stored
<1>4. ASSUME NEW mac \in {None, at[h]}, GoOn(s, TRUE, mac) PROVE TInv'
  BY <1>1, <1>2, <1>4, GoOnShape
<1>5. CASE GoOn(s, FALSE, None)
  BY <1>1, <1>2, <1>5, GoOnShape
<1>6. CASE StartReauth(s) /\ GiveUp(s, "error")
  <2>1. Stored' = Stored => FlowOK'
    BY <1>3, <1>6, StartReauthShape DEF TInv
  <2> QED
    BY <1>1, <1>6, <2>1, GiveUpShape
<1>7. CASE GiveUp(s, "retry") /\ UNCHANGED flow
  <2>1. Stored' = Stored => FlowOK'
    BY <1>7, FlowsKept DEF TInv
  <2> QED
    BY <1>1, <1>7, <2>1, GiveUpShape
<1> QED
  BY <1>1, <1>4, <1>5, <1>6, <1>7

LEMMA PlatformsSetUpShape ==
  ASSUME TInv, NEW s \in Entry, PlatformsSetUp(s)
  PROVE  TInv'
<1>1. /\ life[s] = "platforms"
      /\ UNCHANGED <<worldVars, listening, reloading, events, userVars, late>>
  BY DEF PlatformsSetUp
<1>2. CASE GiveUp(s, "error") /\ UNCHANGED flow
  <2>1. Stored' = Stored => FlowOK'
    BY <1>2, FlowsKept DEF TInv
  <2> QED
    BY <1>1, <1>2, <2>1, GiveUpShape
<1>3. CASE /\ life' = [life EXCEPT ![s] = "loaded"]
           /\ flow' = WithoutDuplicates(entry[s]) /\ UNCHANGED <<entry, runtime>>
  <2>1. life' \in [Entry -> Life] /\ \A t \in Entry : life'[t] = "none" <=> life[t] = "none"
    BY <1>1, <1>3 DEF TInv, EntryOK, Life
  <2>2. EntryOK' /\ Stored' = Stored
    BY <1>3, <2>1, EntryKept DEF TInv
  <2>3. FlowOK'
    BY <1>3, <2>2, DuplicatesEnd DEF TInv
  <2>4. WorldOK' /\ HistoryOK' /\ RuntimeOK'
    BY <1>1, <1>3 DEF TInv, WorldOK, HistoryOK, RuntimeOK, EntryOK, worldVars, userVars
  <2> QED
    BY <2>2, <2>3, <2>4 DEF TInv
<1> QED
  BY <1>2, <1>3 DEF PlatformsSetUp

LEMMA CleanUpShape ==
  ASSUME TInv, NEW s \in Entry, CleanUp(s)
  PROVE  TInv'
<1>1. /\ UNCHANGED <<worldVars, entry, setupVars, listening, events, userVars, late>>
      /\ flow' = WithoutDuplicates(entry[s])
  BY DEF CleanUp
<1>2. Stored' = Stored
  BY <1>1 DEF Stored
<1>3. FlowOK'
  BY <1>1, <1>2, DuplicatesEnd DEF TInv
<1> QED
  BY <1>1, <1>3 DEF TInv, WorldOK, EntryOK, RuntimeOK, HistoryOK, worldVars, setupVars, userVars

LEMMA PollShape ==
  ASSUME TInv, NEW s \in Entry, Poll(s)
  PROVE  TInv'
<1>1. /\ life[s] = "loaded"
      /\ UNCHANGED <<worldVars, entry, life, reloading, listening, events, userVars, late>>
  BY DEF Poll
<1>2. Stored' = Stored /\ s \in Stored
  BY <1>1 DEF TInv, EntryOK, Stored
<1>3. \E online \in BOOLEAN : runtime' = [runtime EXCEPT ![s].online = online]
  <2>1. runtime = [runtime EXCEPT ![s].online = runtime[s].online]
        /\ runtime[s].online \in BOOLEAN
    BY DEF TInv, RuntimeOK, RuntimeType
  <2> QED
    BY <2>1 DEF Poll
<1>4. PICK online \in BOOLEAN : runtime' = [runtime EXCEPT ![s].online = online]
  BY <1>3
<1> DEFINE r == [runtime[s] EXCEPT !.online = online]
<1>5. runtime' = [runtime EXCEPT ![s] = r] /\ r \in RuntimeType /\ r.host = runtime[s].host
  BY <1>4 DEF TInv, RuntimeOK, RuntimeType
<1> HIDE DEF r
<1>6. RuntimeOK'
  BY <1>1, <1>5 DEF TInv, RuntimeOK
<1>7. FlowOK'
  BY <1>2, FlowsKept, StartReauthShape DEF Poll, TInv
<1> QED
  BY <1>1, <1>6, <1>7 DEF TInv, WorldOK, EntryOK, HistoryOK, worldVars, userVars

LEMMA ListenerShape ==
  ASSUME TInv, NEW s \in Entry, Listener(s)
  PROVE  TInv'
<1>1. /\ listening' = [listening EXCEPT ![s] = FALSE]
      /\ UNCHANGED <<worldVars, entry, life, flow, events, userVars, late>>
  BY DEF Listener
<1> DEFINE wanted == reloading[s] \/ ~SignatureKept(s)
<1>2. reloading' = [reloading EXCEPT ![s] = wanted] /\ wanted \in BOOLEAN
  BY DEF Listener
<1> HIDE DEF wanted
<1>3. runtime' \in [Entry -> RuntimeType] /\ \A t \in Entry : runtime'[t].host = runtime[t].host
  <2>1. CASE life[s] \in {"platforms", "loaded"}
    <3> DEFINE r == [runtime[s] EXCEPT !.signature = Settings(entry[s])]
    <3>1. entry[s] \in StoredEntry
      BY <2>1, StoredShape DEF TInv, EntryOK, Stored
    <3>2. runtime' = [runtime EXCEPT ![s] = r]
      BY <2>1 DEF Listener
    <3>3. r \in RuntimeType /\ r.host = runtime[s].host
      BY <3>1, SettingsShape DEF TInv, RuntimeOK, RuntimeType
    <3> HIDE DEF r
    <3> QED
      BY <3>2, <3>3 DEF TInv, RuntimeOK
  <2>2. CASE life[s] \notin {"platforms", "loaded"}
    BY <2>2 DEF Listener, TInv, RuntimeOK
  <2> QED
    BY <2>1, <2>2
<1>4. RuntimeOK'
  BY <1>1, <1>2, <1>3 DEF TInv, RuntimeOK
<1> QED
  BY <1>1, <1>4 DEF TInv, WorldOK, EntryOK, HistoryOK, FlowOK, Stored, worldVars, userVars

LEMMA RestartShape ==
  ASSUME TInv, Restart
  PROVE  TInv'
<1>1. /\ events' = events + 1 /\ events < MaxEvents
      /\ life' = [s \in Entry |-> IF s \in Stored THEN "due" ELSE "none"]
      /\ runtime' = [s \in Entry |-> NoRuntime]
      /\ listening' = [s \in Entry |-> FALSE] /\ reloading' = [s \in Entry |-> FALSE]
      /\ flow' = [f \in Flow |-> NoFlow]
      /\ UNCHANGED <<worldVars, entry, userVars, late>>
  BY DEF Restart, Event, AfterRestart
<1>2. EntryOK' /\ Stored' = Stored
  <2>1. \A s \in Entry : s \in Stored <=> entry[s] # NoEntry
    BY DEF Stored
  <2> QED
    BY <1>1, <2>1 DEF TInv, EntryOK, Life, Stored
<1>3. RuntimeOK'
  BY <1>1, EntryShapes DEF RuntimeOK
<1>4. FlowOK'
  BY <1>1, EntryShapes DEF FlowOK
<1>5. WorldOK' /\ HistoryOK'
  BY <1>1, EntryAssumption DEF TInv, WorldOK, HistoryOK, worldVars, userVars
<1> QED
  BY <1>2, <1>3, <1>4, <1>5 DEF TInv

-----------------------------------------------------------------------------
(* Discovery and the flows keep the shape.                                 *)

\* Steps that leave the setup alone: what is left to show.
LEMMA FlowStepShape ==
  ASSUME TInv, events' \in 0..MaxEvents,
         UNCHANGED <<worldVars, entry, setupVars, listening, userVars, late>>,
         Stored' = Stored => FlowOK'
  PROVE  TInv'
<1> USE DEF worldVars, setupVars, userVars
<1>1. Stored' = Stored
  BY DEF Stored
<1> QED
  BY <1>1 DEF TInv, WorldOK, EntryOK, RuntimeOK, HistoryOK

LEMMA EventShape ==
  ASSUME TInv, Event
  PROVE  events' \in 0..MaxEvents
BY EntryAssumption DEF TInv, WorldOK, Event

\* An announcement that an entry takes as an observation.
LEMMA ObservationShape ==
  ASSUME TInv, NEW s \in Entry, NEW d \in Device, FirstMatch(s, d),
         Update(s, Observed(entry[s], d)), flow' = flow, events' \in 0..MaxEvents,
         UNCHANGED <<worldVars, setupVars, userVars>>
  PROVE  TInv'
<1>1. s \in Stored /\ Observed(entry[s], d) \in StoredEntry
  BY StoredShape, ObservedShape DEF FirstMatch, TInv
<1>2. EntryOK' /\ RuntimeOK' /\ Stored' = Stored /\ late' \in [Entry -> BOOLEAN]
  BY <1>1, UpdateShape DEF setupVars
<1>3. FlowOK'
  BY <1>2, FlowsKept DEF TInv
<1> QED
  BY <1>2, <1>3 DEF TInv, WorldOK, HistoryOK, worldVars, userVars

LEMMA AnnounceShape ==
  ASSUME TInv, NEW d \in Device, Announce(d)
  PROVE  TInv'
<1>1. events' \in 0..MaxEvents /\ UNCHANGED <<worldVars, setupVars, userVars>>
  BY EventShape DEF Announce
<1>2. ASSUME NEW s \in Entry, FirstMatch(s, d), Update(s, Observed(entry[s], d)),
             UNCHANGED flow
      PROVE  TInv'
  BY <1>1, <1>2, ObservationShape
<1>3. ASSUME NEW f \in Flow, Keep, flow' = [flow EXCEPT ![f] =
               [NoFlow EXCEPT !.kind = "zeroconf", !.device = d, !.uid = DiscoveryUid(d)]]
      PROVE  TInv'
  <2> DEFINE x == [NoFlow EXCEPT !.kind = "zeroconf", !.device = d, !.uid = DiscoveryUid(d)]
  <2>1. DiscoveryUid(d) \in Uid
    BY DEF DiscoveryUid, Device, MaybeConsole, Uid
  <2>2. x \in FlowType /\ x.kind = "zeroconf" /\ x.entry = None /\ x.step = "form"
    BY <2>1 DEF NoFlow, FlowType, EntryType, MaybeConsole
  <2>3. \A S : Shape(x, S)
    BY <2>2 DEF Shape
  <2>4. flow' = [flow EXCEPT ![f] = x]
    BY <1>3
  <2> HIDE DEF x
  <2>5. Stored' = Stored => FlowOK'
    BY <2>2, <2>3, <2>4, FlowSteps DEF TInv
  <2> QED
    BY <1>1, <1>3, <2>5, FlowStepShape DEF Keep
<1> QED
  BY <1>2, <1>3 DEF Announce, Seen, Free

LEMMA AddShape ==
  ASSUME TInv, Add
  PROVE  TInv'
<1>1. events' \in 0..MaxEvents /\ UNCHANGED <<worldVars, setupVars, userVars>>
  BY EventShape DEF Add
<1>2. ASSUME NEW d \in Device, NEW s \in Entry, FirstMatch(s, d),
             Update(s, Observed(entry[s], d)), UNCHANGED flow
      PROVE  TInv'
  BY <1>1, <1>2, ObservationShape
<1>3. ASSUME NEW f \in Flow, NEW d \in Device \cup {NoFlow.device}, Keep,
             flow' = [flow EXCEPT ![f] = [NoFlow EXCEPT !.kind = "user", !.device = d]]
      PROVE  TInv'
  <2> DEFINE x == [NoFlow EXCEPT !.kind = "user", !.device = d]
  <2>1. x \in FlowType /\ x.kind = "user" /\ x.entry = None /\ x.step = "form"
    BY <1>3 DEF NoFlow, FlowType, EntryType, MaybeConsole
  <2>2. \A S : Shape(x, S)
    BY <2>1 DEF Shape
  <2>3. flow' = [flow EXCEPT ![f] = x]
    BY <1>3
  <2> HIDE DEF x
  <2>4. Stored' = Stored => FlowOK'
    BY <2>1, <2>2, <2>3, FlowSteps DEF TInv
  <2> QED
    BY <1>1, <1>3, <2>4, FlowStepShape DEF Keep
<1> QED
  BY <1>2, <1>3 DEF Add, Seen, Offered, Free

LEMMA ReconfigureShape ==
  ASSUME TInv, NEW s \in Entry, Reconfigure(s)
  PROVE  TInv'
<1>1. /\ events' \in 0..MaxEvents /\ s \in Stored
      /\ Keep /\ UNCHANGED <<worldVars, setupVars, userVars>>
  BY EventShape DEF Reconfigure
<1> DEFINE x == [NoFlow EXCEPT !.kind = "reconfigure", !.entry = s]
<1>2. PICK f \in Flow : flow' = [flow EXCEPT ![f] = x]
  BY DEF Reconfigure, Free
<1>3. x \in FlowType /\ x.kind = "reconfigure" /\ x.entry = s /\ x.step = "form"
  BY DEF NoFlow, FlowType, EntryType, MaybeConsole
<1>4. Shape(x, Stored)
  BY <1>1, <1>3 DEF Shape
<1> HIDE DEF x
<1>5. Stored' = Stored => FlowOK'
  BY <1>2, <1>3, <1>4, FlowSteps DEF TInv
<1> QED
  BY <1>1, <1>5, FlowStepShape DEF Keep

LEMMA SubmitShape ==
  ASSUME TInv, NEW f \in Flow, Submit(f)
  PROVE  TInv'
<1> DEFINE x == flow[f]
           old == IF x.entry = None THEN NoEntry ELSE entry[x.entry]
<1>1. /\ x.kind # "none" /\ x.step = "form"
      /\ Keep /\ UNCHANGED <<worldVars, setupVars, events, userVars>>
  BY DEF Submit
<1>2. PICK h \in (IF x.kind = "reauth" THEN {old.host}
                  ELSE IF x.device.host # None THEN {x.device.host} ELSE Host),
           p \in (IF x.kind = "reconfigure" THEN Password \cup {old.password}
                  ELSE Password) :
        flow' = [flow EXCEPT ![f].step = "validating", ![f].host = h,
                             ![f].password = p, ![f].before = old]
  BY DEF Submit
<1>3. x \in FlowType /\ Shape(x, Stored)
  BY DEF TInv, FlowOK
<1>4. x.kind \in {"reauth", "reconfigure"} => old \in StoredEntry
  BY <1>3, StoredShape, EntryAssumption DEF Shape, TInv
<1>5. old \in EntryType
  BY <1>1, <1>3, <1>4, EntryShapes DEF Shape, FlowType
<1>6. x.device \in Device \cup {[host |-> None, mac |-> None]}
  BY <1>3 DEF FlowType, NoFlow
<1>7. h \in Host
  <2>1. x.kind = "reauth" => old.host \in Host
    BY <1>4 DEF StoredEntry
  <2>2. x.device.host # None => x.device.host \in Host
    BY <1>6 DEF Device
  <2> QED
    BY <1>2, <2>1, <2>2
<1>8. p \in Password
  BY <1>2, <1>4 DEF StoredEntry
<1> HIDE DEF old
<1> DEFINE y == [x EXCEPT !.step = "validating", !.host = h, !.password = p, !.before = old]
<1>9. flow' = [flow EXCEPT ![f] = y]
  BY <1>2 DEF TInv, FlowOK
<1>10. /\ y \in FlowType /\ y.kind = x.kind /\ y.entry = x.entry /\ y.step = "validating"
       /\ y.host \in Host /\ y.password \in Password
  BY <1>3, <1>5, <1>7, <1>8 DEF FlowType
<1> HIDE DEF x, y
<1>11. Shape(y, Stored)
  BY <1>1, <1>3, <1>10 DEF Shape
<1>12. Stored' = Stored => FlowOK'
  BY <1>9, <1>10, <1>11, FlowSteps DEF TInv
<1> QED
  BY <1>1, <1>12, FlowStepShape DEF Keep, TInv, WorldOK

\* A form that is shown again.
LEMMA FormShape ==
  ASSUME FlowOK, Stored' = Stored, NEW f \in Flow, flow[f].step = "validating",
         flow' = [flow EXCEPT ![f].step = "form", ![f].host = None,
                              ![f].password = None, ![f].before = NoEntry]
  PROVE  FlowOK'
<1> DEFINE x == flow[f]
           y == [x EXCEPT !.step = "form", !.host = None, !.password = None,
                          !.before = NoEntry]
<1>1. x \in FlowType /\ Shape(x, Stored)
  BY DEF FlowOK
<1>2. flow' = [flow EXCEPT ![f] = y]
  BY DEF FlowOK
<1>3. y \in FlowType /\ y.kind = x.kind /\ y.entry = x.entry /\ y.step = "form"
  BY <1>1, EntryShapes DEF FlowType
<1> HIDE DEF x, y
<1>4. Shape(y, Stored)
  BY <1>1, <1>3 DEF Shape
<1> QED
  BY <1>2, <1>3, <1>4, FlowSteps

LEMMA FailedShape ==
  ASSUME TInv, NEW f \in Flow, Failed(f)
  PROVE  TInv'
<1>1. /\ Keep /\ UNCHANGED <<worldVars, setupVars, events, userVars>>
      /\ Stored' = Stored => FlowOK'
  BY FormShape DEF Failed, TInv
<1> QED
  BY <1>1, FlowStepShape DEF Keep, TInv, WorldOK

LEMMA EndedShape ==
  ASSUME FlowOK, Stored' = Stored, NEW f \in Flow, Ended(f)
  PROVE  FlowOK'
BY EntryShapes, FlowSteps DEF Ended

LEMMA AbandonShape ==
  ASSUME TInv, NEW f \in Flow, Abandon(f)
  PROVE  TInv'
<1>1. /\ Keep /\ UNCHANGED <<worldVars, setupVars, events, userVars>>
      /\ Stored' = Stored => FlowOK'
  BY EndedShape DEF Abandon, TInv
<1> QED
  BY <1>1, FlowStepShape DEF Keep, TInv, WorldOK

\* A console has answered flow f; what it told can be used.
Heard(f, told) ==
  /\ flow[f].step = "validating" /\ flow[f].kind # "none"
  /\ flow[f] \in FlowType /\ flow[f].host \in Host /\ flow[f].password \in Password
  /\ at[flow[f].host] \in Console /\ told \in Told
  /\ flow[f].kind \in {"reauth", "reconfigure"} => flow[f].entry \in Stored

LEMMA AnsweredCases ==
  ASSUME TInv, NEW f \in Flow, Answered(f)
  PROVE  /\ UNCHANGED <<worldVars, setupVars, events>>
         /\ \E told \in Told :
              /\ Heard(f, told)
              /\ \/ \E mac \in MaybeConsole : Validated(f, told, mac)
                 \/ Reauthenticated(f, told)
                 \/ Reconnected(f, told)
<1>1. /\ UNCHANGED <<worldVars, setupVars, events>>
      /\ flow[f].step = "validating" /\ at[flow[f].host] # None
  BY DEF Answered, Answers
<1>2. PICK told \in Tells[at[flow[f].host]] :
        \/ \E mac \in {m \in {None, at[flow[f].host]} :
             told \in {"host", "mac"} => (m = None <=> told = "host")} :
             Validated(f, told, mac)
        \/ Reauthenticated(f, told)
        \/ Reconnected(f, told)
  BY DEF Answered
<1>3. flow[f] \in FlowType /\ Shape(flow[f], Stored)
  BY DEF TInv, FlowOK
<1>4. flow[f].host \in Host /\ at[flow[f].host] \in Console
  BY <1>1, <1>3 DEF Shape, TInv, WorldOK, MaybeConsole
<1>5. told \in Told
  BY <1>4, EntryAssumption
<1>6. Heard(f, told)
  BY <1>1, <1>3, <1>4, <1>5 DEF Heard, Shape
<1>7. \A m \in {None, at[flow[f].host]} : m \in MaybeConsole
  BY <1>4 DEF MaybeConsole
<1> QED
  BY <1>1, <1>2, <1>5, <1>6, <1>7

LEMMA ValidatedShape ==
  ASSUME TInv, NEW f \in Flow, NEW told \in Told, Heard(f, told),
         NEW mac \in MaybeConsole, Validated(f, told, mac),
         UNCHANGED <<worldVars, setupVars, events>>
  PROVE  TInv'
<1> DEFINE x == flow[f]
           c == at[x.host]
           m == IF x.device.mac # None THEN x.device.mac ELSE mac
           y == [x EXCEPT !.step = "features", !.uid = InfoUid(told, c, x.host),
                          !.mac = m, !.console = c]
<1>1. x.kind \in {"user", "zeroconf"} /\ Keep /\ UNCHANGED userVars
  BY DEF Validated
<1>2. InfoUid(told, c, x.host) \in Uid /\ c \in Console /\ x \in FlowType
      /\ x.host \in Host /\ x.password \in Password
  BY UidShape DEF Heard
<1>3. CASE Configured(told, c, x.host)
  <2>1. Stored' = Stored => FlowOK'
    BY <1>3, EndedShape DEF Validated, TInv
  <2> QED
    BY <1>1, <2>1, FlowStepShape DEF Keep, TInv, WorldOK
<1>4. CASE ~Configured(told, c, x.host)
  <2>1. flow' = [flow EXCEPT ![f] = y]
    BY <1>4 DEF Validated, TInv, FlowOK
  <2>2. m \in MaybeConsole
    BY <1>2 DEF FlowType, Device, NoFlow, MaybeConsole
  <2> HIDE DEF m
  <2>3. y \in FlowType
    BY <1>2, <2>2 DEF FlowType, MaybeConsole
  <2>4. /\ y.kind = x.kind /\ y.entry = x.entry /\ y.host = x.host
        /\ y.password = x.password /\ y.step = "features"
        /\ y.uid = InfoUid(told, c, x.host)
    BY <1>2 DEF FlowType
  <2>5. Shape(x, Stored)
    BY DEF TInv, FlowOK
  <2> HIDE DEF x, y, c
  <2>6. Shape(y, Stored)
    BY <1>1, <1>2, <2>4, <2>5 DEF Shape
  <2>7. Stored' = Stored => FlowOK'
    BY <2>1, <2>3, <2>6, FlowSteps DEF TInv
  <2> QED
    BY <1>1, <2>7, FlowStepShape DEF Keep, TInv, WorldOK
<1> QED
  BY <1>3, <1>4

\* A flow has changed the entry it is for.
LEMMA ChangedShape ==
  ASSUME TInv, NEW f \in Flow, Ended(f), NEW s \in Stored, NEW e \in StoredEntry,
         Update(s, e), UNCHANGED <<worldVars, setupVars, events>>,
         NEW c \in Console, vouched' = [vouched EXCEPT ![s] = c],
         NEW w \in Signature, saved' = [saved EXCEPT ![s] = w],
         NEW b \in BOOLEAN, raced' = [raced EXCEPT ![s] = b]
  PROVE  TInv'
<1>1. EntryOK' /\ RuntimeOK' /\ Stored' = Stored /\ late' \in [Entry -> BOOLEAN]
  BY UpdateShape DEF setupVars
<1>2. FlowOK'
  BY <1>1, EndedShape DEF TInv
<1>3. HistoryOK'
  BY <1>1 DEF TInv, HistoryOK, MaybeConsole
<1> QED
  BY <1>1, <1>2, <1>3 DEF TInv, WorldOK, worldVars

LEMMA ReauthenticatedShape ==
  ASSUME TInv, NEW f \in Flow, NEW told \in Told, Heard(f, told),
         Reauthenticated(f, told), UNCHANGED <<worldVars, setupVars, events>>
  PROVE  TInv'
<1> DEFINE x == flow[f]
           s == x.entry
           e == entry[s]
           c == at[x.host]
<1>1. x.kind = "reauth" /\ Ended(f) /\ s \in Stored /\ c \in Console
  BY DEF Reauthenticated, Heard
<1>2. e \in StoredEntry /\ s \in Entry
  BY <1>1, StoredShape DEF TInv
<1>3. CASE UidMatches(e, told, c, x.host)
  <2> DEFINE b == raced[s] \/ e.host # x.before.host \/ e.password # x.before.password
             w == <<e.host, x.password, e.wol>>
  <2>1. /\ Update(s, WithCredentials(e, x))
        /\ vouched' = [vouched EXCEPT ![s] = c]
        /\ saved' = [saved EXCEPT ![s] = w]
        /\ raced' = [raced EXCEPT ![s] = b]
    BY <1>3 DEF Reauthenticated
  <2>2. x.password \in Password
    BY DEF Heard
  <2>3. WithCredentials(e, x) \in StoredEntry
    BY <1>2, <2>2 DEF WithCredentials, StoredEntry
  <2>4. w \in Signature /\ b \in BOOLEAN
    BY <1>2, <2>2 DEF StoredEntry, Signature, TInv, HistoryOK
  <2> HIDE DEF b, w, c
  <2> QED
    BY <1>1, <2>1, <2>3, <2>4, ChangedShape
<1>4. CASE ~UidMatches(e, told, c, x.host)
  <2>1. Stored' = Stored => FlowOK'
    BY <1>1, EndedShape DEF TInv
  <2> QED
    BY <1>4, <2>1, FlowStepShape DEF Reauthenticated, Keep, TInv, WorldOK
<1> QED
  BY <1>3, <1>4

LEMMA ReconnectedShape ==
  ASSUME TInv, NEW f \in Flow, NEW told \in Told, Heard(f, told),
         Reconnected(f, told), UNCHANGED <<worldVars, setupVars, events>>
  PROVE  TInv'
<1> DEFINE x == flow[f]
           s == x.entry
           e == entry[s]
           c == at[x.host]
<1>1. x.kind = "reconfigure" /\ s \in Stored /\ c \in Console /\ x.step = "validating"
  BY DEF Reconnected, Heard
<1>2. e \in StoredEntry /\ s \in Entry
  BY <1>1, StoredShape DEF TInv
<1>3. CASE ValidatedDevice(e, told, c, x.host)
  <2> DEFINE b == raced[s] \/ Settings(e) # Settings(x.before)
             w == <<x.host, x.password, e.wol>>
  <2>1. /\ Update(s, Merged(e, x)) /\ Ended(f)
        /\ vouched' = [vouched EXCEPT ![s] = c]
        /\ saved' = [saved EXCEPT ![s] = w]
        /\ raced' = [raced EXCEPT ![s] = b]
    BY <1>3 DEF Reconnected
  <2>2. x.before \in EntryType /\ x.host \in Host /\ x.password \in Password
    BY DEF Heard, FlowType
  <2>3. x.before.wol \in MaybeConsole /\ x.before.mac \in MaybeConsole
        /\ x.before.aliases \in SUBSET Host
    BY <2>2 DEF EntryType, NoEntry, MaybeConsole
  <2>4. Merged(e, x) \in StoredEntry
    BY <1>2, <2>2, <2>3 DEF Merged, StoredEntry
  <2>5. w \in Signature /\ b \in BOOLEAN
    BY <1>2, <2>2 DEF StoredEntry, Signature, TInv, HistoryOK
  <2> HIDE DEF b, w, c
  <2> QED
    BY <1>1, <2>1, <2>4, <2>5, ChangedShape
<1>4. CASE ~ValidatedDevice(e, told, c, x.host)
  <2>1. Keep /\ UNCHANGED userVars
        /\ flow' = [flow EXCEPT ![f].step = "form", ![f].host = None,
                                ![f].password = None, ![f].before = NoEntry]
    BY <1>4 DEF Reconnected
  <2>2. Stored' = Stored => FlowOK'
    BY <1>1, <2>1, FormShape DEF TInv
  <2> QED
    BY <2>1, <2>2, FlowStepShape DEF Keep, TInv, WorldOK
<1> QED
  BY <1>3, <1>4

LEMMA AnsweredShape ==
  ASSUME TInv, NEW f \in Flow, Answered(f)
  PROVE  TInv'
BY AnsweredCases, ValidatedShape, ReauthenticatedShape, ReconnectedShape

\* What a flow creates.
Created(x, wol) ==
  [uid |-> x.uid, host |-> x.host, password |-> x.password, wol |-> wol,
   mac |-> x.mac, aliases |-> {x.host} \cup ({x.device.host} \ {None})]

LEMMA CreatedShape ==
  ASSUME NEW x \in FlowType, NEW S, Shape(x, S), x.step = "features",
         NEW wol \in Typed \cup {None}
  PROVE  Created(x, wol) \in StoredEntry /\ <<x.host, x.password, wol>> \in Signature
<1>1. x.uid \in Uid /\ x.host \in Host /\ x.password \in Password
  BY DEF Shape
<1>2. x.mac \in MaybeConsole /\ wol \in MaybeConsole
  BY EntryAssumption DEF FlowType, MaybeConsole
<1>3. {x.device.host} \ {None} \subseteq Host
  BY DEF FlowType, Device, NoFlow
<1> QED
  BY <1>1, <1>2, <1>3 DEF Created, StoredEntry, Signature

LEMMA CreateShape ==
  ASSUME TInv, NEW f \in Flow, NEW wol \in Typed \cup {None}, Create(f, wol)
  PROVE  TInv'
<1> DEFINE x == flow[f]
           e == Created(x, wol)
           w == <<x.host, x.password, wol>>
<1>1. PICK s \in Entry \ Stored :
        /\ entry' = [entry EXCEPT ![s] = e]
        /\ life' = [life EXCEPT ![s] = "due"]
        /\ vouched' = [vouched EXCEPT ![s] = x.console]
        /\ saved' = [saved EXCEPT ![s] = w]
  BY DEF Create, Created
<1>2. /\ x.step = "features"
      /\ flow' = [g \in Flow |-> IF flow[g].uid = x.uid THEN NoFlow ELSE flow[g]]
      /\ UNCHANGED <<worldVars, runtime, reloading, listening, events, raced, late>>
  BY DEF Create
<1>3. x \in FlowType /\ Shape(x, Stored)
  BY DEF TInv, FlowOK
<1>4. e \in StoredEntry /\ w \in Signature /\ x.console \in MaybeConsole
  BY <1>2, <1>3, CreatedShape DEF FlowType
<1> HIDE DEF e, w
<1>5. e # NoEntry
  BY <1>4, EntryShapes
<1>6. EntryOK' /\ Stored \subseteq Stored'
  BY <1>1, <1>4, <1>5 DEF TInv, EntryOK, Stored, Life
<1>7. FlowOK'
  <2> DEFINE ending == {g \in Flow : flow[g].uid = x.uid}
  <2>1. flow' = [g \in Flow |-> IF g \in ending THEN NoFlow ELSE flow[g]]
    BY <1>2
  <2> HIDE DEF ending
  <2> QED
    BY <1>6, <2>1, FlowsEnd DEF TInv
<1>8. RuntimeOK'
  BY <1>1, <1>2 DEF TInv, RuntimeOK, EntryOK
<1>9. WorldOK' /\ HistoryOK'
  BY <1>1, <1>2, <1>4 DEF TInv, WorldOK, HistoryOK, worldVars
<1> QED
  BY <1>6, <1>7, <1>8, <1>9 DEF TInv

LEMMA SaveFeaturesShape ==
  ASSUME TInv, NEW s \in Entry, NEW wol \in Typed \cup {None}, SaveFeatures(s, wol)
  PROVE  TInv'
<1> DEFINE e == WithFeatures(entry[s], wol)
           w == <<entry[s].host, entry[s].password, wol>>
<1>1. /\ s \in Stored /\ Update(s, e) /\ saved' = [saved EXCEPT ![s] = w]
      /\ UNCHANGED <<worldVars, setupVars, flow, vouched, raced>>
      /\ events' \in 0..MaxEvents
  BY EventShape DEF SaveFeatures
<1>2. entry[s] \in StoredEntry /\ wol \in MaybeConsole
  BY <1>1, StoredShape, EntryAssumption DEF TInv, MaybeConsole
<1>3. e \in StoredEntry /\ w \in Signature
  BY <1>2 DEF StoredEntry, Signature, WithFeatures
<1> HIDE DEF e, w
<1>4. EntryOK' /\ RuntimeOK' /\ Stored' = Stored /\ late' \in [Entry -> BOOLEAN]
  BY <1>1, <1>3, UpdateShape DEF setupVars
<1>5. FlowOK'
  BY <1>1, <1>4, FlowsKept DEF TInv
<1>6. HistoryOK'
  BY <1>1, <1>3, <1>4 DEF TInv, HistoryOK
<1> QED
  BY <1>1, <1>4, <1>5, <1>6 DEF TInv, WorldOK, worldVars

\* The network changes, or nothing does.
LEMMA WorldShape ==
  ASSUME TInv, WorldOK', UNCHANGED <<entry, setupVars, listening, flow, userVars, late>>
  PROVE  TInv'
BY DEF TInv, EntryOK, RuntimeOK, FlowOK, HistoryOK, Stored, setupVars, userVars

LEMMA MoveShape ==
  ASSUME TInv, NEW g \in Host, NEW h \in Host, Move(g, h)
  PROVE  TInv'
<1>1. WorldOK'
  BY EventShape DEF Move, TInv, WorldOK
<1> QED
  BY <1>1, WorldShape DEF Move, Keep

LEMMA ChangePasswordShape ==
  ASSUME TInv, NEW c \in Console, NEW p \in Password, ChangePassword(c, p)
  PROVE  TInv'
<1>1. WorldOK'
  BY EventShape DEF ChangePassword, TInv, WorldOK
<1> QED
  BY <1>1, WorldShape DEF ChangePassword, Keep

LEMMA StutterShape ==
  ASSUME TInv, UNCHANGED vars
  PROVE  TInv'
<1>1. WorldOK'
  BY DEF TInv, WorldOK, vars, worldVars
<1> QED
  BY <1>1, WorldShape DEF vars, setupVars

LEMMA InitShape == Init => TInv
<1> SUFFICES ASSUME Init PROVE TInv
  OBVIOUS
<1>1. /\ at \in [Host -> MaybeConsole] /\ accepts \in [Console -> Password]
      /\ \A s \in Entry : entry[s] # NoEntry =>
           entry[s] \in StoredEntry /\ at[entry[s].host] \in Console
      /\ DOMAIN entry = Entry /\ entry = [s \in Entry |-> entry[s]]
  <2>1. at \in [Host -> MaybeConsole] /\ accepts \in [Console -> Password]
    BY DEF Init
  <2>2. CASE entry = [s \in Entry |-> NoEntry]
    BY <2>1, <2>2
  <2>3. CASE \E s \in Entry, h \in {g \in Host : at[g] # None} :
               \E e \in Entries(at[h], h) :
                 entry = [t \in Entry |-> IF t = s THEN e ELSE NoEntry]
    <3>1. PICK s \in Entry, h \in {g \in Host : at[g] # None} :
            \E e \in Entries(at[h], h) :
              entry = [t \in Entry |-> IF t = s THEN e ELSE NoEntry]
      BY <2>3
    <3>2. at[h] \in Console /\ h \in Host
      BY <2>1, <3>1 DEF MaybeConsole
    <3>3. PICK e \in Entries(at[h], h) :
            entry = [t \in Entry |-> IF t = s THEN e ELSE NoEntry]
      BY <3>1
    <3>4. PICK told \in Tells[at[h]], wol \in Typed \cup {None}, mac \in {None, at[h]} :
            e = [uid |-> InfoUid(told, at[h], h), host |-> h, password |-> accepts[at[h]],
                 wol |-> wol, mac |-> mac, aliases |-> {h}]
      BY <3>3 DEF Entries
    <3>5. InfoUid(told, at[h], h) \in Uid
      BY <3>2, <3>4, UidShape, EntryAssumption
    <3>6. e \in StoredEntry /\ e.host = h
      BY <2>1, <3>2, <3>4, <3>5, EntryAssumption DEF StoredEntry, MaybeConsole
    <3> QED
      BY <2>1, <3>2, <3>3, <3>6
  <2> QED
    BY <2>1, <2>2, <2>3 DEF Init
<1>2. WorldOK
  BY <1>1, EntryAssumption DEF Init, WorldOK
<1>3. EntryOK
  BY <1>1 DEF Init, EntryOK, Life
<1>4. RuntimeOK
  BY EntryShapes DEF Init, RuntimeOK
<1>5. FlowOK
  BY EntryShapes DEF Init, FlowOK
<1>6. HistoryOK
  <2>1. \A s \in Entry : Settings(entry[s]) \in Signature \cup {Settings(NoEntry)}
    BY <1>1, SettingsShape
  <2>2. \A s \in Entry :
          (IF entry[s] = NoEntry THEN None ELSE at[entry[s].host]) \in MaybeConsole
    BY <1>1 DEF MaybeConsole
  <2> QED
    BY <2>1, <2>2 DEF Init, HistoryOK
<1> QED
  BY <1>2, <1>3, <1>4, <1>5, <1>6 DEF TInv

LEMMA NextShape ==
  ASSUME TInv, [Next]_vars
  PROVE  TInv'
<1>1. ASSUME NEW s \in Entry,
             SetUp(s) \/ FirstPoll(s) \/ PlatformsSetUp(s) \/ CleanUp(s) \/ Poll(s)
             \/ Listener(s) \/ Reconfigure(s)
      PROVE  TInv'
  BY <1>1, SetUpShape, FirstPollShape, PlatformsSetUpShape, CleanUpShape, PollShape,
     ListenerShape, ReconfigureShape
<1>2. ASSUME NEW s \in Entry, NEW wol \in Typed \cup {None}, SaveFeatures(s, wol)
      PROVE  TInv'
  BY <1>2, SaveFeaturesShape
<1>3. ASSUME NEW f \in Flow, Submit(f) \/ Failed(f) \/ Answered(f) \/ Abandon(f)
      PROVE  TInv'
  BY <1>3, SubmitShape, FailedShape, AnsweredShape, AbandonShape
<1>4. ASSUME NEW f \in Flow, NEW wol \in Typed \cup {None}, Create(f, wol)
      PROVE  TInv'
  BY <1>4, CreateShape
<1>5. ASSUME NEW d \in Device, Announce(d) PROVE TInv'
  BY <1>5, AnnounceShape
<1>6. ASSUME NEW g \in Host, NEW h \in Host, Move(g, h) PROVE TInv'
  BY <1>6, MoveShape
<1>7. ASSUME NEW c \in Console, NEW p \in Password, ChangePassword(c, p) PROVE TInv'
  BY <1>7, ChangePasswordShape
<1>8. CASE Add \/ Restart \/ UNCHANGED vars
  BY <1>8, AddShape, RestartShape, StutterShape
<1> QED
  BY <1>1, <1>2, <1>3, <1>4, <1>5, <1>6, <1>7, <1>8 DEF Next

LEMMA ShapeHolds == Spec => []TInv
<1>1. Init => TInv
  BY InitShape
<1>2. TInv /\ [Next]_vars => TInv'
  BY NextShape
<1> QED
  BY <1>1, <1>2, PTL DEF Spec

\* Every step keeps the types; an entry that is stored is one that has a life.
THEOREM EntryTypes == Spec => []TypeOK
<1>1. TInv => TypeOK
  BY EntryShapes DEF TInv, WorldOK, EntryOK, RuntimeOK, FlowOK, TypeOK
<1> QED
  BY <1>1, ShapeHolds, PTL

-----------------------------------------------------------------------------
(* What a step does to an entry.                                           *)

\* Its id stays, it stays with its console, and it stays as saved.
Kept(t) ==
  /\ entry'[t].uid = entry[t].uid
  /\ entry[t].uid[1] # "host" /\ vouched[t] = entry[t].uid[2] =>
       vouched'[t] = entry[t].uid[2]
  /\ raced[t] \/ Settings(entry[t]) = saved[t] =>
       raced'[t] \/ Settings(entry'[t]) = saved'[t]

\* A flow that is new to the features form knows the console it is about, and
\* no entry has its id.
Fresh(y) ==
  /\ y.uid[1] # "host" => y.console = y.uid[2]
  /\ \A t \in Stored : entry[t].uid # y.uid

Quiet ==
  /\ Stored' = Stored
  /\ \A t \in Stored : Kept(t)
  /\ \A f \in Flow : flow'[f].step = "features" => flow'[f] = flow[f] \/ Fresh(flow'[f])

\* The client is as stored, or a reload is due, or the first poll was raced.
Running(t) ==
  /\ life[t] = "polling" => late[t] \/ Settings(runtime[t]) = Settings(entry[t])
  /\ life[t] \in {"platforms", "loaded"} =>
       /\ listening[t] \/ reloading[t] \/ runtime[t].signature = Settings(entry[t])
       /\ late[t] \/ reloading[t] \/ Settings(runtime[t]) = runtime[t].signature

RunsOn == \A t \in Entry : Running(t) => Running(t)'

LEMMA EntriesQuiet ==
  ASSUME UNCHANGED <<entry, userVars>>
  PROVE  Stored' = Stored /\ \A t \in Stored : Kept(t)
BY DEF Stored, Kept, userVars

LEMMA MetadataQuiet ==
  ASSUME TInv, NEW s \in Stored, NEW e \in StoredEntry, e.uid = entry[s].uid,
         Settings(e) = Settings(entry[s]), entry' = [entry EXCEPT ![s] = e],
         UNCHANGED userVars
  PROVE  Stored' = Stored /\ \A t \in Stored : Kept(t)
<1>1. \A t \in Entry : entry'[t] = IF t = s THEN e ELSE entry[t]
  BY DEF TInv, EntryOK
<1>2. e # NoEntry /\ s \in Entry
  BY EntryShapes, StoredShape DEF TInv
<1>3. Stored' = Stored
  BY <1>1, <1>2 DEF Stored
<1> QED
  BY <1>1, <1>3 DEF Kept, userVars, Stored

LEMMA ChangeQuiet ==
  ASSUME TInv, NEW s \in Stored, NEW e \in StoredEntry, e.uid = entry[s].uid,
         entry' = [entry EXCEPT ![s] = e],
         NEW c, vouched' = [vouched EXCEPT ![s] = c],
         NEW w, saved' = [saved EXCEPT ![s] = w],
         NEW b, raced' = [raced EXCEPT ![s] = b],
         entry[s].uid[1] # "host" /\ vouched[s] = entry[s].uid[2] => c = entry[s].uid[2],
         b \/ Settings(e) = w
  PROVE  Stored' = Stored /\ \A t \in Stored : Kept(t)
<1>1. \A t \in Entry : entry'[t] = IF t = s THEN e ELSE entry[t]
  BY DEF TInv, EntryOK
<1>2. e # NoEntry /\ s \in Entry
  BY EntryShapes, StoredShape DEF TInv
<1>3. Stored' = Stored
  BY <1>1, <1>2 DEF Stored
<1>4. \A t \in Entry : /\ vouched'[t] = IF t = s THEN c ELSE vouched[t]
                       /\ saved'[t] = IF t = s THEN w ELSE saved[t]
                       /\ raced'[t] = IF t = s THEN b ELSE raced[t]
  BY DEF TInv, HistoryOK
<1>5. Kept(s)
  BY <1>1, <1>2, <1>4 DEF Kept
<1>6. \A t \in Stored : t # s => Kept(t)
  BY <1>1, <1>4 DEF Kept, Stored
<1> QED
  BY <1>3, <1>5, <1>6

LEMMA DuplicatesQuiet ==
  ASSUME NEW e, flow' = WithoutDuplicates(e)
  PROVE  \A f \in Flow : flow'[f].step = "features" => flow'[f] = flow[f]
BY EntryShapes DEF WithoutDuplicates

LEMMA FlowQuiet ==
  ASSUME TInv, NEW g \in Flow, NEW x, x.step # "features", flow' = [flow EXCEPT ![g] = x]
  PROVE  \A f \in Flow : flow'[f].step = "features" => flow'[f] = flow[f]
BY DEF TInv, FlowOK

LEMMA ReauthQuiet ==
  ASSUME TInv, NEW s, StartReauth(s)
  PROVE  \A f \in Flow : flow'[f].step = "features" => flow'[f] = flow[f]
<1> DEFINE x == [NoFlow EXCEPT !.kind = "reauth", !.entry = s]
<1>1. x.step = "form"
  BY DEF NoFlow
<1>2. flow' = flow \/ \E f \in Flow : flow' = [flow EXCEPT ![f] = x]
  BY DEF StartReauth, Free
<1> HIDE DEF x
<1> QED
  BY <1>1, <1>2, FlowQuiet

LEMMA UpdateRuns ==
  ASSUME TInv, NEW s \in Stored, NEW e \in StoredEntry, Update(s, e),
         UNCHANGED <<life, runtime, reloading>>
  PROVE  RunsOn
<1>1. s \in Entry
  BY StoredShape DEF TInv
<1>2. \A t \in Entry :
        /\ entry'[t] = IF t = s THEN e ELSE entry[t]
        /\ listening'[t] <=> listening[t]
             \/ (t = s /\ e # entry[s] /\ life[s] \in {"platforms", "loaded"})
        /\ late'[t] <=> late[t]
             \/ (t = s /\ Settings(e) # Settings(entry[s]) /\ life[s] = "polling")
  BY DEF Update, TInv, EntryOK, RuntimeOK, HistoryOK
<1> QED
  BY <1>1, <1>2 DEF RunsOn, Running

LEMMA NothingRuns ==
  ASSUME UNCHANGED <<entry, life, runtime, reloading, listening, late>>
  PROVE  RunsOn
BY DEF RunsOn, Running

LEMMA SetUpEffect ==
  ASSUME TInv, NEW s \in Entry, SetUp(s)
  PROVE  Quiet /\ RunsOn
<1> DEFINE e == Backfilled(entry[s])
           r == [NoRuntime EXCEPT !.host = e.host, !.password = e.password, !.wol = e.wol]
<1>1. /\ life[s] \in {"due", "retry", "loaded", "error"}
      /\ entry' = [entry EXCEPT ![s] = e] /\ flow' = WithoutDuplicates(e)
      /\ runtime' = [runtime EXCEPT ![s] = r]
      /\ life' = [life EXCEPT ![s] = "polling"]
      /\ reloading' = [reloading EXCEPT ![s] = FALSE]
      /\ late' = [late EXCEPT ![s] = FALSE]
      /\ UNCHANGED <<at, accepts, listening, events, vouched, saved, raced>>
  BY DEF SetUp, worldVars, userVars
<1>2. s \in Stored /\ entry[s] \in StoredEntry
  BY <1>1, StoredShape DEF TInv, EntryOK, Stored
<1>3. e \in StoredEntry /\ e.uid = entry[s].uid /\ Settings(e) = Settings(entry[s])
  BY <1>2 DEF StoredEntry, Settings, Backfilled
<1>4. Settings(r) = Settings(e)
  BY <1>3 DEF StoredEntry, NoRuntime, Settings
<1> HIDE DEF e, r
<1>5. Quiet
  BY <1>1, <1>2, <1>3, MetadataQuiet, DuplicatesQuiet DEF Quiet, userVars
<1>6. RunsOn
  BY <1>1, <1>4 DEF TInv, EntryOK, RuntimeOK, HistoryOK, RunsOn, Running
<1> QED
  BY <1>5, <1>6

LEMMA GoOnEffect ==
  ASSUME TInv, NEW s \in Entry, life[s] = "polling", NEW online \in BOOLEAN,
         NEW mac \in MaybeConsole, GoOn(s, online, mac),
         UNCHANGED <<listening, reloading, userVars, late>>
  PROVE  Quiet /\ RunsOn
<1> DEFINE e == IF mac = None THEN entry[s] ELSE Recorded(entry[s], mac)
           r == [runtime[s] EXCEPT !.online = online, !.signature = Settings(e)]
<1>1. s \in Stored /\ entry[s] \in StoredEntry
  BY StoredShape DEF TInv, EntryOK, Stored
<1>2. e \in StoredEntry /\ e.uid = entry[s].uid /\ Settings(e) = Settings(entry[s])
  BY <1>1, RecordedShape DEF MaybeConsole
<1>3. entry' = [entry EXCEPT ![s] = e] /\ entry'[s] = e
  BY DEF GoOn, TInv, EntryOK
<1>4. runtime' = [runtime EXCEPT ![s] = r]
  BY <1>3 DEF GoOn, TInv, RuntimeOK
<1>5. life' = [life EXCEPT ![s] = "platforms"] /\ flow' = flow
  BY DEF GoOn
<1>6. Settings(r) = Settings(runtime[s]) /\ r.signature = Settings(entry'[s])
  BY <1>3 DEF TInv, RuntimeOK, RuntimeType, Settings
<1> HIDE DEF e, r
<1>7. Quiet
  BY <1>1, <1>2, <1>3, <1>5, MetadataQuiet DEF Quiet
<1>8. RunsOn
  BY <1>2, <1>3, <1>4, <1>5, <1>6 DEF TInv, EntryOK, RuntimeOK, HistoryOK, RunsOn, Running
<1> QED
  BY <1>7, <1>8

LEMMA GiveUpEffect ==
  ASSUME TInv, NEW s \in Entry, NEW state \in {"error", "retry"}, GiveUp(s, state),
         UNCHANGED <<listening, reloading, userVars, late>>
  PROVE  Stored' = Stored /\ (\A t \in Stored : Kept(t)) /\ RunsOn
<1>1. Stored' = Stored /\ \A t \in Stored : Kept(t)
  BY EntriesQuiet DEF GiveUp
<1>2. RunsOn
  BY DEF GiveUp, TInv, EntryOK, RuntimeOK, RunsOn, Running
<1> QED
  BY <1>1, <1>2

LEMMA FirstPollEffect ==
  ASSUME TInv, NEW s \in Entry, FirstPoll(s)
  PROVE  Quiet /\ RunsOn
<1> DEFINE h == runtime[s].host
<1>1. /\ life[s] = "polling"
      /\ UNCHANGED <<listening, reloading, userVars, late>>
      /\ \/ \E mac \in {None, at[h]} : GoOn(s, TRUE, mac)
         \/ StartReauth(s) /\ GiveUp(s, "error")
         \/ GoOn(s, FALSE, None)
         \/ GiveUp(s, "retry") /\ UNCHANGED flow
  BY DEF FirstPoll
<1>2. at[h] \in MaybeConsole /\ None \in MaybeConsole
  BY <1>1 DEF TInv, RuntimeOK, WorldOK, MaybeConsole
<1>3. ASSUME NEW mac \in {None, at[h]}, GoOn(s, TRUE, mac) PROVE Quiet /\ RunsOn
  BY <1>1, <1>2, <1>3, GoOnEffect
<1>4. CASE GoOn(s, FALSE, None)
  BY <1>1, <1>2, <1>4, GoOnEffect
<1>5. CASE StartReauth(s) /\ GiveUp(s, "error")
  BY <1>1, <1>5, ReauthQuiet, GiveUpEffect DEF Quiet
<1>6. CASE GiveUp(s, "retry") /\ UNCHANGED flow
  BY <1>1, <1>6, GiveUpEffect DEF Quiet
<1> QED
  BY <1>1, <1>3, <1>4, <1>5, <1>6

LEMMA LoadedEffect ==
  ASSUME TInv, NEW s \in Entry, PlatformsSetUp(s) \/ CleanUp(s) \/ Poll(s)
  PROVE  Quiet /\ RunsOn
<1>1. CASE GiveUp(s, "error") /\ UNCHANGED flow /\ PlatformsSetUp(s)
  BY <1>1, GiveUpEffect DEF Quiet, PlatformsSetUp
<1>2. CASE /\ PlatformsSetUp(s) /\ life' = [life EXCEPT ![s] = "loaded"]
           /\ flow' = WithoutDuplicates(entry[s]) /\ UNCHANGED <<entry, runtime>>
  <2>1. life[s] = "platforms" /\ UNCHANGED <<listening, reloading, userVars, late>>
    BY <1>2 DEF PlatformsSetUp
  <2>2. RunsOn
    BY <1>2, <2>1 DEF RunsOn, Running, TInv, EntryOK
  <2> QED
    BY <1>2, <2>1, <2>2, EntriesQuiet, DuplicatesQuiet DEF Quiet
<1>3. CASE CleanUp(s)
  BY <1>3, EntriesQuiet, DuplicatesQuiet, NothingRuns DEF CleanUp, Quiet, setupVars
<1>4. CASE Poll(s)
  <2>1. UNCHANGED <<entry, life, reloading, listening, userVars, late>>
    BY <1>4 DEF Poll
  <2>2. \A f \in Flow : flow'[f].step = "features" => flow'[f] = flow[f]
    BY <1>4, ReauthQuiet DEF Poll
  <2>3. \A t \in Entry : /\ runtime'[t].signature = runtime[t].signature
                         /\ Settings(runtime'[t]) = Settings(runtime[t])
    BY <1>4 DEF Poll, Settings, TInv, RuntimeOK, RuntimeType
  <2>4. RunsOn
    BY <2>1, <2>3 DEF RunsOn, Running
  <2> QED
    BY <2>1, <2>2, <2>4, EntriesQuiet DEF Quiet
<1> QED
  BY <1>1, <1>2, <1>3, <1>4 DEF PlatformsSetUp

LEMMA ListenerEffect ==
  ASSUME TInv, NEW s \in Entry, Listener(s)
  PROVE  Quiet /\ RunsOn
<1>1. UNCHANGED <<entry, life, flow, userVars, late>>
  BY DEF Listener
<1>2. \A t \in Entry : t # s =>
        UNCHANGED <<listening[t], reloading[t], runtime[t]>>
  BY DEF Listener, TInv, RuntimeOK
<1>3. ASSUME life[s] \in {"platforms", "loaded"}
      PROVE  /\ runtime'[s].signature = Settings(entry[s])
             /\ Settings(runtime'[s]) = Settings(runtime[s])
             /\ reloading'[s] <=> reloading[s] \/ runtime[s].signature # Settings(entry[s])
  BY <1>3 DEF Listener, SignatureKept, TInv, RuntimeOK, RuntimeType, Settings
<1>4. ASSUME life[s] \notin {"platforms", "loaded"}
      PROVE  runtime' = runtime
  BY <1>4 DEF Listener
<1>5. \A t \in Entry : t # s => (Running(t) => Running(t)')
  BY <1>1, <1>2 DEF Running
<1>6. Running(s) => Running(s)'
  BY <1>1, <1>3, <1>4 DEF Running
<1>7. Quiet
  BY <1>1, EntriesQuiet DEF Quiet
<1> QED
  BY <1>5, <1>6, <1>7 DEF RunsOn

LEMMA RestartEffect ==
  ASSUME TInv, Restart
  PROVE  Quiet /\ RunsOn
<1>1. /\ life' = [s \in Entry |-> IF s \in Stored THEN "due" ELSE "none"]
      /\ flow' = [f \in Flow |-> NoFlow] /\ UNCHANGED <<entry, userVars>>
  BY DEF Restart, AfterRestart
<1>2. RunsOn
  BY <1>1 DEF RunsOn, Running
<1> QED
  BY <1>1, <1>2, EntriesQuiet, EntryShapes DEF Quiet

LEMMA ObservationEffect ==
  ASSUME TInv, NEW s \in Entry, NEW d \in Device, FirstMatch(s, d),
         Update(s, Observed(entry[s], d)), UNCHANGED flow,
         UNCHANGED <<worldVars, setupVars, userVars>>
  PROVE  Quiet /\ RunsOn
<1> DEFINE e == Observed(entry[s], d)
<1>1. s \in Stored /\ entry[s] \in StoredEntry
  BY StoredShape DEF FirstMatch, TInv
<1>2. e \in StoredEntry /\ e.uid = entry[s].uid /\ Settings(e) = Settings(entry[s])
  BY <1>1, ObservedShape
<1>3. Update(s, e) /\ entry' = [entry EXCEPT ![s] = e]
  BY DEF Update
<1> HIDE DEF e
<1>4. RunsOn
  BY <1>1, <1>2, <1>3, UpdateRuns DEF setupVars
<1> QED
  BY <1>1, <1>2, <1>3, <1>4, MetadataQuiet DEF Quiet

\* A flow takes a step other than to the features form.
LEMMA FlowEffect ==
  ASSUME TInv, Keep, UNCHANGED <<setupVars, userVars>>,
         \A f \in Flow : flow'[f].step = "features" => flow'[f] = flow[f]
  PROVE  Quiet /\ RunsOn
BY EntriesQuiet, NothingRuns DEF Quiet, Keep, setupVars

LEMMA AnnounceEffect ==
  ASSUME TInv, NEW d \in Device, Announce(d)
  PROVE  Quiet /\ RunsOn
<1> DEFINE x == [NoFlow EXCEPT !.kind = "zeroconf", !.device = d, !.uid = DiscoveryUid(d)]
<1>1. UNCHANGED <<worldVars, setupVars, userVars>>
  BY DEF Announce
<1>2. CASE \E s \in Entry :
             FirstMatch(s, d) /\ Update(s, Observed(entry[s], d)) /\ UNCHANGED flow
  BY <1>1, <1>2, ObservationEffect
<1>3. CASE Keep /\ \E f \in Flow : flow' = [flow EXCEPT ![f] = x]
  <2>1. x.step # "features"
    BY DEF NoFlow
  <2> HIDE DEF x
  <2> QED
    BY <1>1, <1>3, <2>1, FlowQuiet, FlowEffect
<1> QED
  BY <1>2, <1>3 DEF Announce, Seen, Free

LEMMA AddEffect ==
  ASSUME TInv, Add
  PROVE  Quiet /\ RunsOn
<1>1. UNCHANGED <<worldVars, setupVars, userVars>>
  BY DEF Add
<1>2. CASE \E d \in Device, s \in Entry :
             FirstMatch(s, d) /\ Update(s, Observed(entry[s], d)) /\ UNCHANGED flow
  BY <1>1, <1>2, ObservationEffect
<1>3. ASSUME NEW f \in Flow, NEW d, Keep,
             flow' = [flow EXCEPT ![f] = [NoFlow EXCEPT !.kind = "user", !.device = d]]
      PROVE  Quiet /\ RunsOn
  <2> DEFINE x == [NoFlow EXCEPT !.kind = "user", !.device = d]
  <2>1. x.step # "features" /\ flow' = [flow EXCEPT ![f] = x]
    BY <1>3 DEF NoFlow
  <2> HIDE DEF x
  <2> QED
    BY <1>1, <1>3, <2>1, FlowQuiet, FlowEffect
<1> QED
  BY <1>2, <1>3 DEF Add, Seen, Offered, Free

LEMMA FormEffect ==
  ASSUME TInv, NEW f \in Flow,
         \/ \E s \in Entry : Reconfigure(s)
         \/ Submit(f) \/ Failed(f) \/ Abandon(f)
  PROVE  Quiet /\ RunsOn
<1>1. Keep /\ UNCHANGED <<setupVars, userVars>>
  BY DEF Reconfigure, Submit, Failed, Abandon
<1>2. \A g \in Flow : flow'[g].step = "features" => flow'[g] = flow[g]
  <2>1. flow[f] \in FlowType
    BY DEF TInv, FlowOK
  <2>2. ASSUME NEW s \in Entry, Reconfigure(s)
        PROVE  \A g \in Flow : flow'[g].step = "features" => flow'[g] = flow[g]
    <3> DEFINE x == [NoFlow EXCEPT !.kind = "reconfigure", !.entry = s]
    <3>1. x.step # "features" /\ \E g \in Flow : flow' = [flow EXCEPT ![g] = x]
      BY <2>2 DEF NoFlow, Reconfigure, Free
    <3> HIDE DEF x
    <3> QED
      BY <3>1, FlowQuiet
  <2>3. ASSUME Submit(f) PROVE \E x : x.step = "validating" /\ flow' = [flow EXCEPT ![f] = x]
    <3> DEFINE old == IF flow[f].entry = None THEN NoEntry ELSE entry[flow[f].entry]
    <3>1. PICK h \in (IF flow[f].kind = "reauth" THEN {old.host}
                      ELSE IF flow[f].device.host # None THEN {flow[f].device.host}
                      ELSE Host),
               p \in (IF flow[f].kind = "reconfigure" THEN Password \cup {old.password}
                      ELSE Password) :
            flow' = [flow EXCEPT ![f].step = "validating", ![f].host = h,
                                 ![f].password = p, ![f].before = old]
      BY <2>3 DEF Submit
    <3> DEFINE x == [flow[f] EXCEPT !.step = "validating", !.host = h, !.password = p,
                                    !.before = old]
    <3> HIDE DEF old
    <3>2. x.step = "validating" /\ flow' = [flow EXCEPT ![f] = x]
      BY <2>1, <3>1 DEF TInv, FlowOK, FlowType
    <3> QED
      BY <3>2
  <2>4. ASSUME Failed(f) PROVE \E x : x.step = "form" /\ flow' = [flow EXCEPT ![f] = x]
    <3> DEFINE x == [flow[f] EXCEPT !.step = "form", !.host = None, !.password = None,
                                    !.before = NoEntry]
    <3>1. x.step = "form" /\ flow' = [flow EXCEPT ![f] = x]
      BY <2>1, <2>4 DEF Failed, TInv, FlowOK, FlowType
    <3> QED
      BY <3>1
  <2>5. ASSUME Abandon(f) PROVE \E x : x.step = "form" /\ flow' = [flow EXCEPT ![f] = x]
    BY <2>5, EntryShapes DEF Abandon, Ended
  <2> QED
    BY <2>2, <2>3, <2>4, <2>5, FlowQuiet
<1> QED
  BY <1>1, <1>2, FlowEffect

LEMMA ValidatedEffect ==
  ASSUME TInv, NEW f \in Flow, NEW told \in Told, Heard(f, told),
         NEW mac \in MaybeConsole, Validated(f, told, mac), UNCHANGED setupVars
  PROVE  Quiet /\ RunsOn
<1> DEFINE x == flow[f]
           c == at[x.host]
           m == IF x.device.mac # None THEN x.device.mac ELSE mac
           y == [x EXCEPT !.step = "features", !.uid = InfoUid(told, c, x.host),
                          !.mac = m, !.console = c]
<1>1. Keep /\ UNCHANGED userVars
  BY DEF Validated
<1>2. CASE Configured(told, c, x.host)
  <2>1. \A g \in Flow : flow'[g].step = "features" => flow'[g] = flow[g]
    BY <1>2, EntryShapes, FlowQuiet DEF Validated, Ended
  <2> QED
    BY <1>1, <2>1, FlowEffect
<1>3. CASE ~Configured(told, c, x.host)
  <2>1. flow' = [flow EXCEPT ![f] = y]
    BY <1>3 DEF Validated, TInv, FlowOK
  <2>2. y.uid = InfoUid(told, c, x.host) /\ y.console = c
    BY DEF Heard, FlowType
  <2>3. y.uid[1] # "host" => y.console = y.uid[2]
    BY <2>2, UidShape DEF Heard
  <2>4. \A t \in Stored : entry[t].uid # y.uid
    BY <1>3, <2>2 DEF Configured, ValidatedDevice, UidMatches
  <2> HIDE DEF y
  <2>5. \A g \in Flow : flow'[g] = flow[g] \/ Fresh(flow'[g])
    BY <2>1, <2>3, <2>4 DEF Fresh, TInv, FlowOK
  <2> QED
    BY <1>1, <2>5, EntriesQuiet, NothingRuns DEF Quiet, Keep, setupVars
<1> QED
  BY <1>2, <1>3

LEMMA ReauthenticatedEffect ==
  ASSUME TInv, NEW f \in Flow, NEW told \in Told, Heard(f, told),
         Reauthenticated(f, told), UNCHANGED setupVars
  PROVE  Quiet /\ RunsOn
<1> DEFINE x == flow[f]
           s == x.entry
           old == entry[s]
           c == at[x.host]
           e == WithCredentials(old, x)
           b == raced[s] \/ old.host # x.before.host \/ old.password # x.before.password
           w == <<old.host, x.password, old.wol>>
<1>1. x.kind = "reauth" /\ Ended(f) /\ s \in Stored
  BY DEF Reauthenticated, Heard
<1>2. old \in StoredEntry /\ x.password \in Password
  BY <1>1, StoredShape DEF TInv, Heard
<1>3. \A g \in Flow : flow'[g].step = "features" => flow'[g] = flow[g]
  BY <1>1, EntryShapes, FlowQuiet DEF Ended
<1>4. CASE UidMatches(old, told, c, x.host)
  <2>1. /\ Update(s, e)
        /\ vouched' = [vouched EXCEPT ![s] = c]
        /\ saved' = [saved EXCEPT ![s] = w]
        /\ raced' = [raced EXCEPT ![s] = b]
    BY <1>4 DEF Reauthenticated
  <2>2. e \in StoredEntry /\ e.uid = old.uid /\ Settings(e) = w
    BY <1>2 DEF WithCredentials, StoredEntry, Settings
  <2>3. old.uid[1] # "host" => c = old.uid[2]
    BY <1>4, UidShape DEF UidMatches, Heard
  <2>4. entry' = [entry EXCEPT ![s] = e]
    BY <2>1 DEF Update
  <2> HIDE DEF e, b, w, c
  <2>5. RunsOn
    BY <1>1, <2>1, <2>2, UpdateRuns DEF setupVars
  <2>6. Stored' = Stored /\ \A t \in Stored : Kept(t)
    BY <1>1, <2>1, <2>2, <2>3, <2>4, ChangeQuiet
  <2> QED
    BY <1>3, <2>5, <2>6 DEF Quiet
<1>5. CASE ~UidMatches(old, told, c, x.host)
  BY <1>3, <1>5, FlowEffect DEF Reauthenticated
<1> QED
  BY <1>4, <1>5

LEMMA ReconnectedEffect ==
  ASSUME TInv, NEW f \in Flow, NEW told \in Told, Heard(f, told),
         Reconnected(f, told), UNCHANGED setupVars
  PROVE  Quiet /\ RunsOn
<1> DEFINE x == flow[f]
           s == x.entry
           old == entry[s]
           c == at[x.host]
           e == Merged(old, x)
           b == raced[s] \/ Settings(old) # Settings(x.before)
           w == <<x.host, x.password, old.wol>>
<1>1. x.kind = "reconfigure" /\ s \in Stored /\ x.step = "validating" /\ x \in FlowType
  BY DEF Reconnected, Heard
<1>2. old \in StoredEntry /\ x.password \in Password /\ x.host \in Host
  BY <1>1, StoredShape DEF TInv, Heard
<1>3. CASE ValidatedDevice(old, told, c, x.host)
  <2>1. /\ Update(s, e) /\ Ended(f)
        /\ vouched' = [vouched EXCEPT ![s] = c]
        /\ saved' = [saved EXCEPT ![s] = w]
        /\ raced' = [raced EXCEPT ![s] = b]
    BY <1>3 DEF Reconnected
  <2>2. \A g \in Flow : flow'[g].step = "features" => flow'[g] = flow[g]
    BY <2>1, EntryShapes, FlowQuiet DEF Ended
  <2>3. /\ x.before.wol \in MaybeConsole /\ x.before.mac \in MaybeConsole
        /\ x.before.aliases \in SUBSET Host
    BY <1>1 DEF FlowType, EntryType, NoEntry, MaybeConsole
  <2>4. e \in StoredEntry /\ e.uid = old.uid /\ e.host = x.host
        /\ e.password = x.password /\ e.wol = x.before.wol
    BY <1>2, <2>3 DEF Merged, StoredEntry
  <2>5. b \/ Settings(e) = w
    BY <2>4 DEF Settings
  <2>6. old.uid[1] # "host" => c = old.uid[2]
    BY <1>3, UidShape DEF ValidatedDevice, UidMatches, IsFallback, Heard
  <2>7. entry' = [entry EXCEPT ![s] = e]
    BY <2>1 DEF Update
  <2> HIDE DEF e, b, w, c
  <2>8. RunsOn
    BY <1>1, <2>1, <2>4, UpdateRuns DEF setupVars
  <2>9. Stored' = Stored /\ \A t \in Stored : Kept(t)
    BY <1>1, <2>1, <2>4, <2>5, <2>6, <2>7, ChangeQuiet
  <2> QED
    BY <2>2, <2>8, <2>9 DEF Quiet
<1>4. CASE ~ValidatedDevice(old, told, c, x.host)
  <2> DEFINE y == [x EXCEPT !.step = "form", !.host = None, !.password = None,
                            !.before = NoEntry]
  <2>1. Keep /\ UNCHANGED userVars
    BY <1>4 DEF Reconnected
  <2>2. y.step = "form" /\ flow' = [flow EXCEPT ![f] = y]
    BY <1>1, <1>4 DEF Reconnected, TInv, FlowOK, FlowType
  <2> HIDE DEF y
  <2> QED
    BY <2>1, <2>2, FlowQuiet, FlowEffect
<1> QED
  BY <1>3, <1>4

LEMMA AnsweredEffect ==
  ASSUME TInv, NEW f \in Flow, Answered(f)
  PROVE  Quiet /\ RunsOn
<1>1. UNCHANGED setupVars /\ \E told \in Told :
        /\ Heard(f, told)
        /\ \/ \E mac \in MaybeConsole : Validated(f, told, mac)
           \/ Reauthenticated(f, told)
           \/ Reconnected(f, told)
  BY AnsweredCases
<1> QED
  BY <1>1, ValidatedEffect, ReauthenticatedEffect, ReconnectedEffect

LEMMA SaveFeaturesEffect ==
  ASSUME TInv, NEW s \in Entry, NEW wol \in Typed \cup {None}, SaveFeatures(s, wol)
  PROVE  Quiet /\ RunsOn
<1> DEFINE e == WithFeatures(entry[s], wol)
           w == <<entry[s].host, entry[s].password, wol>>
<1>1. /\ s \in Stored /\ Update(s, e) /\ saved' = [saved EXCEPT ![s] = w]
      /\ UNCHANGED <<setupVars, flow, vouched, raced>>
  BY DEF SaveFeatures
<1>2. entry[s] \in StoredEntry /\ wol \in MaybeConsole
  BY <1>1, StoredShape, EntryAssumption DEF TInv, MaybeConsole
<1>3. e \in StoredEntry /\ e.uid = entry[s].uid /\ Settings(e) = w
  BY <1>2 DEF StoredEntry, Settings, WithFeatures
<1>4. entry' = [entry EXCEPT ![s] = e]
  BY <1>1 DEF Update
<1>5. vouched' = [vouched EXCEPT ![s] = vouched[s]] /\ raced' = [raced EXCEPT ![s] = raced[s]]
  BY <1>1 DEF TInv, HistoryOK
<1> HIDE DEF e, w
<1>6. RunsOn
  BY <1>1, <1>3, UpdateRuns DEF setupVars
<1>7. Stored' = Stored /\ \A t \in Stored : Kept(t)
  BY <1>1, <1>3, <1>4, <1>5, ChangeQuiet
<1> QED
  BY <1>1, <1>6, <1>7 DEF Quiet

LEMMA WorldEffect ==
  ASSUME TInv,
         \/ \E g, h \in Host : Move(g, h)
         \/ \E c \in Console, p \in Password : ChangePassword(c, p)
         \/ UNCHANGED vars
  PROVE  Quiet /\ RunsOn
<1>1. UNCHANGED <<entry, listening, late, setupVars, flow, userVars>>
  BY DEF Move, ChangePassword, Keep, vars
<1> QED
  BY <1>1, EntriesQuiet, NothingRuns DEF Quiet, setupVars

\* Only the creation of an entry is more than that.
LEMMA NextEffect ==
  ASSUME TInv, [Next]_vars
  PROVE  \/ Quiet /\ RunsOn
         \/ \E f \in Flow, wol \in Typed \cup {None} : Create(f, wol)
<1>1. ASSUME NEW s \in Entry,
             SetUp(s) \/ FirstPoll(s) \/ PlatformsSetUp(s) \/ CleanUp(s) \/ Poll(s)
             \/ Listener(s)
      PROVE  Quiet /\ RunsOn
  BY <1>1, SetUpEffect, FirstPollEffect, LoadedEffect, ListenerEffect
<1>2. ASSUME NEW s \in Entry, NEW wol \in Typed \cup {None}, SaveFeatures(s, wol)
      PROVE  Quiet /\ RunsOn
  BY <1>2, SaveFeaturesEffect
<1>3. ASSUME NEW s \in Entry, Reconfigure(s) PROVE Quiet /\ RunsOn
  <2>1. PICK f \in Flow : TRUE
    BY <1>3 DEF Reconfigure, Free
  <2> QED
    BY <1>3, <2>1, FormEffect
<1>4. ASSUME NEW f \in Flow, Submit(f) \/ Failed(f) \/ Abandon(f)
      PROVE  Quiet /\ RunsOn
  BY <1>4, FormEffect
<1>5. ASSUME NEW f \in Flow, Answered(f) PROVE Quiet /\ RunsOn
  BY <1>5, AnsweredEffect
<1>6. ASSUME NEW d \in Device, Announce(d) PROVE Quiet /\ RunsOn
  BY <1>6, AnnounceEffect
<1>7. CASE Add \/ Restart
  BY <1>7, AddEffect, RestartEffect
<1>8. CASE \/ \E g, h \in Host : Move(g, h)
           \/ \E c \in Console, p \in Password : ChangePassword(c, p)
           \/ UNCHANGED vars
  BY <1>8, WorldEffect
<1> QED
  BY <1>1, <1>2, <1>3, <1>4, <1>5, <1>6, <1>7, <1>8 DEF Next

-----------------------------------------------------------------------------
(* The theorems.                                                           *)

\* What a flow that has validated knows.
FlowsKnow ==
  \A f \in Flow : flow[f].step = "features" => Fresh(flow[f])

IInv ==
  /\ TInv /\ FlowsKnow /\ UniqueIds /\ StaysWithItsConsole /\ SavedSettingsStay
  /\ \A t \in Entry : Running(t)

LEMMA QuietKeeps ==
  ASSUME IInv, Quiet, RunsOn, TInv'
  PROVE  IInv'
<1>1. \A t \in Stored : entry'[t].uid = entry[t].uid
  BY DEF Quiet, Kept
<1>2. UniqueIds'
  BY <1>1 DEF IInv, UniqueIds, Quiet
<1>3. StaysWithItsConsole'
  BY DEF IInv, StaysWithItsConsole, Quiet, Kept
<1>4. SavedSettingsStay'
  BY DEF IInv, SavedSettingsStay, Quiet, Kept
<1>5. \A y : Fresh(y) => (/\ y.uid[1] # "host" => y.console = y.uid[2]
                          /\ \A t \in Stored' : entry'[t].uid # y.uid)
  BY <1>1 DEF Fresh, Quiet
<1>6. FlowsKnow'
  BY <1>5 DEF IInv, FlowsKnow, Quiet, Fresh
<1>7. \A t \in Entry : Running(t)'
  BY DEF IInv, RunsOn
<1> QED
  BY <1>2, <1>3, <1>4, <1>6, <1>7 DEF IInv

LEMMA CreateKeeps ==
  ASSUME IInv, NEW f \in Flow, NEW wol \in Typed \cup {None}, Create(f, wol), TInv'
  PROVE  IInv'
<1> DEFINE x == flow[f]
           e == Created(x, wol)
           w == <<x.host, x.password, wol>>
<1>1. PICK s \in Entry \ Stored :
        /\ entry' = [entry EXCEPT ![s] = e]
        /\ life' = [life EXCEPT ![s] = "due"]
        /\ vouched' = [vouched EXCEPT ![s] = x.console]
        /\ saved' = [saved EXCEPT ![s] = w]
  BY DEF Create, Created
<1>2. /\ x.step = "features"
      /\ flow' = [g \in Flow |-> IF flow[g].uid = x.uid THEN NoFlow ELSE flow[g]]
      /\ UNCHANGED <<runtime, reloading, listening, raced, late>>
  BY DEF Create
<1>3. e.uid = x.uid /\ Settings(e) = w
  BY DEF Created, Settings
<1>4. Fresh(x)
  BY <1>2 DEF IInv, FlowsKnow
<1> HIDE DEF e, w
<1>5. \A t \in Entry : /\ entry'[t] = IF t = s THEN e ELSE entry[t]
                       /\ life'[t] = IF t = s THEN "due" ELSE life[t]
                       /\ vouched'[t] = IF t = s THEN x.console ELSE vouched[t]
                       /\ saved'[t] = IF t = s THEN w ELSE saved[t]
  BY <1>1 DEF IInv, TInv, EntryOK, HistoryOK
<1>6. Stored' \subseteq Stored \cup {s}
  BY <1>5 DEF Stored
<1>7. s \in Entry /\ s \notin Stored /\ Stored \subseteq Entry
  BY <1>1 DEF Stored
<1>8. UniqueIds'
  BY <1>3, <1>4, <1>5, <1>6, <1>7 DEF IInv, UniqueIds, Fresh
<1>9. StaysWithItsConsole'
  BY <1>3, <1>4, <1>5, <1>6, <1>7 DEF IInv, StaysWithItsConsole, Fresh
<1>10. SavedSettingsStay'
  BY <1>2, <1>3, <1>5, <1>6, <1>7 DEF IInv, SavedSettingsStay
<1>11. FlowsKnow'
  <2> SUFFICES ASSUME NEW g \in Flow, flow'[g].step = "features"
               PROVE  Fresh(flow[g])'
    BY DEF FlowsKnow, Fresh
  <2>1. flow'[g] = flow[g] /\ flow[g].uid # x.uid
    BY <1>2, EntryShapes
  <2>2. Fresh(flow[g])
    BY <2>1 DEF IInv, FlowsKnow
  <2>3. \A t \in Stored' : entry'[t].uid # flow[g].uid
    BY <1>3, <1>5, <1>6, <1>7, <2>1, <2>2 DEF Fresh
  <2> QED
    BY <2>1, <2>2, <2>3 DEF Fresh
<1>12. \A t \in Entry : Running(t)'
  BY <1>2, <1>5 DEF IInv, Running
<1> QED
  BY <1>8, <1>9, <1>10, <1>11, <1>12 DEF IInv

LEMMA IInvHolds == Spec => []IInv
<1>1. Init => IInv
  <2> SUFFICES ASSUME Init PROVE IInv
    OBVIOUS
  <2>1. TInv
    BY InitShape
  <2>2. FlowsKnow
    BY EntryShapes DEF Init, FlowsKnow
  <2>3. SavedSettingsStay /\ \A t \in Entry : Running(t)
    BY DEF Init, SavedSettingsStay, Running, Stored
  <2>4. \A s, t \in Stored : s = t
    BY DEF Init, Stored
  <2>5. StaysWithItsConsole
    <3> SUFFICES ASSUME NEW s \in Stored, entry[s].uid[1] # "host"
                 PROVE  vouched[s] = entry[s].uid[2]
      BY DEF StaysWithItsConsole
    <3>1. s \in Entry /\ entry[s] # NoEntry
      BY DEF Stored
    <3>2. PICK h \in {g \in Host : at[g] # None} : entry[s] \in Entries(at[h], h)
      BY <3>1 DEF Init
    <3>8. PICK e \in Entries(at[h], h) : entry[s] = e
      BY <3>2
    <3>3. at[h] \in Console
      BY <2>1 DEF TInv, WorldOK, MaybeConsole
    <3>4. PICK told \in Tells[at[h]], wol \in Typed \cup {None}, mac \in {None, at[h]} :
            e = [uid |-> InfoUid(told, at[h], h), host |-> h, password |-> accepts[at[h]],
                 wol |-> wol, mac |-> mac, aliases |-> {h}]
      BY DEF Entries
    <3>5. told \in Told
      BY <3>3, EntryAssumption
    <3>6. e.host = h /\ e.uid = InfoUid(told, at[h], h)
      BY <3>4
    <3>7. vouched[s] = at[h]
      BY <3>1, <3>8, <3>6 DEF Init
    <3> QED
      BY <3>8, <3>3, <3>5, <3>6, <3>7, UidShape
  <2> QED
    BY <2>1, <2>2, <2>3, <2>4, <2>5 DEF IInv, UniqueIds
<1>2. IInv /\ [Next]_vars => IInv'
  <2> SUFFICES ASSUME IInv, [Next]_vars PROVE IInv'
    OBVIOUS
  <2>1. TInv /\ TInv'
    BY NextShape DEF IInv
  <2> QED
    BY <2>1, NextEffect, QuietKeeps, CreateKeeps
<1> QED
  BY <1>1, <1>2, PTL DEF Spec

\* No two entries share a unique id, however many flows overlap.
THEOREM IdsAreUnique == Spec => []UniqueIds
<1>1. IInv => UniqueIds
  BY DEF IInv
<1> QED
  BY <1>1, IInvHolds, PTL

\* An entry that is known by more than its address is only ever validated by
\* the console it was created for.
THEOREM ConsolesStay == Spec => []StaysWithItsConsole
<1>1. IInv => StaysWithItsConsole
  BY DEF IInv
<1> QED
  BY <1>1, IInvHolds, PTL

\* The stored settings are those the user stored last, unless two flows raced.
THEOREM SettingsStay == Spec => []SavedSettingsStay
<1>1. IInv => SavedSettingsStay
  BY DEF IInv
<1> QED
  BY <1>1, IInvHolds, PTL

\* A loaded entry with no listener task and no reload ahead runs as stored.
THEOREM RunningIsStored == Spec => []RunsAsStored
<1>1. IInv => RunsAsStored
  BY DEF IInv, RunsAsStored, Running, TInv, RuntimeOK
<1> QED
  BY <1>1, IInvHolds, PTL
=============================================================================
