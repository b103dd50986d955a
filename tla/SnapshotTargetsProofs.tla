----------------------- MODULE SnapshotTargetsProofs -----------------------
(***************************************************************************)
(* Repairs and create buttons follow the list of targets, for any targets, *)
(* any number of calls at once and any threshold.                          *)
(*                                                                         *)
(* The count that the platforms keep never exceeds the number of lists     *)
(* heard without the target, and is that number until a service reads a    *)
(* list; a count at the threshold goes with a repair.  Both rest on which  *)
(* list was counted last, and this on there being one poll at a time.      *)
(***************************************************************************)
EXTENDS SnapshotTargets, TLAPS

LivePoll(c) == call[c].kind = "poll" /\ ~call[c].ended

CallsFit ==
  /\ \A c \in Caller : call[c].kind = "poll" => call[c].step # "write"
  /\ \A c \in Caller : call[c].step = "inventory" => LivePoll(c) /\ available
  /\ \A c \in Caller : LivePoll(c) => mode = "on"
  /\ \A c, d \in Caller : LivePoll(c) /\ LivePoll(d) => c = d

\* Which list was counted last.
SeenFits ==
  /\ mode # "on" => seen = "none"
  /\ seen # "this" => fresh
  /\ ~ondemand => (fresh => seen # "this")
  /\ ~ondemand /\ seen = "other" => \E c \in Caller : call[c].step = "inventory"

CountsFit ==
  /\ \A t \in Target : count[t] <= missed[t]
  /\ ~ondemand => count = missed
  /\ \A t \in Target : count[t] = Threshold => t \in missing
  /\ \A t \in missing : count[t] = Threshold \/ t \in inherited

ButtonsFit ==
  /\ passed \subseteq buttons \cup dropped
  /\ mode = "on" /\ ~fresh =>
       \A t \in settings : IF t \in sticky THEN t \notin registered
                                           ELSE t \in buttons \cup dropped

IInv == TypeOK /\ CallsFit /\ SeenFits /\ CountsFit /\ ButtonsFit

-----------------------------------------------------------------------------
(* Counting.                                                               *)

LEMMA MissesType ==
  ASSUME NEW m, m.count \in [Target -> 0..Threshold],
         NEW t \in Target, NEW list, NEW targets
  PROVE  Misses(m, t, list, targets) \in 0..Threshold
BY TargetAssumption DEF Misses, OneMore

\* One pass: what a target's count and repair become.
LEMMA OnePass ==
  ASSUME NEW m, m.count \in [Target -> 0..Threshold], m.missing \subseteq Target,
         NEW list \in SUBSET Target, NEW targets \in SUBSET Target
  PROVE  LET n == Counted(m, list, targets) IN
         /\ n.seen = "this"
         /\ n.count \in [Target -> 0..Threshold]
         /\ n.missing \subseteq Target
         /\ \A t \in Target : n.count[t] = Misses(m, t, list, targets)
         /\ \A t \in Target : t \in n.missing <=>
              \/ t \notin targets /\ t \in m.missing
              \/ t \in targets \cap list /\ t \in m.missing /\ ~(m.count[t] > 0)
              \/ t \in targets \ list /\ Misses(m, t, list, targets) >= Threshold
<1> DEFINE counts == [t \in Target |-> Misses(m, t, list, targets)]
           gone == targets \ list
           back == {t \in targets \cap list : m.count[t] > 0}
           lost == {t \in gone : counts[t] >= Threshold}
           n == Counted(m, list, targets)
<1>1. n = [seen |-> "this", count |-> counts,
           missing |-> (m.missing \ (back \cup gone)) \cup lost]
  BY DEF Counted, Gone
<1>2. counts \in [Target -> 0..Threshold]
  BY MissesType
<1>3. \A t \in Target : counts[t] = Misses(m, t, list, targets)
  OBVIOUS
<1> HIDE DEF counts
<1>4. n.missing = (m.missing \ (back \cup gone)) \cup lost /\ n.count = counts
  BY <1>1
<1>5. \A t \in Target : t \in n.missing <=>
              \/ t \notin targets /\ t \in m.missing
              \/ t \in targets \cap list /\ t \in m.missing /\ ~(m.count[t] > 0)
              \/ t \in targets \ list /\ Misses(m, t, list, targets) >= Threshold
  BY <1>3, <1>4
<1>6. n.missing \subseteq Target
  BY <1>4
<1> QED
  BY <1>1, <1>2, <1>3, <1>4, <1>5, <1>6

\* The other passes add nothing to the first.
LEMMA AllPasses ==
  ASSUME NEW m, m.count \in [Target -> 0..Threshold], m.missing \subseteq Target,
         NEW list \in SUBSET Target, NEW targets \in SUBSET Target
  PROVE  LET n == CountedByAll(m, list, targets) IN
         /\ n.seen = "this"
         /\ n.count \in [Target -> 0..Threshold]
         /\ n.missing \subseteq Target
         /\ \A t \in Target : n.count[t] = Misses(m, t, list, targets)
         /\ \A t \in Target : t \in n.missing <=>
              \/ t \notin targets /\ t \in m.missing
              \/ t \in targets \cap list /\ t \in m.missing /\ ~(m.count[t] > 0)
              \/ t \in targets \ list /\ Misses(m, t, list, targets) >= Threshold
<1> DEFINE o == Counted(m, list, targets)
           n == Counted(o, list, targets)
<1>1. /\ o.seen = "this"
      /\ o.count \in [Target -> 0..Threshold]
      /\ o.missing \subseteq Target
      /\ \A t \in Target : o.count[t] = Misses(m, t, list, targets)
      /\ \A t \in Target : t \in o.missing <=>
              \/ t \notin targets /\ t \in m.missing
              \/ t \in targets \cap list /\ t \in m.missing /\ ~(m.count[t] > 0)
              \/ t \in targets \ list /\ Misses(m, t, list, targets) >= Threshold
  BY OnePass
<1> HIDE DEF o
<1>2. /\ n.seen = "this"
      /\ n.count \in [Target -> 0..Threshold]
      /\ n.missing \subseteq Target
      /\ \A t \in Target : n.count[t] = Misses(o, t, list, targets)
      /\ \A t \in Target : t \in n.missing <=>
              \/ t \notin targets /\ t \in o.missing
              \/ t \in targets \cap list /\ t \in o.missing /\ ~(o.count[t] > 0)
              \/ t \in targets \ list /\ Misses(o, t, list, targets) >= Threshold
  BY <1>1, OnePass
<1>3. CountedByAll(m, list, targets) = n
  BY DEF CountedByAll, o
<1> HIDE DEF n
<1>4. \A t \in Target : Misses(o, t, list, targets) = Misses(m, t, list, targets)
  BY <1>1 DEF Misses
<1>5. \A t \in targets \cap list : ~(o.count[t] > 0)
  BY <1>1 DEF Misses
<1>6. \A t \in Target : t \in n.missing <=>
              \/ t \notin targets /\ t \in m.missing
              \/ t \in targets \cap list /\ t \in m.missing /\ ~(m.count[t] > 0)
              \/ t \in targets \ list /\ Misses(m, t, list, targets) >= Threshold
  BY <1>1, <1>2, <1>4, <1>5
<1> QED
  BY <1>2, <1>3, <1>4, <1>6

-----------------------------------------------------------------------------
(* The listeners.                                                          *)

\* What has become true when the listeners have run.
Heard(list, id, avail, stuck) ==
  /\ known' \subseteq Target /\ passed' \subseteq known'
  /\ buttons' \subseteq passed' \cap registered' /\ registered' \subseteq Target
  /\ fresh' \in BOOLEAN
  /\ count' \in [Target -> 0..Threshold] /\ missed' \in [Target -> 0..Threshold]
  /\ \A t \in Target \ known' : count'[t] = 0 /\ missed'[t] = 0
  /\ missing' \subseteq Target
  /\ inherited' \subseteq missing' /\ dropped' \subseteq passed'
  /\ mode # "on" => known' = {}
  /\ CountsFit'
  /\ seen' # "this" => fresh'
  /\ ~ondemand' => (fresh' => seen' # "this")
  /\ seen' = IF mode = "on" /\ avail THEN "this" ELSE id
  /\ passed' \subseteq buttons' \cup dropped'
  /\ mode = "on" => \A t \in list :
       IF t \in stuck THEN t \notin registered' ELSE t \in buttons' \cup dropped'
  /\ \A t \in missing \ missing' : t \in list \/ (t \in inherited /\ t \in known)

LEMMA ListenStep ==
  ASSUME TypeOK, SeenFits, CountsFit, ButtonsFit,
         UNCHANGED <<mode, ondemand>>,
         NEW list \in SUBSET Target, NEW id \in {"none", "this", "other"},
         NEW avail \in BOOLEAN, NEW stuck \in SUBSET MyDrive,
         id # "this" => fresh,
         ~ondemand => (fresh => id # "this"),
         Listen(list, id, avail, stuck)
  PROVE  Heard(list, id, avail, stuck)
<1> DEFINE offered == {t \in list : Supported(t, stuck)}
           added == IF mode = "on" THEN offered \ passed ELSE {}
           refused == list \ offered
           targets == known \cup list
           counting == mode = "on" /\ avail
           m == [seen |-> id, count |-> count, missing |-> missing]
           n == IF counting THEN CountedByAll(m, list, targets) ELSE m
<1>1. /\ registered' = (registered \ refused) \cup added
      /\ buttons' = (buttons \ refused) \cup added
      /\ passed' = passed \cup added
      /\ dropped' = dropped \cup (buttons \cap refused)
      /\ known' = IF mode = "on" THEN targets ELSE known
      /\ seen' = n.seen /\ count' = n.count /\ missing' = n.missing
      /\ inherited' = inherited \cap n.missing
      /\ missed' = [t \in Target |->
           IF counting /\ t \in targets
           THEN IF t \in list THEN 0
                ELSE IF fresh THEN OneMore(missed[t]) ELSE missed[t]
           ELSE missed[t]]
      /\ fresh' = (fresh /\ ~counting)
  BY DEF Listen, RegisteredWithout
<1>2. /\ m.count \in [Target -> 0..Threshold] /\ m.missing \subseteq Target
      /\ m.count = count /\ m.missing = missing /\ m.seen = id
      /\ targets \in SUBSET Target /\ offered \subseteq list /\ refused \subseteq list
  BY DEF TypeOK
<1>3. /\ mode \in {"down", "on", "off"} /\ known \subseteq Target /\ passed \subseteq known
      /\ buttons \subseteq passed \cap registered /\ registered \subseteq Target
      /\ count \in [Target -> 0..Threshold] /\ missed \in [Target -> 0..Threshold]
      /\ \A t \in Target \ known : count[t] = 0 /\ missed[t] = 0
      /\ missing \subseteq Target /\ fresh \in BOOLEAN
      /\ inherited \subseteq missing /\ dropped \subseteq passed
      /\ mode # "on" => known = {}
      /\ Threshold \in Nat \ {0}
  BY TargetAssumption DEF TypeOK
<1>4. /\ known' \subseteq Target /\ passed' \subseteq known'
      /\ buttons' \subseteq passed' \cap registered' /\ registered' \subseteq Target
      /\ dropped' \subseteq passed' /\ (mode # "on" => known' = {})
      /\ passed' \subseteq buttons' \cup dropped'
      /\ known \subseteq known'
  BY <1>1, <1>2, <1>3 DEF ButtonsFit
<1>5. mode = "on" => \A t \in list :
         IF t \in stuck THEN t \notin registered' ELSE t \in buttons' \cup dropped'
  <2> SUFFICES ASSUME mode = "on", NEW t \in list
               PROVE  IF t \in stuck THEN t \notin registered' ELSE t \in buttons' \cup dropped'
    OBVIOUS
  <2>1. CASE t \in stuck
    BY <1>1, <2>1 DEF Supported
  <2>2. CASE t \notin stuck
    BY <1>1, <2>2 DEF Supported, ButtonsFit
  <2> QED
    BY <2>1, <2>2
<1>6. fresh' \in BOOLEAN /\ fresh' = (fresh /\ ~counting)
  BY <1>1, <1>3
<1>7. \A t \in Target : missed'[t] =
        IF counting /\ t \in targets
        THEN IF t \in list THEN 0 ELSE IF fresh THEN OneMore(missed[t]) ELSE missed[t]
        ELSE missed[t]
  BY <1>1
<1>8. missed' \in [Target -> 0..Threshold]
  BY <1>1, <1>3 DEF OneMore
<1>9. CASE counting
  <2>1. /\ seen' = "this" /\ count' \in [Target -> 0..Threshold]
        /\ missing' \subseteq Target
        /\ \A t \in Target : count'[t] = Misses(m, t, list, targets)
        /\ \A t \in Target : t \in missing' <=>
              \/ t \notin targets /\ t \in missing
              \/ t \in targets \cap list /\ t \in missing /\ ~(count[t] > 0)
              \/ t \in targets \ list /\ Misses(m, t, list, targets) >= Threshold
    <3>1. n = CountedByAll(m, list, targets)
      BY <1>9
    <3>2. seen' = n.seen /\ count' = n.count /\ missing' = n.missing
      BY <1>1
    <3> HIDE DEF n, m, targets
    <3>3. LET k == CountedByAll(m, list, targets) IN
          /\ k.seen = "this"
          /\ k.count \in [Target -> 0..Threshold]
          /\ k.missing \subseteq Target
          /\ \A t \in Target : k.count[t] = Misses(m, t, list, targets)
          /\ \A t \in Target : t \in k.missing <=>
              \/ t \notin targets /\ t \in m.missing
              \/ t \in targets \cap list /\ t \in m.missing /\ ~(m.count[t] > 0)
              \/ t \in targets \ list /\ Misses(m, t, list, targets) >= Threshold
      BY <1>2, AllPasses
    <3> QED
      BY <1>2, <3>1, <3>2, <3>3
  <2>2. \A t \in Target : count'[t] =
          IF t \notin targets THEN count[t]
          ELSE IF t \in list THEN 0
          ELSE IF id # "this" THEN OneMore(count[t]) ELSE count[t]
    BY <2>1 DEF Misses
  <2>3. known' = targets /\ ~fresh'
    BY <1>1, <1>9
  <2> HIDE DEF n, m, offered, added, refused
  <2>4. \A t \in Target \ known' : count'[t] = 0 /\ missed'[t] = 0
    BY <1>3, <1>7, <2>2, <2>3
  <2>5. inherited' \subseteq missing' /\ inherited' = inherited \cap missing'
    BY <1>1
  <2>6. \A t \in Target : count'[t] <= missed'[t]
    BY <1>3, <1>7, <1>9, <2>2 DEF CountsFit, OneMore
  <2>7. ~ondemand' => count' = missed'
    <3> SUFFICES ASSUME ~ondemand, NEW t \in Target
                 PROVE  count'[t] = missed'[t]
      BY <1>8, <2>1
    <3> QED
      BY <1>3, <1>7, <1>9, <2>2 DEF CountsFit
  <2>8. \A t \in Target : count'[t] = Threshold => t \in missing'
    <3> SUFFICES ASSUME NEW t \in Target, count'[t] = Threshold
                 PROVE  t \in missing'
      OBVIOUS
    <3>1. CASE t \notin targets
      BY <2>1, <2>2, <3>1 DEF CountsFit
    <3>2. CASE t \in targets \ list
      BY <1>3, <2>1, <3>2
    <3>3. t \notin targets \cap list
      BY <1>3, <2>2
    <3> QED
      BY <3>1, <3>2, <3>3
  <2>9. \A t \in missing' : count'[t] = Threshold \/ t \in inherited'
    <3> SUFFICES ASSUME NEW t \in Target, t \in missing', t \notin inherited
                 PROVE  count'[t] = Threshold
      BY <2>1, <2>5
    <3>1. count'[t] \in 0..Threshold /\ count[t] \in 0..Threshold
      BY <1>3, <2>1
    <3>2. t \in missing => count[t] = Threshold
      BY DEF CountsFit
    <3>3. CASE t \notin targets
      BY <2>1, <2>2, <3>2, <3>3
    <3>4. CASE t \in targets \ list
      <4>1. count'[t] = Misses(m, t, list, targets)
        BY <2>1
      <4>2. Misses(m, t, list, targets) >= Threshold
        BY <2>1, <3>4
      <4> QED
        BY <1>3, <3>1, <4>1, <4>2
    <3>5. t \notin targets \cap list
      BY <1>3, <2>1, <3>2
    <3> QED
      BY <3>3, <3>4, <3>5
  <2>10. \A t \in missing \ missing' : t \in list \/ (t \in inherited /\ t \in known)
    <3> SUFFICES ASSUME NEW t \in missing \ missing', t \notin list
                 PROVE  t \in inherited /\ t \in known
      OBVIOUS
    <3>1. t \in targets /\ t \in Target /\ Misses(m, t, list, targets) < Threshold
      BY <1>3, <2>1
    <3>2. count'[t] # Threshold
      BY <1>3, <2>1, <3>1
    <3>3. count[t] # Threshold
      BY <1>3, <2>2, <3>1, <3>2 DEF OneMore
    <3> QED
      BY <3>1, <3>3 DEF CountsFit
  <2>11. CountsFit'
    BY <2>6, <2>7, <2>8, <2>9 DEF CountsFit
  <2> QED
    BY <1>1, <1>4, <1>5, <1>6, <1>8, <1>9, <2>1, <2>3, <2>4, <2>5, <2>10, <2>11 DEF Heard
<1>10. CASE ~counting
  <2>1. n = m
    BY <1>10
  <2>2. /\ seen' = id /\ count' = count /\ missing' = missing /\ inherited' = inherited
        /\ fresh' = fresh
    BY <1>1, <1>2, <1>3, <1>6, <1>10, <2>1
  <2>3. missed' = missed
    BY <1>3, <1>7, <1>8, <1>10
  <2> HIDE DEF n, m, offered, added, refused
  <2>4. CountsFit'
    BY <2>2, <2>3 DEF CountsFit
  <2> QED
    BY <1>3, <1>4, <1>5, <1>6, <1>10, <2>2, <2>3, <2>4 DEF Heard
<1> QED
  BY <1>9, <1>10

-----------------------------------------------------------------------------
(* The actions.                                                            *)

\* No repair goes that RepairsStay keeps.
Stays == \A t \in missing \ missing' : t \in settings \/ (t \in inherited /\ t \in known)

LEMMA IssueTypes ==
  ASSUME issues \subseteq Issue, NEW cap \in Capability, NEW kind \in Kind
  PROVE  Raised(cap, kind) \subseteq Issue /\ Cleared(cap) \subseteq Issue
BY DEF Raised, Cleared, Issue

LEMMA Capabilities ==
  /\ <<"read">> \in Capability
  /\ \A a \in Action, t \in Target : <<a, TypeOf(t)>> \in Capability
  /\ \A outcome : KindOf(outcome) \in Kind
BY DEF Capability, TypeOf, Type, KindOf, Kind

\* What reading the list, or acting, makes of the issues.
LEMMA ReadIssuesAre ==
  ASSUME NEW outcome
  PROVE  ReadIssues(outcome) \in
           {issues, Cleared(<<"read">>), Raised(<<"read">>, KindOf(outcome))}
BY DEF ReadIssues

LEMMA ActionIssuesAre ==
  ASSUME NEW cap, NEW outcome
  PROVE  ActionIssues(cap, outcome) \in
           {issues, Cleared(cap), Raised(cap, KindOf(outcome))}
BY DEF ActionIssues

LEMMA NoneIsLeft ==
  ASSUME issues \subseteq Issue
  PROVE  AllCleared = {}
BY DEF AllCleared, Issue

LEMMA CallTypes ==
  /\ NoCall \in Call
  /\ NoCall.kind = "none" /\ NoCall.step = "read" /\ ~NoCall.ended
  /\ FirstStep \in {"read", "told"}
BY DEF NoCall, Call, Action, FirstStep

\* The list, the calls and the repairs left alone.
LEMMA PlatformsUnchanged ==
  ASSUME IInv, UNCHANGED <<mode, settings, available, sticky, platformVars,
                           historyVars, ondemand>>,
         issues' \subseteq Issue, call' \in [Caller -> Call],
         \A c \in Caller : call[c].step = "inventory" => call'[c] = call[c],
         unreadable' \in BOOLEAN,
         \A c \in Caller : call'[c].step = "write" => call'[c].target \in Target,
         CallsFit'
  PROVE  IInv' /\ Stays
<1> USE DEF IInv, TypeOK, platformVars, controlVars, historyVars
<1>1. TypeOK'
  OBVIOUS
<1>2. SeenFits'
  BY DEF SeenFits
<1>3. CountsFit' /\ ButtonsFit'
  BY DEF CountsFit, ButtonsFit
<1> QED
  BY <1>1, <1>2, <1>3 DEF Stays

LEMMA HeardTypes ==
  ASSUME TypeOK, NEW list, NEW id \in {"none", "this", "other"}, NEW avail, NEW stuck,
         Heard(list, id, avail, stuck), UNCHANGED <<mode, ondemand>>,
         settings' \subseteq Target, available' \in BOOLEAN, unreadable' \in BOOLEAN,
         sticky' \subseteq MyDrive, issues' \subseteq Issue, call' \in [Caller -> Call],
         \A c \in Caller : call'[c].step = "write" => call'[c].target \in Target
  PROVE  TypeOK'
<1>1. seen' \in {"none", "this", "other"}
  BY DEF Heard
<1>2. mode' \in {"down", "on", "off"} /\ ondemand' \in BOOLEAN
  BY DEF TypeOK
<1>3. mode' # "on" => known' = {}
  BY DEF Heard
<1> QED
  BY <1>1, <1>2, <1>3 DEF TypeOK, Heard

LEMMA PublishKeeps ==
  ASSUME IInv, Publish
  PROVE  IInv' /\ Stays
<1>1. /\ UNCHANGED <<mode, settings, available, unreadable, sticky, issues, call, ondemand>>
      /\ Listen(settings, seen, available, sticky)
  BY DEF Publish, listVars
<1>2. Heard(settings, seen, available, sticky)
  <2>1. TypeOK /\ SeenFits /\ CountsFit /\ ButtonsFit
    BY DEF IInv
  <2>2. /\ settings \in SUBSET Target /\ seen \in {"none", "this", "other"}
        /\ available \in BOOLEAN /\ sticky \in SUBSET MyDrive
        /\ seen # "this" => fresh
        /\ ~ondemand => (fresh => seen # "this")
        /\ UNCHANGED <<mode, ondemand>>
    BY <1>1, <2>1 DEF TypeOK, SeenFits
  <2> QED
    BY <1>1, <2>1, <2>2, ListenStep
<1>3. TypeOK'
  BY <1>1, <1>2 DEF IInv, TypeOK, Heard
<1>4. CallsFit'
  BY <1>1 DEF IInv, CallsFit, LivePoll
<1>5. SeenFits'
  BY <1>1, <1>2 DEF IInv, SeenFits, CallsFit, Heard
<1>6. ButtonsFit'
  BY <1>1, <1>2 DEF ButtonsFit, Heard
<1> QED
  BY <1>2, <1>3, <1>4, <1>5, <1>6 DEF IInv, Stays, Heard

LEMMA PollOffKeeps ==
  ASSUME IInv, PollOff
  PROVE  IInv' /\ Stays
<1>1. PICK id \in SeenNow : Listen({}, id, FALSE, {})
  BY DEF PollOff
<1>2. /\ mode = "off" /\ UNCHANGED <<mode, unreadable, call, ondemand>>
      /\ settings' = {} /\ available' = FALSE /\ sticky' = {} /\ issues' = {}
  BY NoneIsLeft DEF PollOff, IInv, TypeOK
<1>3. seen = "none" /\ id = "none" /\ fresh
  BY <1>1, <1>2 DEF IInv, SeenFits, SeenNow
<1>4. Heard({}, id, FALSE, {})
  <2>1. TypeOK /\ SeenFits /\ CountsFit /\ ButtonsFit
    BY DEF IInv
  <2>2. /\ {} \in SUBSET Target /\ id \in {"none", "this", "other"}
        /\ FALSE \in BOOLEAN /\ {} \in SUBSET MyDrive
        /\ id # "this" => fresh
        /\ ~ondemand => (fresh => id # "this")
        /\ UNCHANGED <<mode, ondemand>>
    BY <1>2, <1>3
  <2> QED
    BY <1>1, <2>1, <2>2, ListenStep
<1>5. TypeOK'
  <2>1. /\ settings' \subseteq Target /\ available' \in BOOLEAN /\ unreadable' \in BOOLEAN
        /\ sticky' \subseteq MyDrive /\ issues' \subseteq Issue /\ call' \in [Caller -> Call]
        /\ \A c \in Caller : call'[c].step = "write" => call'[c].target \in Target
    BY <1>2 DEF IInv, TypeOK
  <2> QED
    BY <1>2, <1>3, <1>4, <2>1, HeardTypes DEF IInv
<1>6. CallsFit'
  BY <1>2 DEF IInv, CallsFit, LivePoll
<1>7. SeenFits'
  BY <1>2, <1>3, <1>4 DEF SeenFits, Heard
<1>8. ButtonsFit'
  BY <1>2, <1>4 DEF ButtonsFit, Heard
<1> QED
  BY <1>2, <1>4, <1>5, <1>6, <1>7, <1>8 DEF IInv, Stays, Heard

LEMMA StartPollKeeps ==
  ASSUME IInv, NEW c \in Caller, StartPoll(c)
  PROVE  IInv' /\ Stays
<1> DEFINE new == [NoCall EXCEPT !.kind = "poll", !.step = FirstStep]
<1>1. /\ call[c] = NoCall /\ mode = "on"
      /\ \A d \in Caller : call[d].kind = "poll" => call[d].ended
      /\ call' = [call EXCEPT ![c] = new]
      /\ UNCHANGED <<mode, settings, available, unreadable, sticky, platformVars,
                     issues, historyVars, ondemand>>
  BY DEF StartPoll, Free, listVars
<1>2. new \in Call /\ new.kind = "poll" /\ new.step \in {"read", "told"}
  BY CallTypes DEF NoCall, Call, Action
<1> HIDE DEF new
<1>3. call \in [Caller -> Call] /\ call[c].step = "read"
  BY <1>1, CallTypes DEF IInv, TypeOK
<1>4. \A d \in Caller : call'[d] = IF d = c THEN new ELSE call[d]
  BY <1>1, <1>3
<1>5. CallsFit'
  BY <1>1, <1>2, <1>4 DEF IInv, CallsFit, LivePoll
<1>6. call' \in [Caller -> Call]
  BY <1>1, <1>2, <1>3
<1>7. \A d \in Caller : /\ call[d].step = "inventory" => call'[d] = call[d]
                        /\ call'[d].step = "write" => call'[d].target \in Target
  BY <1>2, <1>3, <1>4 DEF IInv, TypeOK
<1> QED
  BY <1>1, <1>5, <1>6, <1>7, PlatformsUnchanged DEF IInv, TypeOK

\* A call that was live is now over or has taken a step; no other changes.
LEMMA CallMoves ==
  ASSUME IInv, NEW c \in Caller, NEW new \in Call,
         call' = [call EXCEPT ![c] = new],
         new.step = "write" => new.target \in Target,
         new.kind = "poll" => new.step # "write" /\ (~new.ended => LivePoll(c)),
         new.step = "inventory" => new.kind = "poll" /\ ~new.ended /\ available',
         mode' = mode, LivePoll(c) \/ available' = available
  PROVE  /\ CallsFit' /\ call' \in [Caller -> Call]
         /\ \A d \in Caller : call'[d].step = "write" => call'[d].target \in Target
         /\ \A d \in Caller : d # c => call'[d] = call[d]
<1>1. call \in [Caller -> Call]
  BY DEF IInv, TypeOK
<1>2. \A d \in Caller : call'[d] = IF d = c THEN new ELSE call[d]
  BY <1>1
<1>3. call' \in [Caller -> Call]
  BY <1>1
<1>4. \A d \in Caller : call'[d].step = "write" => call'[d].target \in Target
  BY <1>2 DEF IInv, TypeOK
<1>5. \A d \in Caller : LivePoll(d)' => LivePoll(d)
  BY <1>2 DEF LivePoll
<1>6. \A d \in Caller : call'[d].kind = "poll" => call'[d].step # "write"
  BY <1>2 DEF IInv, CallsFit
<1>7. \A d \in Caller : call'[d].step = "inventory" => LivePoll(d)' /\ available'
  BY <1>2 DEF IInv, CallsFit, LivePoll
<1> QED
  BY <1>2, <1>3, <1>4, <1>5, <1>6, <1>7 DEF IInv, CallsFit

LEMMA PollListedKeeps ==
  ASSUME IInv, NEW c \in Caller, PollListed(c)
  PROVE  IInv' /\ Stays
<1> DEFINE new == IF call[c].ended THEN NoCall ELSE [call[c] EXCEPT !.step = "inventory"]
<1>1. /\ call[c].kind = "poll" /\ call[c].step = "read"
      /\ issues' = Cleared(<<"read">>)
      /\ call' = [call EXCEPT ![c] = new]
      /\ UNCHANGED <<mode, controlVars, count, missing, missed, inherited, dropped, ondemand>>
  <2>1. call \in [Caller -> Call]
    BY DEF IInv, TypeOK
  <2> QED
    BY <2>1 DEF PollListed, ReadIssues
<1>2. call[c] \in Call /\ issues' \subseteq Issue
  BY <1>1, IssueTypes, Capabilities DEF IInv, TypeOK, Kind
<1>3. /\ new \in Call /\ new.step # "write"
      /\ new.kind = "poll" => ~call[c].ended
      /\ new.step = "inventory" => ~call[c].ended /\ new.kind = "poll" /\ ~new.ended
  BY <1>1, <1>2, CallTypes DEF Call
<1>4. CASE call[c].ended
  <2>1. UNCHANGED <<settings, available, unreadable, sticky, fresh, seen>>
    BY <1>4 DEF PollListed, listVars
  <2>2. new = NoCall
    BY <1>4
  <2> HIDE DEF new
  <2>3. /\ CallsFit' /\ call' \in [Caller -> Call]
        /\ \A d \in Caller : call'[d].step = "write" => call'[d].target \in Target
        /\ \A d \in Caller : d # c => call'[d] = call[d]
    BY <1>1, <1>3, <1>4, <2>1, <2>2, CallTypes, CallMoves DEF LivePoll
  <2> QED
    BY <1>1, <1>2, <2>1, <2>3, PlatformsUnchanged
       DEF IInv, TypeOK, platformVars, controlVars, historyVars
<1>5. CASE ~call[c].ended
  <2>1. /\ settings' \subseteq Target /\ seen' \in SeenNow
        /\ available' = TRUE /\ unreadable' = FALSE /\ fresh' = TRUE
        /\ sticky' = sticky \cap settings'
    BY <1>5 DEF PollListed
  <2>2. LivePoll(c)
    BY <1>1, <1>5 DEF LivePoll
  <2>3. \A d \in Caller : call[d].step = "inventory" => FALSE
    BY <1>1, <2>2 DEF IInv, CallsFit
  <2>4. new = [call[c] EXCEPT !.step = "inventory"] /\ new.step = "inventory"
    BY <1>2, <1>5 DEF Call
  <2> HIDE DEF new
  <2>5. /\ CallsFit' /\ call' \in [Caller -> Call]
        /\ \A d \in Caller : call'[d].step = "write" => call'[d].target \in Target
    BY <1>1, <1>3, <1>5, <2>1, <2>2, <2>4, CallMoves
  <2>6. call'[c].step = "inventory"
    BY <1>1, <2>4 DEF IInv, TypeOK
  <2>7. TypeOK'
    BY <1>1, <1>2, <2>1, <2>5 DEF IInv, TypeOK, controlVars, SeenNow
  <2>8. SeenFits'
    BY <1>1, <2>1, <2>2, <2>3, <2>6 DEF IInv, SeenFits, SeenNow, CallsFit
  <2>9. CountsFit' /\ ButtonsFit'
    BY <1>1, <2>1 DEF IInv, CountsFit, ButtonsFit, controlVars
  <2> QED
    BY <1>1, <2>5, <2>7, <2>8, <2>9 DEF IInv, Stays
<1> QED
  BY <1>4, <1>5

LEMMA PollFailedKeeps ==
  ASSUME IInv, NEW c \in Caller, PollFailed(c)
  PROVE  IInv' /\ Stays
<1>1. /\ call[c].kind = "poll" /\ call[c].step \in {"read", "told"}
      /\ call' = [call EXCEPT ![c] = NoCall]
      /\ UNCHANGED <<mode, settings, sticky, ondemand>>
  BY DEF PollFailed, Reading
<1>2. issues' \subseteq Issue /\ unreadable' \in BOOLEAN
  <2>1. unreadable' \in BOOLEAN /\ \E outcome : issues' = ReadIssues(outcome)
    BY DEF PollFailed, IInv, TypeOK
  <2> QED
    BY <2>1, ReadIssuesAre, IssueTypes, Capabilities DEF IInv, TypeOK
<1>3. NoCall \in Call /\ NoCall.kind = "none" /\ NoCall.step = "read"
  BY CallTypes
<1>4. CASE call[c].ended
  <2>1. UNCHANGED <<available, platformVars, historyVars>>
    BY <1>4 DEF PollFailed
  <2>2. /\ CallsFit' /\ call' \in [Caller -> Call]
        /\ \A d \in Caller : call'[d].step = "write" => call'[d].target \in Target
        /\ \A d \in Caller : d # c => call'[d] = call[d]
    BY <1>1, <1>3, <2>1, CallMoves
  <2> QED
    BY <1>1, <1>2, <2>1, <2>2, PlatformsUnchanged
<1>5. CASE ~call[c].ended
  <2>1. available' = FALSE /\ Listen(settings, seen, FALSE, sticky)
    BY <1>5 DEF PollFailed
  <2>2. LivePoll(c)
    BY <1>1, <1>5 DEF LivePoll
  <2>3. \A d \in Caller : call[d].step = "inventory" => FALSE
    BY <1>1, <2>2 DEF IInv, CallsFit
  <2>4. Heard(settings, seen, FALSE, sticky)
    <3>1. TypeOK /\ SeenFits /\ CountsFit /\ ButtonsFit
      BY DEF IInv
    <3>2. /\ settings \in SUBSET Target /\ seen \in {"none", "this", "other"}
          /\ FALSE \in BOOLEAN /\ sticky \in SUBSET MyDrive
          /\ seen # "this" => fresh
          /\ ~ondemand => (fresh => seen # "this")
          /\ UNCHANGED <<mode, ondemand>>
      BY <1>1, <3>1 DEF TypeOK, SeenFits
    <3> QED
      BY <2>1, <3>1, <3>2, ListenStep
  <2>5. /\ CallsFit' /\ call' \in [Caller -> Call]
        /\ \A d \in Caller : call'[d].step = "write" => call'[d].target \in Target
    BY <1>1, <1>3, <2>2, CallMoves
  <2>6. TypeOK'
    <3>1. TypeOK /\ seen \in {"none", "this", "other"} /\ UNCHANGED <<mode, ondemand>>
      BY <1>1 DEF IInv, TypeOK
    <3>2. settings' \subseteq Target /\ available' \in BOOLEAN /\ sticky' \subseteq MyDrive
      BY <1>1, <2>1 DEF IInv, TypeOK
    <3> QED
      BY <1>2, <2>4, <2>5, <3>1, <3>2, HeardTypes
  <2>7. seen' = seen
    BY <2>4 DEF Heard
  <2>8. SeenFits'
    BY <1>1, <2>3, <2>4, <2>7 DEF IInv, SeenFits, Heard
  <2>9. ButtonsFit'
    BY <1>1, <2>4 DEF ButtonsFit, Heard
  <2> QED
    BY <1>1, <2>4, <2>5, <2>6, <2>8, <2>9 DEF IInv, Stays, Heard
<1> QED
  BY <1>4, <1>5, CallTypes DEF IInv, TypeOK, Call

LEMMA PollInventoryKeeps ==
  ASSUME IInv, NEW c \in Caller, PollInventory(c)
  PROVE  IInv' /\ Stays
<1>1. /\ call[c].step = "inventory" /\ call' = [call EXCEPT ![c] = NoCall]
      /\ UNCHANGED <<mode, settings, available, unreadable, issues, ondemand>>
      /\ Listen(settings, seen, available, sticky')
  BY DEF PollInventory, listVars
<1>2. sticky' \subseteq MyDrive
  BY DEF PollInventory, IInv, TypeOK
<1>3. NoCall \in Call /\ NoCall.kind = "none" /\ NoCall.step = "read"
  BY CallTypes
<1>4. LivePoll(c) /\ available /\ mode = "on"
  BY <1>1 DEF IInv, CallsFit
<1>5. Heard(settings, seen, available, sticky')
  <2>1. TypeOK /\ SeenFits /\ CountsFit /\ ButtonsFit
    BY DEF IInv
  <2>2. /\ settings \in SUBSET Target /\ seen \in {"none", "this", "other"}
        /\ available \in BOOLEAN /\ sticky' \in SUBSET MyDrive
        /\ seen # "this" => fresh
        /\ ~ondemand => (fresh => seen # "this")
        /\ UNCHANGED <<mode, ondemand>>
    BY <1>1, <1>2, <2>1 DEF TypeOK, SeenFits
  <2> QED
    BY <1>1, <2>1, <2>2, ListenStep
<1>6. /\ CallsFit' /\ call' \in [Caller -> Call]
      /\ \A d \in Caller : call'[d].step = "write" => call'[d].target \in Target
  BY <1>1, <1>3, <1>4, CallMoves
<1>7. TypeOK'
  <2>1. TypeOK /\ seen \in {"none", "this", "other"} /\ UNCHANGED <<mode, ondemand>>
    BY <1>1 DEF IInv, TypeOK
  <2>2. /\ settings' \subseteq Target /\ available' \in BOOLEAN /\ unreadable' \in BOOLEAN
        /\ issues' \subseteq Issue
    BY <1>1 DEF IInv, TypeOK
  <2> QED
    BY <1>2, <1>5, <1>6, <2>1, <2>2, HeardTypes
<1>8. seen' = "this"
  BY <1>4, <1>5 DEF Heard
<1>9. SeenFits'
  BY <1>1, <1>4, <1>5, <1>8 DEF SeenFits, Heard
<1>10. ButtonsFit'
  BY <1>1, <1>5 DEF ButtonsFit, Heard
<1> QED
  BY <1>5, <1>6, <1>7, <1>9, <1>10 DEF IInv, Stays, Heard

\* A press and a service call begin, and a call ends with an answer: none of
\* them touches what the platforms keep.
LEMMA BeginKeeps ==
  ASSUME IInv, NEW c \in Caller, NEW t \in Target, NEW a \in Action, Begin(c, t, a)
  PROVE  IInv' /\ Stays
<1>1. /\ call[c] = NoCall
      /\ UNCHANGED <<mode, settings, available, unreadable, sticky, platformVars,
                     issues, historyVars, ondemand>>
  BY DEF Begin, Free, listVars
<1> DEFINE new == [NoCall EXCEPT
            !.kind = "action", !.step = "write", !.target = t, !.action = a]
<1>2. new \in Call /\ new.kind = "action" /\ new.step = "write" /\ new.target \in Target
  BY DEF NoCall, Call
<1>3. call' = [call EXCEPT ![c] = new]
  BY DEF Begin
<1> HIDE DEF new
<1>4. /\ CallsFit' /\ call' \in [Caller -> Call]
      /\ \A d \in Caller : call'[d].step = "write" => call'[d].target \in Target
      /\ \A d \in Caller : d # c => call'[d] = call[d]
  BY <1>1, <1>2, <1>3, CallMoves
<1>5. call[c].step = "read"
  BY <1>1, CallTypes
<1> QED
  BY <1>1, <1>4, <1>5, PlatformsUnchanged DEF IInv, TypeOK

LEMMA ServiceKeeps ==
  ASSUME IInv, NEW c \in Caller, NEW match \in SUBSET Target, NEW a \in Action,
         Service(c, match, a)
  PROVE  IInv' /\ Stays
<1>1. CASE \E t \in Selected(match, settings) : Begin(c, t, a)
  BY <1>1, BeginKeeps DEF Selected
<1>2. CASE ~\E t \in Selected(match, settings) : Begin(c, t, a)
  <2> DEFINE new == [NoCall EXCEPT
         !.kind = "action", !.step = FirstStep, !.match = match, !.action = a]
  <2>1. /\ call[c] = NoCall /\ call' = [call EXCEPT ![c] = new]
        /\ UNCHANGED <<mode, settings, available, unreadable, sticky, platformVars,
                       issues, historyVars, ondemand>>
    BY <1>2 DEF Service, Free, listVars
  <2>2. /\ new \in Call /\ new.kind = "action" /\ new.step # "inventory"
        /\ new.step # "write"
    BY CallTypes DEF NoCall, Call
  <2> HIDE DEF new
  <2>3. /\ CallsFit' /\ call' \in [Caller -> Call]
        /\ \A d \in Caller : call'[d].step = "write" => call'[d].target \in Target
        /\ \A d \in Caller : d # c => call'[d] = call[d]
    BY <2>1, <2>2, CallMoves
  <2>4. call[c].step = "read"
    BY <2>1, CallTypes
  <2> QED
    BY <2>1, <2>3, <2>4, PlatformsUnchanged DEF IInv, TypeOK
<1> QED
  BY <1>1, <1>2

\* A press, a change and a service call.
UserBegins(c) ==
  \/ \E t \in Target : Press(c, t) \/ Change(c, t)
  \/ \E match \in Matches : CreateService(c, match) \/ SettingsService(c, match)

LEMMA UserKeeps ==
  ASSUME IInv, NEW c \in Caller, UserBegins(c)
  PROVE  IInv' /\ Stays
<1>1. "create" \in Action /\ "settings" \in Action
  BY DEF Action
<1>2. ASSUME NEW t \in Target, Press(c, t) \/ Change(c, t)
      PROVE  IInv' /\ Stays
  <2>1. PICK a \in Action : Begin(c, t, a)
    BY <1>1, <1>2 DEF Press, Change
  <2> QED
    BY <2>1, BeginKeeps
<1>3. ASSUME NEW match \in Matches, CreateService(c, match) \/ SettingsService(c, match)
      PROVE  IInv' /\ Stays
  <2>1. PICK a \in Action : Service(c, match, a)
    BY <1>1, <1>3 DEF CreateService, SettingsService
  <2>2. match \in SUBSET Target
    BY DEF Matches
  <2> QED
    BY <2>1, <2>2, ServiceKeeps
<1> QED
  BY <1>2, <1>3 DEF UserBegins

\* A call that is no live poll ends with its answer.
LEMMA CallEnds ==
  ASSUME IInv, NEW c \in Caller, call[c].step # "inventory",
         call' = [call EXCEPT ![c] = NoCall], issues' \subseteq Issue,
         UNCHANGED <<mode, settings, available, unreadable, sticky, platformVars,
                     historyVars, ondemand>>
  PROVE  IInv' /\ Stays
<1>1. NoCall \in Call /\ NoCall.kind = "none" /\ NoCall.step = "read"
  BY CallTypes
<1>2. /\ CallsFit' /\ call' \in [Caller -> Call]
      /\ \A d \in Caller : call'[d].step = "write" => call'[d].target \in Target
      /\ \A d \in Caller : d # c => call'[d] = call[d]
  BY <1>1, CallMoves
<1> QED
  BY <1>2, PlatformsUnchanged DEF IInv, TypeOK

LEMMA ServiceFailedKeeps ==
  ASSUME IInv, NEW c \in Caller, ServiceFailed(c)
  PROVE  IInv' /\ Stays
<1>1. issues' \subseteq Issue
  <2>1. PICK outcome : issues' = ReadIssues(outcome)
    BY DEF ServiceFailed
  <2> QED
    BY <2>1, ReadIssuesAre, IssueTypes, Capabilities DEF IInv, TypeOK
<1>2. call[c].step # "inventory"
  BY DEF ServiceFailed, Reading
<1> QED
  BY <1>1, <1>2, CallEnds DEF ServiceFailed, listVars

LEMMA WrittenKeeps ==
  ASSUME IInv, NEW c \in Caller, Written(c)
  PROVE  IInv' /\ Stays
<1>1. call[c].step = "write" /\ call[c].target \in Target /\ call[c].action \in Action
  BY DEF Written, IInv, TypeOK, Call
<1> DEFINE cap == <<call[c].action, TypeOf(call[c].target)>>
<1>2. cap \in Capability
  BY <1>1, Capabilities
<1>3. PICK outcome \in {"done", "refused", "unsupported", "lost"} :
        issues' = ActionIssues(cap, outcome)
  BY DEF Written
<1> HIDE DEF cap
<1>4. issues' \subseteq Issue
  BY <1>2, <1>3, ActionIssuesAre, IssueTypes, Capabilities DEF IInv, TypeOK
<1> QED
  BY <1>1, <1>4, CallEnds DEF Written, listVars

LEMMA ServiceListedKeeps ==
  ASSUME IInv, NEW c \in Caller, ServiceListed(c)
  PROVE  IInv' /\ Stays
<1>1. /\ call[c].kind = "action" /\ call[c].step \in {"read", "told"}
      /\ UNCHANGED <<mode, available, sticky, controlVars, count, missing, missed,
                     inherited, dropped>>
  BY DEF ServiceListed, Reading
<1>2. PICK list \in SUBSET Target, absent \in BOOLEAN :
       /\ issues' = ReadIssues(IF absent THEN "absent" ELSE "listed")
       /\ IF call[c].ended THEN UNCHANGED <<settings, unreadable, seen, fresh, ondemand>>
          ELSE /\ settings' = list /\ unreadable' = absent /\ seen' \in SeenNow
               /\ fresh' = TRUE /\ ondemand' = TRUE
       /\ LET one == Selected(call[c].match, list) IN
          call' = [call EXCEPT ![c] =
            IF one = {} THEN NoCall
            ELSE [NoCall EXCEPT !.kind = "action", !.step = "write",
                    !.target = CHOOSE t \in one : TRUE, !.action = call[c].action]]
  BY DEF ServiceListed
<1>3. call \in [Caller -> Call] /\ call[c] \in Call
  BY DEF IInv, TypeOK
<1> DEFINE one == Selected(call[c].match, list)
           chosen == CHOOSE t \in one : TRUE
           new == IF one = {} THEN NoCall
                  ELSE [NoCall EXCEPT !.kind = "action", !.step = "write",
                          !.target = chosen, !.action = call[c].action]
<1>4. call' = [call EXCEPT ![c] = new]
  BY <1>2
<1>5. /\ new \in Call /\ new.kind # "poll" /\ new.step # "inventory"
      /\ new.step = "write" => new.target \in Target
  <2>1. one # {} => chosen \in Target
    BY DEF Selected
  <2> HIDE DEF one, chosen
  <2>2. CASE one = {}
    BY <2>2, CallTypes
  <2>3. CASE one # {}
    BY <1>3, <2>1, <2>3 DEF Call, NoCall
  <2> QED
    BY <2>2, <2>3
<1>6. issues' \subseteq Issue
  BY <1>2, ReadIssuesAre, IssueTypes, Capabilities DEF IInv, TypeOK
<1> HIDE DEF new
<1>7. /\ CallsFit' /\ call' \in [Caller -> Call]
      /\ \A d \in Caller : call'[d].step = "write" => call'[d].target \in Target
      /\ \A d \in Caller : d # c => call'[d] = call[d]
  BY <1>1, <1>4, <1>5, CallMoves
<1>8. CASE call[c].ended
  <2>1. UNCHANGED <<settings, unreadable, seen, fresh, ondemand>>
    BY <1>2, <1>8
  <2> QED
    BY <1>1, <1>6, <1>7, <2>1, PlatformsUnchanged
       DEF IInv, TypeOK, platformVars, historyVars
<1>9. CASE ~call[c].ended
  <2>1. /\ settings' \subseteq Target /\ unreadable' \in BOOLEAN /\ seen' \in SeenNow
        /\ fresh' = TRUE /\ ondemand' = TRUE
    BY <1>2, <1>9
  <2>2. TypeOK'
    BY <1>1, <1>6, <1>7, <2>1 DEF IInv, TypeOK, controlVars, SeenNow
  <2>3. SeenFits'
    BY <1>1, <2>1 DEF IInv, SeenFits, SeenNow
  <2>4. CountsFit' /\ ButtonsFit'
    BY <1>1, <2>1 DEF IInv, CountsFit, ButtonsFit, controlVars
  <2> QED
    BY <1>1, <1>7, <2>2, <2>3, <2>4 DEF IInv, Stays
<1> QED
  BY <1>8, <1>9

LEMMA LoadKeeps ==
  ASSUME IInv, Load
  PROVE  IInv' /\ Stays
<1>1. /\ mode = "down" /\ mode' \in {"on", "off"}
      /\ UNCHANGED <<settings, available, unreadable, sticky, platformVars, issues, call,
                     historyVars, ondemand>>
  BY DEF Load, listVars
<1>2. known = {} /\ seen = "none" /\ fresh
  BY <1>1 DEF IInv, TypeOK, SeenFits
<1>3. TypeOK'
  BY <1>1, <1>2 DEF IInv, TypeOK, platformVars, controlVars, historyVars
<1>4. CallsFit'
  BY <1>1 DEF IInv, CallsFit, LivePoll
<1>5. SeenFits' /\ CountsFit' /\ ButtonsFit'
  BY <1>1, <1>2 DEF IInv, SeenFits, CountsFit, ButtonsFit, platformVars, controlVars, historyVars
<1> QED
  BY <1>1, <1>3, <1>4, <1>5 DEF IInv, Stays, platformVars

LEMMA UnloadKeeps ==
  ASSUME IInv, Unload
  PROVE  IInv' /\ Stays
<1>1. /\ mode' = "down" /\ settings' = {} /\ available' = FALSE /\ unreadable' = FALSE
      /\ sticky' = {} /\ known' = {} /\ passed' = {} /\ buttons' = {}
      /\ seen' = "none" /\ count' = [t \in Target |-> 0]
      /\ fresh' = TRUE /\ ondemand' = FALSE /\ missed' = [t \in Target |-> 0]
      /\ inherited' = missing /\ dropped' = {}
      /\ UNCHANGED <<registered, missing, issues>>
  BY DEF Unload
<1>2. call \in [Caller -> Call] /\ NoCall \in Call
  BY CallTypes DEF IInv, TypeOK
<1>3. \A c \in Caller :
        call'[c] = NoCall \/
        (call[c].step # "inventory" /\ call'[c] = [call[c] EXCEPT
           !.ended = call[c] # NoCall /\ call[c].step # "write"])
  BY DEF Unload
<1>4. call' \in [Caller -> Call]
  <2>1. \A c \in Caller : [call[c] EXCEPT
           !.ended = call[c] # NoCall /\ call[c].step # "write"] \in Call
    BY <1>2 DEF Call
  <2> QED
    BY <1>2, <2>1 DEF Unload
<1>5. \A c \in Caller :
        /\ call'[c].step = "write" => call'[c].target \in Target
        /\ call'[c].kind = "poll" => call'[c].step # "write" /\ call'[c].ended
        /\ call'[c].step # "inventory"
  <2> TAKE c \in Caller
  <2>1. CASE call'[c] = NoCall
    BY <2>1, CallTypes
  <2>2. CASE call[c].step # "inventory" /\ call'[c] = [call[c] EXCEPT
           !.ended = call[c] # NoCall /\ call[c].step # "write"]
    <3> DEFINE over == call[c] # NoCall /\ call[c].step # "write"
    <3>1. call[c].kind = "poll" => call[c].step # "write" /\ over
      BY CallTypes DEF IInv, CallsFit
    <3>2. call[c].step = "write" => call[c].target \in Target
      BY DEF IInv, TypeOK
    <3>3. call[c] \in Call /\ over \in BOOLEAN /\ call'[c] = [call[c] EXCEPT !.ended = over]
      BY <1>2, <2>2
    <3> HIDE DEF over
    <3> QED
      BY <2>2, <3>1, <3>2, <3>3 DEF Call
  <2> QED
    BY <1>3, <2>1, <2>2
<1>6. TypeOK'
  <2>1. [t \in Target |-> 0] \in [Target -> 0..Threshold]
    BY TargetAssumption
  <2>2. count' \in [Target -> 0..Threshold] /\ missed' \in [Target -> 0..Threshold]
        /\ \A t \in Target \ known' : count'[t] = 0 /\ missed'[t] = 0
    BY <1>1, <2>1
  <2>3. registered \subseteq Target /\ missing \subseteq Target /\ issues \subseteq Issue
    BY DEF IInv, TypeOK
  <2> QED
    BY <1>1, <1>4, <1>5, <2>2, <2>3 DEF TypeOK
<1>7. CallsFit'
  BY <1>5 DEF CallsFit, LivePoll
<1>8. SeenFits' /\ ButtonsFit'
  BY <1>1 DEF SeenFits, ButtonsFit
<1>9. CountsFit'
  BY <1>1, TargetAssumption DEF CountsFit
<1> QED
  BY <1>1, <1>6, <1>7, <1>8, <1>9 DEF IInv, Stays

LEMMA StutterKeeps ==
  ASSUME IInv, UNCHANGED vars
  PROVE  IInv' /\ Stays
<1> USE DEF vars, listVars, platformVars, controlVars, historyVars
<1>1. TypeOK'
  BY DEF IInv, TypeOK
<1>2. CallsFit'
  BY DEF IInv, CallsFit, LivePoll
<1>3. SeenFits' /\ CountsFit' /\ ButtonsFit'
  BY DEF IInv, SeenFits, CountsFit, ButtonsFit
<1> QED
  BY <1>1, <1>2, <1>3 DEF IInv, Stays

\* Every step keeps the invariant and the repairs.
LEMMA NextKeeps ==
  ASSUME IInv, [Next]_vars
  PROVE  IInv' /\ Stays
<1>1. CASE Publish
  BY <1>1, PublishKeeps
<1>2. CASE PollOff
  BY <1>2, PollOffKeeps
<1>3. CASE Load
  BY <1>3, LoadKeeps
<1>4. CASE Unload
  BY <1>4, UnloadKeeps
<1>5. ASSUME NEW c \in Caller, StartPoll(c) PROVE IInv' /\ Stays
  BY <1>5, StartPollKeeps
<1>6. ASSUME NEW c \in Caller, PollListed(c) PROVE IInv' /\ Stays
  BY <1>6, PollListedKeeps
<1>7. ASSUME NEW c \in Caller, PollFailed(c) PROVE IInv' /\ Stays
  BY <1>7, PollFailedKeeps
<1>8. ASSUME NEW c \in Caller, PollInventory(c) PROVE IInv' /\ Stays
  BY <1>8, PollInventoryKeeps
<1>9. ASSUME NEW c \in Caller, UserBegins(c) PROVE IInv' /\ Stays
  BY <1>9, UserKeeps
<1>11. ASSUME NEW c \in Caller, ServiceListed(c) PROVE IInv' /\ Stays
  BY <1>11, ServiceListedKeeps
<1>12. ASSUME NEW c \in Caller, ServiceFailed(c) PROVE IInv' /\ Stays
  BY <1>12, ServiceFailedKeeps
<1>13. ASSUME NEW c \in Caller, Written(c) PROVE IInv' /\ Stays
  BY <1>13, WrittenKeeps
<1>14. CASE UNCHANGED vars
  BY <1>14, StutterKeeps
<1> QED
  BY <1>1, <1>2, <1>3, <1>4, <1>5, <1>6, <1>7, <1>8, <1>9, <1>11, <1>12,
     <1>13, <1>14 DEF Next, UserBegins

LEMMA InitKeeps == Init => IInv
<1> SUFFICES ASSUME Init PROVE IInv
  OBVIOUS
<1>1. call = [c \in Caller |-> NoCall] /\ \A c \in Caller : call[c] = NoCall
  BY DEF Init
<1>2. TypeOK
  <2>1. [t \in Target |-> 0] \in [Target -> 0..Threshold]
    BY TargetAssumption
  <2>2. count \in [Target -> 0..Threshold] /\ missed \in [Target -> 0..Threshold]
        /\ \A t \in Target \ known : count[t] = 0 /\ missed[t] = 0
    BY <2>1 DEF Init
  <2>3. call \in [Caller -> Call] /\ \A c \in Caller : call[c].step # "write"
    BY <1>1, CallTypes
  <2> QED
    BY <2>2, <2>3 DEF Init, TypeOK
<1>3. CallsFit
  BY <1>1, CallTypes DEF CallsFit, LivePoll
<1>4. SeenFits /\ CountsFit /\ ButtonsFit
  BY TargetAssumption DEF Init, SeenFits, CountsFit, ButtonsFit
<1> QED
  BY <1>2, <1>3, <1>4 DEF IInv

LEMMA IInvHolds == Spec => []IInv
<1>1. Init => IInv
  BY InitKeeps
<1>2. IInv /\ [Next]_vars => IInv'
  BY NextKeeps
<1> QED
  BY <1>1, <1>2, PTL DEF Spec

-----------------------------------------------------------------------------
(* The theorems.                                                           *)

\* Every step keeps the types, and what goes together stays together: a button
\* is registered, a call that writes has its target, a target has misses only
\* while it has controls.
THEOREM TypesStay == Spec => []TypeOK
<1>1. IInv => TypeOK
  BY DEF IInv
<1> QED
  BY <1>1, IInvHolds, PTL

\* The repairs of missing targets are those of the lists that missed them, for
\* any threshold and any number of targets and calls.
THEOREM RepairsAreMisses == Spec => []RepairsMatchMisses
<1>1. IInv => RepairsMatchMisses
  <2> SUFFICES ASSUME IInv PROVE RepairsMatchMisses
    OBVIOUS
  <2>1. /\ count \in [Target -> 0..Threshold] /\ missed \in [Target -> 0..Threshold]
        /\ missing \subseteq Target /\ Threshold \in Nat
    BY TargetAssumption DEF IInv, TypeOK
  <2>2. ASSUME NEW t \in missing PROVE missed[t] = Threshold \/ t \in inherited
    <3>1. t \in Target /\ count[t] <= missed[t] /\ missed[t] \in 0..Threshold
      BY <2>1, <2>2 DEF IInv, CountsFit
    <3>2. count[t] = Threshold \/ t \in inherited
      BY <2>2 DEF IInv, CountsFit
    <3> QED
      BY <2>1, <3>1, <3>2
  <2>3. ASSUME NEW t \in Target, missed[t] = Threshold, ~ondemand PROVE t \in missing
    BY <2>3 DEF IInv, CountsFit
  <2> QED
    BY <2>2, <2>3 DEF RepairsMatchMisses
<1> QED
  BY <1>1, IInvHolds, PTL

\* No step withdraws a repair of a target that has not been listed again.
THEOREM RepairsRemain == Spec => RepairsStay
<1>1. IInv /\ [Next]_vars => Stays
  BY NextKeeps
<1>2. Stays => [\A t \in missing \ missing' :
                  t \in settings \/ (t \in inherited /\ t \in known)]_vars
  BY DEF Stays
<1>3. IInv /\ [Next]_vars => [\A t \in missing \ missing' :
                  t \in settings \/ (t \in inherited /\ t \in known)]_vars
  BY <1>1, <1>2
<1> QED
  BY <1>3, IInvHolds, PTL DEF Spec, RepairsStay

\* After a heard list the create buttons are those of the targets that support
\* them, whatever an earlier runtime left in the registry.
THEOREM ButtonsFollow == Spec => []ButtonsMatch
<1>1. IInv => ButtonsMatch
  BY DEF IInv, ButtonsFit, ButtonsMatch, Supported
<1> QED
  BY <1>1, IInvHolds, PTL

\* An issue is raised only where the other kind was cleared.
LEMMA OneKindStays ==
  ASSUME issues \subseteq Issue, OneKind, NEW cap, NEW kind \in Kind,
         issues' \in {issues, {}, Cleared(cap), Raised(cap, kind)}
  PROVE  OneKind'
<1> SUFFICES ASSUME NEW k \in Capability,
                    <<k, "permission">> \in issues', <<k, "unavailable">> \in issues'
             PROVE  FALSE
  <2>1. issues' \subseteq issues \cup {<<cap, kind>>}
    BY DEF Cleared, Raised
  <2>2. ASSUME NEW k \in Capability,
               Kind \subseteq {i[2] : i \in {j \in issues' : j[1] = k}}, NEW l \in Kind
        PROVE  <<k, l>> \in issues'
    <3>1. PICK i \in issues' : i[1] = k /\ i[2] = l
      BY <2>2
    <3>2. CASE i \in issues
      BY <3>1, <3>2 DEF Issue
    <3>3. CASE i = <<cap, kind>>
      BY <3>1, <3>3
    <3> QED
      BY <2>1, <3>2, <3>3
  <2> QED
    BY <2>2 DEF OneKind, Kind
<1>1. ~(<<k, "permission">> \in issues /\ <<k, "unavailable">> \in issues)
  <2> SUFFICES ASSUME <<k, "permission">> \in issues, <<k, "unavailable">> \in issues
               PROVE  FALSE
    OBVIOUS
  <2> DEFINE ofk == {j \in issues : j[1] = k}
  <2>1. <<k, "permission">> \in ofk /\ <<k, "unavailable">> \in ofk
    OBVIOUS
  <2> HIDE DEF ofk
  <2>2. "permission" \in {i[2] : i \in ofk} /\ "unavailable" \in {i[2] : i \in ofk}
    BY <2>1
  <2> QED
    BY <2>2 DEF OneKind, Kind, ofk
<1>2. issues' = Raised(cap, kind) /\ k = cap
  BY <1>1 DEF Cleared, Raised
<1>3. \A l \in Kind : <<k, l>> \in issues' => l = kind
  BY <1>2 DEF Raised
<1> QED
  BY <1>3 DEF Kind

\* What each action does to the issues.
LEMMA IssuesStep ==
  ASSUME IInv, [Next]_vars
  PROVE  \E cap \in Capability, kind \in Kind :
           issues' \in {issues, {}, Cleared(cap), Raised(cap, kind)}
<1>1. ASSUME issues' \in {issues, {}}
      PROVE  \E cap \in Capability, kind \in Kind :
               issues' \in {issues, {}, Cleared(cap), Raised(cap, kind)}
  BY <1>1, Capabilities DEF Kind
<1>2. ASSUME NEW cap \in Capability, NEW kind \in Kind,
             issues' \in {Cleared(cap), Raised(cap, kind)}
      PROVE  \E k \in Capability, l \in Kind : issues' \in {issues, {}, Cleared(k), Raised(k, l)}
  BY <1>2
<1>3. CASE Publish \/ PollOff \/ Load \/ Unload \/ UNCHANGED vars
  BY <1>1, <1>3, NoneIsLeft DEF Publish, PollOff, Load, Unload, vars, IInv, TypeOK
<1>4. ASSUME NEW c \in Caller, UserBegins(c)
      PROVE  issues' = issues
  BY <1>4 DEF UserBegins, Press, Change, CreateService, SettingsService, Service, Begin
<1>5. ASSUME NEW c \in Caller, StartPoll(c) \/ PollInventory(c)
      PROVE  issues' = issues
  BY <1>5 DEF StartPoll, PollInventory
<1>6. ASSUME NEW c \in Caller, PollListed(c)
      PROVE  issues' = Cleared(<<"read">>)
  BY <1>6 DEF PollListed, ReadIssues
<1>7. ASSUME NEW c \in Caller, PollFailed(c)
      PROVE  issues' = issues \/ \E kind \in Kind : issues' = Raised(<<"read">>, kind)
  <2>1. PICK outcome \in {"refused", "unusable", "absent", "lost"} :
          issues' = ReadIssues(outcome)
    BY <1>7 DEF PollFailed
  <2> QED
    BY <2>1, Capabilities DEF ReadIssues
<1>8. ASSUME NEW c \in Caller, ServiceListed(c)
      PROVE  issues' \in {Cleared(<<"read">>), Raised(<<"read">>, "unavailable")}
  BY <1>8 DEF ServiceListed, ReadIssues, KindOf
<1>9. ASSUME NEW c \in Caller, ServiceFailed(c)
      PROVE  issues' \in {issues, Raised(<<"read">>, "permission")}
  BY <1>9 DEF ServiceFailed, ReadIssues, KindOf
<1>10. ASSUME NEW c \in Caller, Written(c)
       PROVE  issues' = issues \/ \E cap \in Capability, kind \in Kind :
                                    issues' \in {Cleared(cap), Raised(cap, kind)}
  <2> DEFINE cap == <<call[c].action, TypeOf(call[c].target)>>
  <2>1. PICK outcome \in {"done", "refused", "unsupported", "lost"} :
          issues' = ActionIssues(cap, outcome)
    BY <1>10 DEF Written
  <2>2. KindOf(outcome) \in Kind /\ cap \in Capability
    BY <1>10, Capabilities DEF Written, IInv, TypeOK, Call
  <2> HIDE DEF cap
  <2>3. issues' = issues \/ issues' \in {Cleared(cap), Raised(cap, KindOf(outcome))}
    BY <2>1, ActionIssuesAre
  <2> QED
    BY <2>2, <2>3
<1>11. "unavailable" \in Kind /\ "permission" \in Kind /\ <<"read">> \in Capability
  BY Capabilities DEF Kind
<1> HIDE DEF Kind
<1> QED
  BY <1>1, <1>2, <1>3, <1>4, <1>5, <1>6, <1>7, <1>8, <1>9, <1>10, <1>11 DEF Next, UserBegins

\* No capability is ever reported in two ways.
THEOREM OneKindEach == Spec => []OneKind
<1>1. Init => OneKind
  BY DEF Init, OneKind, Kind
<1>2. IInv /\ OneKind /\ [Next]_vars => OneKind'
  <2> SUFFICES ASSUME IInv, OneKind, [Next]_vars PROVE OneKind'
    OBVIOUS
  <2>1. issues \subseteq Issue
    BY DEF IInv, TypeOK
  <2> QED
    BY <2>1, IssuesStep, OneKindStays
<1> QED
  BY <1>1, <1>2, IInvHolds, PTL DEF Spec
=============================================================================
