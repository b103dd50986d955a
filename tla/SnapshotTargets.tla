--------------------------- MODULE SnapshotTargets ---------------------------
(***************************************************************************)
(* Snapshot targets in Home Assistant: the controls that follow the list   *)
(* of targets, the create buttons that follow the inventory, and the       *)
(* repairs (snapshot_entities.py, snapshot_repairs.py, button.py,          *)
(* services.py, coordinator.py).                                           *)
(*                                                                         *)
(* Five platforms listen to the coordinator.  Four of them offer every     *)
(* target and are modelled as one; the fifth adds the create buttons.      *)
(* Polls, presses and service calls wait for the NAS, and meanwhile the    *)
(* list changes or the entry is reloaded: a call of an ended runtime still *)
(* writes repairs, which Home Assistant keeps over restarts.  A call made  *)
(* while the NAS is offline is refused before it begins.                   *)
(***************************************************************************)
EXTENDS Naturals, FiniteSets

CONSTANTS
  Target,
  MyDrive,  \* the targets that are personal drives, of other accounts than
            \* the one in use; the others are shared
  Caller,   \* places for calls in progress
  Threshold,  \* the misses that make a repair: 3 in the code
  MaxEvents,  \* bound on presses, service calls and reloads
  None      \* nothing

ASSUME TargetAssumption ==
  /\ MyDrive \subseteq Target /\ None \notin Target
  /\ Threshold \in Nat \ {0} /\ MaxEvents \in Nat

VARIABLES
  mode,        \* "down", or loaded with snapshot controls "on" or "off"
  settings,    \* the targets of the coordinator's list
  available,   \* the last read of the list succeeded
  unreadable,  \* the NAS said that it has no such list
  sticky,      \* the personal drives whose inventory cannot be read
  known,       \* the targets that have controls
  passed,      \* the targets whose create button was once added
  buttons,     \* the create buttons that exist
  registered,  \* the create buttons in the entity registry
  seen,        \* whose id() the list last counted had: that of "this" list, of
               \* an "other" one, or "none" was counted
  count,       \* how many lists have missed each target
  missing,     \* repairs: targets that disappeared
  issues,      \* repairs: what cannot be read, created or set
  call,        \* the calls in progress
  events,      \* how much users have done (bound)
  fresh,       \* history: the list has not been heard by the platforms
  ondemand,    \* history: a service has read a list in this runtime
  missed,      \* history: the lists heard in a row without each target
  inherited,   \* history: repairs of missing targets left by earlier runtimes
  dropped      \* history: targets whose button was removed in this runtime

listVars == <<settings, available, unreadable>>
controlVars == <<known, passed, buttons, registered>>
platformVars == <<controlVars, seen, count, missing>>
historyVars == <<fresh, missed, inherited, dropped>>
vars == <<mode, listVars, sticky, platformVars, issues, call,
          historyVars, ondemand, events>>

Action == {"create", "settings"}
Type == {"shared", "mydrive"}
Kind == {"permission", "unavailable"}
Capability == {<<"read">>} \cup (Action \X Type)
Issue == Capability \X Kind

TypeOf(t) == IF t \in MyDrive THEN "mydrive" ELSE "shared"

\* More misses than the threshold make no difference.
OneMore(n) == IF n < Threshold THEN n + 1 ELSE n

\* A service call that reads the list remembers which targets its fields fit.
NoCall == [kind |-> "none", step |-> "read", target |-> None, match |-> {},
           action |-> "create", ended |-> FALSE]

Init ==
  /\ mode = "down" /\ settings = {} /\ available = FALSE
  /\ unreadable = FALSE /\ sticky = {}
  /\ known = {} /\ passed = {} /\ buttons = {} /\ registered = {}
  /\ seen = "none" /\ count = [t \in Target |-> 0]
  /\ missing = {} /\ issues = {}
  /\ call = [c \in Caller |-> NoCall] /\ events = 0
  /\ fresh = TRUE /\ ondemand = FALSE /\ missed = [t \in Target |-> 0]
  /\ inherited = {} /\ dropped = {}

Event == events < MaxEvents /\ events' = events + 1

-----------------------------------------------------------------------------
(* Repairs.                                                                *)

RaisedToo(cap, kind) == issues \cup {<<cap, kind>>}

\* One capability has one issue: the other kind is cleared first.
Raised(cap, kind) == (issues \ ({cap} \X Kind)) \cup {<<cap, kind>>}
Cleared(cap) == issues \ ({cap} \X Kind)

KindOf(outcome) == IF outcome = "refused" THEN "permission" ELSE "unavailable"

\* After the list was read, a snapshot created or a setting changed, or not.
\* What is lost to the network is no repair and mends none.
ReadIssues(outcome) ==
  CASE outcome = "listed" -> Cleared(<<"read">>)
    [] outcome = "lost" -> issues
    [] OTHER -> Raised(<<"read">>, KindOf(outcome))
ActionIssues(cap, outcome) ==
  CASE outcome = "done" -> Cleared(cap)
    [] outcome = "lost" -> issues
    [] OTHER -> Raised(cap, KindOf(outcome))

\* Of what could not be done none is left; missing targets are not among it.
AllCleared == issues \ (Capability \X Kind)

-----------------------------------------------------------------------------
(* What the coordinator's listeners do.                                    *)

\* Shared drives always are; an error drops the inventory read before it, so
\* having one adds nothing.
Supported(t, stuck) == t \notin stuck

MissesEachTime(m, t, list, targets) ==
  IF t \notin targets THEN m.count[t]
  ELSE IF t \in list THEN 0
  ELSE OneMore(m.count[t])
MissesOfAny(m, t, list, targets) ==
  IF t \in list THEN 0
  ELSE IF m.seen # "this" THEN OneMore(m.count[t]) ELSE m.count[t]

\* A list is counted by the first platform to see it.
Misses(m, t, list, targets) ==
  IF t \notin targets THEN m.count[t]
  ELSE IF t \in list THEN 0
  ELSE IF m.seen # "this" THEN OneMore(m.count[t]) ELSE m.count[t]

GoneOfAny(list, targets) == Target \ list
Gone(list, targets) == targets \ list

\* One platform's pass over the targets that have controls.
Counted(m, list, targets) ==
  LET counts == [t \in Target |-> Misses(m, t, list, targets)]
      gone == Gone(list, targets)
      back == {t \in targets \cap list : m.count[t] > 0}
      lost == {t \in gone : counts[t] >= Threshold}
  IN [seen |-> "this", count |-> counts,
      missing |-> (m.missing \ (back \cup gone)) \cup lost]

\* All of them: the third to the fifth find what the second left.
CountedByAll(m, list, targets) ==
  Counted(Counted(m, list, targets), list, targets)

\* The create buttons left in the registry, also of earlier runtimes.
KnownWithout(refused) == registered \ (refused \cap buttons)
RegisteredWithout(refused) == registered \ refused

\* The listeners run: buttons of targets that cannot create snapshots are
\* removed, new targets get their controls, the missing ones are counted.
Listen(list, id, avail, stuck) ==
  LET offered == {t \in list : Supported(t, stuck)}
      added == IF mode = "on" THEN offered \ passed ELSE {}
      refused == list \ offered
      targets == known \cup list
      counting == mode = "on" /\ avail
      m == [seen |-> id, count |-> count, missing |-> missing]
      n == IF counting THEN CountedByAll(m, list, targets) ELSE m
  IN /\ registered' = RegisteredWithout(refused) \cup added
     /\ buttons' = (buttons \ refused) \cup added
     /\ passed' = passed \cup added
     /\ dropped' = dropped \cup (buttons \cap refused)
     /\ known' = IF mode = "on" THEN targets ELSE known
     /\ seen' = n.seen /\ count' = n.count /\ missing' = n.missing
     /\ inherited' = inherited \cap n.missing
     /\ missed' = [t \in Target |->
          IF counting /\ t \in targets
          THEN IF t \in list THEN 0
               ELSE IF fresh THEN OneMore(missed[t]) ELSE missed[t]
          ELSE missed[t]]
     /\ fresh' = (fresh /\ ~counting)

\* A refresh that read no list: the console did not answer, or another refresh
\* holds the lock.
Publish ==
  /\ mode # "down"
  /\ Listen(settings, seen, available, sticky)
  /\ UNCHANGED <<mode, listVars, sticky, issues, call, ondemand, events>>

-----------------------------------------------------------------------------
(* Polls.                                                                  *)

Free == {c \in Caller : call[c] = NoCall}

\* Whose id() the last counted list had, once the list is replaced: the new one
\* cannot have that of the list it replaces, but that of one freed before.
SeenNow == CASE seen = "this" -> {"other"}
             [] seen = "other" -> {"this", "other"}
             [] OTHER -> {"none"}

\* Once the NAS has said that it has no list, the client does not ask again.
FirstStep == IF unreadable THEN "told" ELSE "read"

StartPoll(c) ==
  /\ c \in Free /\ mode = "on"
  /\ \A d \in Caller : call[d].kind = "poll" => call[d].ended
  /\ call' = [call EXCEPT
       ![c] = [NoCall EXCEPT !.kind = "poll", !.step = FirstStep]]
  /\ UNCHANGED <<mode, listVars, sticky, platformVars, issues,
                 historyVars, ondemand, events>>

Reading(c, kind) == call[c].kind = kind /\ call[c].step \in {"read", "told"}

\* The list arrives: what is known of targets it does not name is dropped, and
\* the inventory is read next.
PollListed(c) ==
  /\ call[c].kind = "poll" /\ call[c].step = "read"
  /\ issues' = ReadIssues("listed")
  /\ IF call[c].ended
     THEN UNCHANGED <<listVars, sticky, fresh, seen>>
     ELSE /\ settings' \in SUBSET Target /\ seen' \in SeenNow
          /\ available' = TRUE /\ unreadable' = FALSE /\ fresh' = TRUE
          /\ sticky' = sticky \cap settings'
  /\ call' = [call EXCEPT
       ![c] = IF @.ended THEN NoCall ELSE [@ EXCEPT !.step = "inventory"]]
  /\ UNCHANGED <<mode, controlVars, count, missing, missed, inherited, dropped,
                 ondemand, events>>

\* It does not arrive; the login before the read may already be refused.  A lost
\* connection or a timeout is no repair.
PollFailed(c) ==
  /\ Reading(c, "poll")
  /\ IF call[c].ended THEN UNCHANGED <<available, platformVars, historyVars>>
     ELSE available' = FALSE /\ Listen(settings, seen, FALSE, sticky)
  /\ \E outcome \in {"refused", "unusable", "absent", "lost"} :
       /\ call[c].step = "told" => outcome # "unusable"
       /\ issues' = ReadIssues(outcome)
       /\ unreadable' = (unreadable \/ (outcome = "absent" /\ ~call[c].ended))
  /\ call' = [call EXCEPT ![c] = NoCall]
  /\ UNCHANGED <<mode, settings, sticky, ondemand, events>>

\* Some inventories cannot be read and are not tried again; the listeners run.
PollInventory(c) ==
  /\ call[c].step = "inventory"
  /\ \E bad \in SUBSET (settings \cap MyDrive) : sticky' = sticky \cup bad
  /\ Listen(settings, seen, available, sticky')
  /\ call' = [call EXCEPT ![c] = NoCall]
  /\ UNCHANGED <<mode, listVars, issues, ondemand, events>>

\* With the controls switched off a poll drops the list and the repairs of what
\* could not be done.
PollOff ==
  /\ mode = "off"
  /\ settings' = {} /\ available' = FALSE /\ sticky' = {}
  /\ issues' = AllCleared
  /\ \E id \in SeenNow : Listen({}, id, FALSE, {})
  /\ UNCHANGED <<mode, unreadable, call, ondemand, events>>

-----------------------------------------------------------------------------
(* Presses and service calls.                                              *)

\* The entities of a target the list names can be used while it can be read.
Usable(t) == mode = "on" /\ available /\ t \in settings

Begin(c, t, a) ==
  /\ Event /\ c \in Free
  /\ call' = [call EXCEPT ![c] = [NoCall EXCEPT
       !.kind = "action", !.step = "write", !.target = t, !.action = a]]
  /\ UNCHANGED <<mode, listVars, sticky, platformVars, issues,
                 historyVars, ondemand>>

Press(c, t) == Usable(t) /\ t \in buttons /\ Begin(c, t, "create")
Change(c, t) == Usable(t) /\ t \in known /\ Begin(c, t, "settings")

\* The fields of a service call: those that name one target, and its type.
Filters == [target : Target \cup {None}, type : Type \cup {None}]
Fits(t, f) ==
  f.target \in {t, None} /\ f.type \in {TypeOf(t), None}
Matches == {{t \in Target : Fits(t, f)} : f \in Filters}

\* One of the listed targets has to fit, and no other.
Selected(match, list) == {t \in match \cap list : match \cap list = {t}}

\* A service acts on a loaded entry.
Resolved == mode # "down"

\* It finds its target in the list, or reads one if the list is empty.
Service(c, match, a) ==
  /\ Resolved
  /\ \/ /\ settings # {}
        /\ \E t \in Selected(match, settings) : Begin(c, t, a)
     \/ /\ settings = {} /\ Event /\ c \in Free
        /\ call' = [call EXCEPT ![c] = [NoCall EXCEPT
             !.kind = "action", !.step = FirstStep, !.match = match, !.action = a]]
        /\ UNCHANGED <<mode, listVars, sticky, platformVars, issues,
                       historyVars, ondemand>>

CreateService(c, match) == Service(c, match, "create")
SettingsService(c, match) == Service(c, match, "settings")

\* The service's own read.  Its list replaces the coordinator's, but nobody is
\* told; a poll may have brought another one meanwhile.
ServiceListed(c) ==
  /\ Reading(c, "action")
  /\ \E list \in SUBSET Target, absent \in BOOLEAN :
       /\ call[c].step = "told" => absent
       /\ absent => list = {}
       /\ issues' = ReadIssues(IF absent THEN "absent" ELSE "listed")
       /\ IF call[c].ended THEN UNCHANGED <<settings, unreadable, seen, fresh, ondemand>>
          ELSE /\ settings' = list /\ unreadable' = absent /\ seen' \in SeenNow
               /\ fresh' = TRUE /\ ondemand' = TRUE
       /\ LET one == Selected(call[c].match, list) IN
          call' = [call EXCEPT ![c] =
            IF one = {} THEN NoCall
            ELSE [NoCall EXCEPT !.kind = "action", !.step = "write",
                    !.target = CHOOSE t \in one : TRUE, !.action = call[c].action]]
  /\ UNCHANGED <<mode, available, sticky, controlVars, count, missing, missed,
                 inherited, dropped, events>>

\* Here only a refusal is a repair: unlike a poll, a service takes an answer
\* that cannot be used for a passing failure.
ServiceFailed(c) ==
  /\ Reading(c, "action")
  /\ \E outcome \in {"refused", "lost"} : issues' = ReadIssues(outcome)
  /\ call' = [call EXCEPT ![c] = NoCall]
  /\ UNCHANGED <<mode, listVars, sticky, platformVars,
                 historyVars, ondemand, events>>

\* The NAS has answered the create or the change, or has not.  That a change
\* reads the list first, to find its target, is left out: where that read finds
\* no list, a later one that asks again may be answered the same.
Written(c) ==
  /\ call[c].step = "write"
  /\ LET cap == <<call[c].action, TypeOf(call[c].target)>> IN
     \E outcome \in {"done", "refused", "unsupported", "lost"} :
       issues' = ActionIssues(cap, outcome)
  /\ call' = [call EXCEPT ![c] = NoCall]
  /\ UNCHANGED <<mode, listVars, sticky, platformVars,
                 historyVars, ondemand, events>>

-----------------------------------------------------------------------------
(* The entry's life.                                                       *)

\* A runtime with an empty list, and platforms that know no target.
Load ==
  /\ mode = "down" /\ mode' \in {"on", "off"}
  /\ UNCHANGED <<listVars, sticky, platformVars, issues, call,
                 historyVars, ondemand, events>>

\* A reload ends the runtime and drops what it held, a restart its calls as
\* well.  Of a reload only the poll the setup began is cancelled, and one that
\* has its list is of no consequence any more; nor is whose a write is.
Unload ==
  /\ Event /\ mode # "down" /\ mode' = "down"
  /\ settings' = {} /\ available' = FALSE /\ unreadable' = FALSE /\ sticky' = {}
  /\ known' = {} /\ passed' = {} /\ buttons' = {}
  /\ seen' = "none" /\ count' = [t \in Target |-> 0]
  /\ fresh' = TRUE /\ ondemand' = FALSE /\ missed' = [t \in Target |-> 0]
  /\ inherited' = missing /\ dropped' = {}
  /\ \/ \E cancelled \in SUBSET {c \in Caller : call[c].kind = "poll"} :
          call' = [c \in Caller |->
            IF c \in cancelled \/ call[c].step = "inventory" THEN NoCall
            ELSE [call[c] EXCEPT
                    !.ended = call[c] # NoCall /\ call[c].step # "write"]]
     \/ call' = [c \in Caller |-> NoCall]
  /\ UNCHANGED <<registered, missing, issues>>

Next ==
  \/ Publish \/ PollOff \/ Load \/ Unload
  \/ \E c \in Caller :
       \/ StartPoll(c) \/ PollListed(c) \/ PollFailed(c) \/ PollInventory(c)
       \/ \E t \in Target : Press(c, t) \/ Change(c, t)
       \/ \E match \in Matches :
            CreateService(c, match) \/ SettingsService(c, match)
       \/ ServiceListed(c) \/ ServiceFailed(c) \/ Written(c)

Spec == Init /\ [][Next]_vars

-----------------------------------------------------------------------------
(* Properties.                                                             *)

Call == [kind : {"none", "poll", "action"},
         step : {"read", "told", "inventory", "write"},
         target : Target \cup {None}, match : SUBSET Target,
         action : Action, ended : BOOLEAN]

\* Types, and what goes together: buttons are registered, a call that writes
\* has its target, targets have a number of misses only in a runtime.
TypeOK ==
  /\ mode \in {"down", "on", "off"}
  /\ settings \subseteq Target /\ available \in BOOLEAN /\ unreadable \in BOOLEAN
  /\ sticky \subseteq MyDrive
  /\ known \subseteq Target /\ passed \subseteq known
  /\ buttons \subseteq passed \cap registered /\ registered \subseteq Target
  /\ seen \in {"none", "this", "other"}
  /\ count \in [Target -> 0..Threshold] /\ missed \in [Target -> 0..Threshold]
  /\ \A t \in Target \ known : count[t] = 0 /\ missed[t] = 0
  /\ missing \subseteq Target /\ issues \subseteq Issue
  /\ call \in [Caller -> Call]
  /\ \A c \in Caller : call[c].step = "write" => call[c].target \in Target
  /\ fresh \in BOOLEAN /\ ondemand \in BOOLEAN
  /\ inherited \subseteq missing /\ dropped \subseteq passed
  /\ mode # "on" => known = {}

\* A repair says that a target disappeared if and only if three lists in a row
\* were heard without it, however many platforms listen and whatever ran
\* between them; but one left by an earlier runtime stays, and lists that came
\* after one a service read may be taken for it and not count
\* (_update_snapshot_target_missing_state).
RepairsMatchMisses ==
  /\ \A t \in missing : missed[t] = Threshold \/ t \in inherited
  /\ \A t \in Target : missed[t] = Threshold /\ ~ondemand => t \in missing

\* A capability is never reported both as forbidden and as unavailable, in
\* whatever order calls of this and of earlier runtimes end
\* (_clear_other_snapshot_issue_kinds).
OneKind ==
  \A cap \in Capability : ~(Kind \subseteq {i[2] : i \in {j \in issues : j[1] = cap}})

\* Once the platforms have heard a list, its targets that can create snapshots
\* have a button, unless it was removed earlier in this runtime, and the others
\* have none, not even one registered by an earlier runtime
\* (async_track_snapshot_target_entities,
\* _async_remove_unsupported_snapshot_create_buttons).
ButtonsMatch ==
  mode = "on" /\ ~fresh /\ (\A c \in Caller : call[c].kind = "poll" => call[c].ended) =>
    \A t \in settings :
      IF Supported(t, sticky) THEN t \in buttons \cup dropped
      ELSE t \notin registered

\* A repair of a missing target goes away only when the target is listed again,
\* or, if an earlier runtime left it, was listed again in this one: not with a
\* reload, a restart, a read that failed or controls that are switched off
\* (async_update_snapshot_target_missing_issue, async_clear_snapshot_issues).
RepairsStay ==
  [][\A t \in missing \ missing' :
       t \in settings \/ (t \in inherited /\ t \in known)]_vars

=============================================================================
