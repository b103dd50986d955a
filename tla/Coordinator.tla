------------------------------ MODULE Coordinator ------------------------------
(***************************************************************************)
(* The polling coordinator (coordinator.py) from setup on: the first core  *)
(* poll, the polls after it, the optional features each poll refreshes     *)
(* within one shared time budget, the background refresh of the same       *)
(* features right after setup, and the connection state derived from it    *)
(* all.  Home Assistant's DataUpdateCoordinator is external: a poll at a   *)
(* time, a timer that is armed again unless the credentials were refused.  *)
(***************************************************************************)
EXTENDS Integers, Sequences

CONSTANTS
  Features,    \* the optional features, in refresh order; "fan" is one
  Budget,      \* _OPTIONAL_REFRESH_TIMEOUT, in units of time
  Latency,     \* how long a read of each feature may take
  Threshold,   \* _CONNECTION_FAILURES_BEFORE_OFFLINE
  Mode         \* fan modes

Feature == {Features[i] : i \in 1..Len(Features)}
N == Len(Features)

ASSUME CoordinatorAssumption ==
  /\ Features \in Seq(Feature) /\ N > 0
  /\ Budget \in Nat
  /\ Threshold \in Nat \ {0}
  /\ Latency \in [Feature -> SUBSET Nat]
  /\ \A f \in Feature : Latency[f] # {}
  /\ Mode # {}

VARIABLES
  nas,        \* what a storage read meets: "up", "down", "odd", "denied"
  setup,      \* "setup", "loaded", or "failed" until the entry is reloaded
  wol,        \* Wake-on-LAN is configured: setup survives a failed first poll
  poll,       \* "idle", "storage", "optional"
  scheduled,  \* the timer of the next poll is armed
  startup,    \* the background refresh: "none", "due", "optional", "done"
  run,        \* the holder of the optional lock and how far it is
  online,     \* is_device_online
  count,      \* _connection_failure_count, up to Threshold
  known,      \* coordinator.data holds a payload ...
  marked,     \* ... whose _system.status was set to offline
  success,    \* last_update_success
  fanNas,     \* the fan mode on the NAS
  fanShown,   \* coordinator.fan_mode
  fanSupported, \* _fan_mode_read_supported is not False
  fanLast,    \* client._last_fan_mode
  exposed,    \* the firmware's storage payload tells the fan mode, too
  fanRead,    \* the mode a fan read under way has fetched
  carried,    \* the same for a storage read
  refreshed,  \* history: the feature refreshed last
  misses,     \* history: storage reads lost since one succeeded
  lastPoll    \* history: how the last poll ended

connectionVars == <<online, count, known, marked, success>>
fanVars == <<fanNas, fanShown, fanSupported, fanLast, exposed>>
readVars == <<fanRead, carried>>
historyVars == <<misses, lastPoll>>
vars == <<nas, setup, wol, poll, scheduled, startup, run, connectionVars,
          fanVars, readVars, refreshed, historyVars>>

NoMode == "none"
NoRun == [by |-> "none", next |-> 1, elapsed |-> 0]

\* A coordinator that was just created, with its first poll under way.
Init ==
  /\ nas \in {"up", "down", "odd", "denied"}
  /\ wol \in BOOLEAN
  /\ setup = "setup" /\ poll = "storage" /\ scheduled = FALSE
  /\ startup = "none" /\ run = NoRun
  /\ online = TRUE /\ count = 0
  /\ known = FALSE /\ marked = FALSE /\ success = TRUE
  /\ fanNas \in Mode /\ fanShown = NoMode
  /\ fanSupported = TRUE /\ fanLast = NoMode /\ exposed \in BOOLEAN
  /\ fanRead = NoMode /\ carried = NoMode
  /\ refreshed = "none" /\ misses = 0 /\ lastPoll = "none"

AtMost(n, bound) == IF n > bound THEN bound ELSE n

-----------------------------------------------------------------------------
(* What the entities show.                                                 *)

DeviceOnline == online

\* The mark outranks what the NAS tells of itself; that may read "offline" too,
\* but is another matter than whether the coordinator reaches it.
PayloadStatus == IF marked THEN "offline" ELSE "told"

SystemStatus ==
  CASE ~success -> "offline"
    [] success /\ ~known -> NoMode
    [] OTHER -> PayloadStatus

\* The fan mode, backup tasks, updates and power buttons can be used.
Selectable == setup = "loaded" /\ success /\ online

\* Without one, what was shown before a restart, or the default.
CurrentOption == IF fanShown # NoMode THEN fanShown ELSE fanLast

-----------------------------------------------------------------------------
(* The end of a poll: data, last_update_success and the timer.             *)

\* A poll that returns a payload.  When the first poll of an entry ends, its
\* entities are added, which arms the timer and starts the background refresh.
Returns(outcome) ==
  /\ success' = TRUE
  /\ scheduled' = TRUE
  /\ lastPoll' = outcome
  /\ poll' = "idle"
  /\ IF setup = "setup" THEN setup' = "loaded" /\ startup' = "due"
     ELSE UNCHANGED <<setup, startup>>

TimerStopped(outcome) == scheduled
TimerAfterFailure(outcome) == scheduled \/ outcome # "denied"

\* A poll that raises.  The first one fails the setup, unless Wake-on-LAN
\* keeps the entry; refused credentials stop the polling.
Raises(outcome) ==
  /\ success' = FALSE
  /\ lastPoll' = outcome
  /\ poll' = "idle"
  /\ CASE setup = "loaded" ->
            /\ scheduled' = TimerAfterFailure(outcome)
            /\ UNCHANGED <<setup, startup>>
       [] setup = "setup" /\ outcome # "denied" /\ wol ->
            setup' = "loaded" /\ startup' = "due" /\ scheduled' = TRUE
       [] OTHER ->
            setup' = "failed" /\ UNCHANGED <<startup, scheduled>>

PollStart ==
  /\ setup = "loaded" /\ poll = "idle" /\ scheduled
  /\ poll' = "storage"
  /\ scheduled' = FALSE
  /\ UNCHANGED <<nas, setup, wol, startup, run, connectionVars, fanVars,
                 readVars, refreshed, historyVars>>

-----------------------------------------------------------------------------
(* The storage read of a poll.                                             *)

CountKept == count
CountAfterSuccess == 0

\* The NAS answers with a payload that tells the fan mode.
StorageAnswered ==
  /\ poll = "storage" /\ exposed /\ carried = NoMode
  /\ nas = "up"
  /\ carried' = fanNas
  /\ UNCHANGED <<nas, setup, wol, poll, scheduled, startup, run,
                 connectionVars, fanVars, fanRead, refreshed, historyVars>>

\* The lock is taken unless the background refresh holds it: then this poll
\* leaves the optional features alone.
StorageRead ==
  /\ poll = "storage" /\ nas = "up"
  /\ exposed => carried # NoMode
  /\ fanLast' = IF exposed THEN carried ELSE fanLast
  /\ carried' = NoMode
  /\ online' = TRUE
  /\ count' = CountAfterSuccess
  /\ misses' = 0
  /\ IF setup = "setup" \/ run.by # "none"
     THEN /\ Returns("read")
          /\ known' = TRUE /\ marked' = FALSE
          /\ UNCHANGED run
     ELSE /\ poll' = "optional"
          /\ run' = [NoRun EXCEPT !.by = "poll"]
          /\ UNCHANGED <<setup, startup, scheduled, success, known, marked,
                         lastPoll>>
  /\ UNCHANGED <<nas, wol, fanNas, fanShown, fanSupported, exposed, fanRead,
                 refreshed>>

Tolerated(n) == online /\ n < Threshold

StatusKept(n) == marked
StatusAfterLoss(n) == marked \/ ~Tolerated(n)

StorageLost ==
  /\ poll = "storage" /\ nas = "down"
  /\ misses' = AtMost(misses + 1, Threshold)
  /\ IF ~known
     THEN /\ online' = FALSE /\ count' = Threshold
          /\ Raises("lost")
          /\ UNCHANGED marked
     ELSE /\ count' = AtMost(count + 1, Threshold)
          /\ online' = Tolerated(count + 1)
          /\ marked' = StatusAfterLoss(count + 1)
          /\ Returns("lost")
  /\ carried' = NoMode
  /\ UNCHANGED <<nas, wol, run, known, fanVars, fanRead, refreshed>>

StorageOdd ==
  /\ poll = "storage" /\ nas = "odd"
  /\ Raises("odd")
  /\ carried' = NoMode
  /\ UNCHANGED <<nas, wol, run, online, count, known, marked, fanVars, fanRead,
                 refreshed, misses>>

StorageDenied ==
  /\ poll = "storage" /\ nas = "denied"
  /\ Raises("denied")
  /\ carried' = NoMode
  /\ UNCHANGED <<nas, wol, run, online, count, known, marked, fanVars, fanRead,
                 refreshed, misses>>

-----------------------------------------------------------------------------
(* The optional features, refreshed one after another by whoever holds the *)
(* lock.                                                                   *)

WholeBudget(r) == Budget - r.elapsed
\* Time is reserved for the features still to come.
Share(r) == (Budget - r.elapsed) \div (N - (r.next - 1))

Current == Features[run.next]
Running == run.by # "none" /\ run.next <= N

\* The NAS answers a fan read; the client has not yet seen the answer.
FanAnswered ==
  /\ Running /\ Current = "fan" /\ fanSupported /\ fanRead = NoMode
  /\ nas = "up"
  /\ fanRead' = fanNas
  /\ UNCHANGED <<nas, setup, wol, poll, scheduled, startup, run,
                 connectionVars, fanVars, carried, refreshed, historyVars>>

Advanced(spent) ==
  run' = [run EXCEPT !.next = @ + 1, !.elapsed = @ + spent]

AlwaysInTime(spent) == TRUE
InTime(spent) == spent < Share(run)

\* The read ends in time.
FeatureRead ==
  /\ Running
  /\ \E spent \in Latency[Current] : InTime(spent) /\ Advanced(spent)
  /\ IF Current = "fan"
     THEN fanRead # NoMode /\ fanLast' = fanRead /\ fanShown' = fanRead
     ELSE nas = "up" /\ UNCHANGED <<fanLast, fanShown>>
  /\ fanRead' = NoMode
  /\ refreshed' = Current
  /\ UNCHANGED <<nas, setup, wol, poll, scheduled, startup, connectionVars,
                 fanNas, fanSupported, exposed, carried, historyVars>>

\* What is shown when the client answers with the mode it saw last.
ShownLast == IF fanLast = NoMode THEN fanShown ELSE fanLast

\* The client knows that the fan mode cannot be read, and says so at once or
\* after a login.
FanNotRead ==
  /\ Running /\ Current = "fan" /\ ~fanSupported
  /\ \/ Advanced(0)
     \/ /\ nas = "up"
        /\ \E spent \in Latency[Current] : InTime(spent) /\ Advanced(spent)
  /\ refreshed' = "fan"
  /\ fanShown' = ShownLast
  /\ UNCHANGED <<nas, setup, wol, poll, scheduled, startup, connectionVars,
                 fanNas, fanSupported, fanLast, exposed, readVars,
                 historyVars>>

\* The read, or the login before it, fails in time: the feature keeps what it
\* shows (but for the list of backup tasks, which is left out), unless a fan
\* read is answered, if only by an error.  After 404 or 405 the fan mode is not
\* asked for again.
FeatureFailed ==
  /\ Running /\ nas # "up"
  /\ \E spent \in Latency[Current] : InTime(spent) /\ Advanced(spent)
  /\ fanRead' = NoMode
  /\ \/ UNCHANGED <<fanShown, fanSupported>>
     \/ /\ Current = "fan" /\ fanSupported /\ nas = "odd"
        /\ fanShown' = ShownLast
        /\ fanSupported' \in {fanSupported, FALSE}
  /\ UNCHANGED <<nas, setup, wol, poll, scheduled, startup, connectionVars,
                 fanNas, fanLast, exposed, carried, refreshed,
                 historyVars>>

\* The share is used up: the read is cancelled.
FeatureTimedOut ==
  /\ Running
  /\ \E spent \in Latency[Current] : ~InTime(spent)
  /\ Advanced(Share(run))
  /\ fanRead' = NoMode
  /\ UNCHANGED <<nas, setup, wol, poll, scheduled, startup, connectionVars,
                 fanVars, carried, refreshed, historyVars>>

LockKept == run
LockAfterRun == NoRun

\* All features were tried: the lock is free, and a poll publishes the
\* storage it has read.
OptionalDone ==
  /\ poll = "optional" /\ run.by = "poll" /\ run.next > N
  /\ run' = LockAfterRun
  /\ known' = TRUE /\ marked' = FALSE
  /\ Returns("read")
  /\ UNCHANGED <<nas, wol, online, count, fanVars, readVars, refreshed,
                 misses>>

-----------------------------------------------------------------------------
(* The background refresh after setup.                                     *)

\* Publishing the current payload again also reports success and arms the
\* timer.
Republished ==
  /\ startup' = "done"
  /\ success' = TRUE
  /\ scheduled' = TRUE

AlwaysRefreshes == FALSE
NothingToRefresh == ~known

\* Without a payload there is nothing to refresh; with the lock taken there
\* is nothing to do but to publish.
StartupBegin ==
  /\ startup = "due"
  /\ CASE NothingToRefresh ->
            startup' = "done" /\ UNCHANGED <<run, success, scheduled>>
       [] ~NothingToRefresh /\ run.by = "none" ->
            /\ startup' = "optional"
            /\ run' = [NoRun EXCEPT !.by = "startup"]
            /\ UNCHANGED <<success, scheduled>>
       [] OTHER -> Republished /\ UNCHANGED run
  /\ UNCHANGED <<nas, setup, wol, poll, online, count, known, marked, fanVars,
                 readVars, refreshed, historyVars>>

StartupDone ==
  /\ startup = "optional" /\ run.by = "startup" /\ run.next > N
  /\ run' = LockAfterRun
  /\ Republished
  /\ UNCHANGED <<nas, setup, wol, poll, online, count, known, marked, fanVars,
                 readVars, refreshed, historyVars>>

-----------------------------------------------------------------------------
(* The user and the NAS.                                                   *)

\* Polls are asked for; Home Assistant drops the request while one is under way.
RefreshRequested == scheduled' = (scheduled \/ poll = "idle")

\* The NAS takes one of the payloads the client knows.
SetOnNas(m) ==
  /\ nas = "up" /\ fanNas' = m
  /\ UNCHANGED <<nas, setup, wol, poll, scheduled, startup, run,
                 connectionVars, fanShown, fanSupported, fanLast, exposed,
                 readVars, refreshed, historyVars>>

\* The select entity can be used while it is available, the service while the
\* device is online.
SelectFanMode == Selectable /\ \E m \in Mode \ {fanNas} : SetOnNas(m)
SetFanModeByService ==
  setup = "loaded" /\ DeviceOnline /\ \E m \in Mode \ {fanNas} : SetOnNas(m)

\* The answer to a selection comes in and its mode is shown.  Selections under
\* way are not told apart and the mode may have been changed again, so that
\* any mode may come; that of a failed selection never does.
FanModeSet ==
  /\ setup = "loaded"
  /\ \E m \in Mode : fanLast' = m /\ fanShown' = m
  /\ RefreshRequested
  /\ UNCHANGED <<nas, setup, wol, poll, startup, run, connectionVars, fanNas,
                 fanSupported, exposed, readVars, refreshed, historyVars>>

\* The NAS does what it was asked to do, and a poll is asked for.
Started ==
  /\ Selectable /\ nas = "up"
  /\ RefreshRequested
  /\ UNCHANGED <<nas, setup, wol, poll, startup, run, connectionVars, fanVars,
                 readVars, refreshed, historyVars>>

\* A listed backup task, and an update while the payload tells what is installed.
RunBackupTask == Started
InstallUpdate == known /\ Started

\* A restart or shutdown.  Nothing is asked for: a later poll finds the NAS gone.
GoesDown ==
  /\ nas = "up" /\ nas' = "down"
  /\ UNCHANGED <<setup, wol, poll, scheduled, startup, run, connectionVars,
                 fanVars, readVars, refreshed, historyVars>>

PressSystemButton == Selectable /\ GoesDown
CallPowerService == setup = "loaded" /\ DeviceOnline /\ GoesDown

\* The packets are sent, and the NAS starts.
GoesUp ==
  /\ nas = "down" /\ nas' = "up"
  /\ UNCHANGED <<setup, wol, poll, scheduled, startup, run, connectionVars,
                 fanVars, readVars, refreshed, historyVars>>

\* Waking is possible whatever the polls say, where it is configured.
PressWakeOnLan == setup = "loaded" /\ wol /\ GoesUp
CallWakeOnLan == setup = "loaded" /\ wol /\ GoesUp

\* Somebody else changes the mode.
FanChanged ==
  /\ \E m \in Mode \ {fanNas} : fanNas' = m
  /\ UNCHANGED <<nas, setup, wol, poll, scheduled, startup, run,
                 connectionVars, fanShown, fanSupported, fanLast, exposed,
                 readVars, refreshed, historyVars>>

\* Reauthentication, changed options or a retried setup: a new coordinator.
Reload ==
  /\ setup \in {"loaded", "failed"}
  /\ wol' \in BOOLEAN
  /\ setup' = "setup" /\ poll' = "storage" /\ scheduled' = FALSE
  /\ startup' = "none" /\ run' = NoRun
  /\ online' = TRUE /\ count' = 0
  /\ known' = FALSE /\ marked' = FALSE /\ success' = TRUE
  /\ fanShown' = NoMode /\ fanSupported' = TRUE /\ fanLast' = NoMode
  /\ fanRead' = NoMode /\ carried' = NoMode
  /\ refreshed' = "none" /\ misses' = 0 /\ lastPoll' = "none"
  /\ UNCHANGED <<nas, fanNas, exposed>>

NasChanges ==
  /\ nas' \in {"up", "down", "odd", "denied"} \ {nas}
  /\ UNCHANGED <<setup, wol, poll, scheduled, startup, run, connectionVars,
                 fanVars, readVars, refreshed, historyVars>>

-----------------------------------------------------------------------------
PollAnswered ==
  StorageAnswered \/ StorageRead \/ StorageLost \/ StorageOdd \/ StorageDenied
FeatureEnded ==
  FeatureRead \/ FanNotRead \/ FeatureFailed \/ FeatureTimedOut

Next ==
  \/ PollStart \/ PollAnswered
  \/ FanAnswered \/ FeatureEnded \/ OptionalDone
  \/ StartupBegin \/ StartupDone
  \/ SelectFanMode \/ SetFanModeByService \/ FanModeSet
  \/ RunBackupTask \/ InstallUpdate
  \/ PressSystemButton \/ CallPowerService
  \/ PressWakeOnLan \/ CallWakeOnLan
  \/ FanChanged \/ Reload \/ NasChanges

Spec == Init /\ [][Next]_vars

\* Timers fire, requests are answered or time out, tasks run.
Fairness ==
  /\ WF_vars(PollStart) /\ WF_vars(PollAnswered)
  /\ WF_vars(FanAnswered) /\ WF_vars(FeatureEnded) /\ WF_vars(OptionalDone)
  /\ WF_vars(StartupBegin) /\ WF_vars(StartupDone)

FairSpec == Spec /\ Fairness

-----------------------------------------------------------------------------
(* Properties.                                                             *)

Run == [by : {"none", "poll", "startup"}, next : 1..(N + 1),
        elapsed : 0..Budget]

FanTypeOK ==
  /\ fanNas \in Mode
  /\ {fanShown, fanLast, fanRead, carried} \subseteq Mode \cup {NoMode}
  /\ fanSupported \in BOOLEAN /\ exposed \in BOOLEAN

TypeOK ==
  /\ nas \in {"up", "down", "odd", "denied"}
  /\ setup \in {"setup", "loaded", "failed"}
  /\ wol \in BOOLEAN
  /\ poll \in {"idle", "storage", "optional"}
  /\ scheduled \in BOOLEAN
  /\ startup \in {"none", "due", "optional", "done"}
  /\ run \in Run
  /\ online \in BOOLEAN /\ known \in BOOLEAN /\ marked \in BOOLEAN
  /\ success \in BOOLEAN
  /\ count \in 0..Threshold /\ misses \in 0..Threshold
  /\ FanTypeOK
  /\ refreshed \in Feature \cup {"none"}
  /\ lastPoll \in {"none", "read", "lost", "odd", "denied"}

\* The two things that tell a user the NAS is gone agree: System status says
\* offline exactly when Device online is off or the last poll failed in
\* another way, except for the moment in which a poll that reached the NAS
\* still refreshes the optional features, and but for a NAS that calls itself
\* offline (_with_offline_status, native_value).
StatusAgrees ==
  poll # "optional" =>
    (SystemStatus = "offline" <=> ~DeviceOnline \/ ~success)

\* The device is offline exactly when the NAS was missed often enough since
\* it was last read, once if it was never read.
OnlineMatchesMisses ==
  online <=> misses < IF known \/ poll = "optional" THEN Threshold ELSE 1

\* Entities that report themselves available have a payload to show, also
\* when setup went on without one and the background refresh publishes.
AvailableHasData ==
  setup # "setup" /\ success => known

\* "After two consecutive connection failures, Device online reports off":
\* a device that is known goes offline right after a lost poll that follows
\* another lost poll.
OfflineAfterTwoInARow ==
  [][known /\ online /\ ~online' => lastPoll = "lost"]_vars

\* The NAS stays reachable, the entry stays loaded, and polling was not given
\* up because the credentials were refused.
GoodTimes ==
  /\ <>[](nas = "up" /\ setup = "loaded")
  /\ []<>(lastPoll # "denied")

\* No feature's read can use up the time of the others: in good times each
\* feature that answers within an equal share is refreshed again and again,
\* however long the others take.
Prompt == {f \in Feature : \A l \in Latency[f] : l * N < Budget}
SlowFeaturesBlockNoOther ==
  GoodTimes => \A f \in Prompt : []<>(refreshed = f)

\* In good times the device is online in the end, its status says so and its
\* entities are available, for good: no failure of an earlier poll, of the
\* setup or of an optional feature stops the timer or sticks.
Recovers ==
  GoodTimes => <>[](online /\ success /\ known /\ ~marked)

\* A fan mode read before the user selected another one may overwrite what
\* is shown, so may the late answer to a selection, and the poll asked for may
\* be dropped; but once no selection is under way and the mode stays
\* what it is, that mode is shown for good, unless the client has given up
\* reading it and its storage reads do not tell either.
FanModeSettles ==
  "fan" \in Prompt /\ GoodTimes
      /\ <>[][fanNas' = fanNas /\ ~FanModeSet]_fanVars =>
    <>[](CurrentOption = fanNas \/ (~fanSupported /\ ~exposed))
=============================================================================
