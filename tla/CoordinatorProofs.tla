--------------------------- MODULE CoordinatorProofs ---------------------------
(***************************************************************************)
(* The connection state is right for any optional features, latencies,     *)
(* time budget and offline threshold.                                      *)
(*                                                                         *)
(* The failure count is the number of storage reads lost since the last    *)
(* one that succeeded, once the device is known; and a poll that reached   *)
(* the NAS has cleared both.  StartupHasData is what the background        *)
(* refresh relies on when it reports success.                              *)
(***************************************************************************)
EXTENDS Coordinator, TLAPS

\* The device was read by this poll or an earlier one.
Reached == known \/ poll = "optional"

CountIsMisses ==
  /\ Reached => count = misses
  /\ poll = "optional" => misses = 0

OnlyKnownIsMarked == marked => known

\* The payload's mark is right also while failures of another kind hide it.
MarkAgrees == known /\ poll # "optional" => (marked <=> ~online)

StartupHasData == startup = "optional" => known

IInv ==
  /\ TypeOK /\ StatusAgrees /\ OnlineMatchesMisses /\ AvailableHasData
  /\ CountIsMisses /\ OnlyKnownIsMarked /\ MarkAgrees /\ StartupHasData

-----------------------------------------------------------------------------
(* The time budget.                                                        *)

LEMMA DivisionBound ==
  ASSUME NEW a \in Nat, NEW k \in Nat \ {0}
  PROVE  a \div k \in Nat /\ a \div k <= a
BY SMTT(30)

LEMMA FeatureCount == N \in Nat \ {0}
BY CoordinatorAssumption DEF N

LEMMA CurrentIsFeature ==
  ASSUME TypeOK, Running
  PROVE  Current \in Feature /\ Latency[Current] \subseteq Nat
<1>1. run.next \in 1..N
  BY FeatureCount DEF TypeOK, Run, Running
<1>2. Current \in Feature
  BY <1>1 DEF Current, Feature, N
<1> QED
  BY <1>2, CoordinatorAssumption

\* What a feature may take is what is left, or less.
LEMMA ShareIsLeft ==
  ASSUME TypeOK, Running
  PROVE  Share(run) \in Nat /\ run.elapsed + Share(run) <= Budget
<1>1. /\ run.next \in 1..N /\ run.elapsed \in 0..Budget
      /\ Budget \in Nat /\ N \in Nat
  BY FeatureCount, CoordinatorAssumption DEF TypeOK, Run, Running
<1>2. Budget - run.elapsed \in Nat /\ N - (run.next - 1) \in Nat \ {0}
  BY <1>1
<1>3. Share(run) \in Nat /\ Share(run) <= Budget - run.elapsed
  BY <1>2, DivisionBound DEF Share
<1> QED
  BY <1>1, <1>3

LEMMA AdvancedKeepsType ==
  ASSUME TypeOK, Running, NEW spent \in Nat,
         run.elapsed + spent <= Budget, Advanced(spent)
  PROVE  /\ run' \in Run
         /\ run'.by = run.by
<1>1. /\ run \in Run
      /\ run.next + 1 \in 1..(N + 1)
      /\ run.elapsed + spent \in 0..Budget
  BY FeatureCount, CoordinatorAssumption DEF TypeOK, Run, Running
<1> QED
  BY <1>1 DEF Advanced, Run

LEMMA NoRunKeepsType ==
  ASSUME NEW holder \in {"none", "poll", "startup"}
  PROVE  [NoRun EXCEPT !.by = holder] \in Run
BY FeatureCount, CoordinatorAssumption DEF NoRun, Run

-----------------------------------------------------------------------------
(* The invariant.                                                          *)

LEMMA InitEstablishes == Init => IInv
<1> SUFFICES ASSUME Init PROVE IInv
  OBVIOUS
<1>1. NoRun \in Run /\ 0 \in 0..Threshold
  BY FeatureCount, CoordinatorAssumption DEF NoRun, Run
<1>f. FanTypeOK
  BY DEF Init, FanTypeOK
<1>2. TypeOK
  BY <1>1, <1>f DEF Init, TypeOK
<1>3. StatusAgrees /\ OnlineMatchesMisses /\ AvailableHasData
  BY CoordinatorAssumption DEF Init, StatusAgrees, OnlineMatchesMisses,
    AvailableHasData, DeviceOnline, SystemStatus, PayloadStatus, NoMode
<1> QED
  BY <1>2, <1>3 DEF Init, IInv, CountIsMisses, OnlyKnownIsMarked,
                    MarkAgrees, StartupHasData

\* The fan modes that are shown, remembered and under way are modes.
LEMMA FanStep == FanTypeOK /\ [Next]_vars => FanTypeOK'
<1> SUFFICES ASSUME FanTypeOK, [Next]_vars PROVE FanTypeOK'
  OBVIOUS
<1> USE DEF FanTypeOK, fanVars, readVars
<1>1. CASE PollStart \/ StartupBegin \/ StartupDone \/ OptionalDone
  BY <1>1 DEF PollStart, StartupBegin, StartupDone, OptionalDone
<1>2. CASE StorageAnswered \/ StorageRead
  BY <1>2 DEF StorageAnswered, StorageRead
<1>3. CASE StorageLost \/ StorageOdd \/ StorageDenied
  BY <1>3 DEF StorageLost, StorageOdd, StorageDenied
<1>4. CASE FanAnswered \/ FeatureRead
  BY <1>4 DEF FanAnswered, FeatureRead
<1>5. CASE FanNotRead \/ FeatureFailed \/ FeatureTimedOut
  BY <1>5 DEF FanNotRead, FeatureFailed, FeatureTimedOut, ShownLast
<1>6. CASE SelectFanMode \/ SetFanModeByService \/ FanModeSet \/ FanChanged
  BY <1>6 DEF SelectFanMode, SetFanModeByService, SetOnNas, FanModeSet,
    FanChanged
<1>7. CASE Reload \/ NasChanges
  BY <1>7 DEF Reload, NasChanges
<1>8. CASE Started \/ GoesDown \/ GoesUp
  BY <1>8 DEF Started, GoesDown, GoesUp
<1>9. CASE UNCHANGED vars
  BY <1>9 DEF vars
<1> QED
  BY <1>1, <1>2, <1>3, <1>4, <1>5, <1>6, <1>7, <1>8, <1>9
     DEF Next, PollAnswered, FeatureEnded, RunBackupTask, InstallUpdate,
         PressSystemButton, CallPowerService, PressWakeOnLan, CallWakeOnLan

LEMMA NextPreserves == IInv /\ [Next]_vars => IInv'
<1> SUFFICES ASSUME IInv, [Next]_vars PROVE IInv'
  OBVIOUS
<1> USE DEF connectionVars, fanVars, historyVars, DeviceOnline, SystemStatus,
            PayloadStatus, NoMode, MarkAgrees
<1> DEFINE Derived ==
      /\ StatusAgrees /\ OnlineMatchesMisses /\ AvailableHasData
      /\ CountIsMisses /\ OnlyKnownIsMarked /\ MarkAgrees /\ StartupHasData
<1>0. /\ TypeOK /\ Derived
      /\ Threshold \in Nat \ {0}
  BY CoordinatorAssumption DEF IInv
<1>f. FanTypeOK'
  BY <1>0, FanStep DEF TypeOK
<1>n. /\ NoRun \in Run
      /\ \A holder \in {"none", "poll", "startup"} :
           [NoRun EXCEPT !.by = holder] \in Run
  BY NoRunKeepsType DEF NoRun
<1>1. CASE PollStart
  <2>1. TypeOK'
    <3>1. poll' \in {"idle", "storage", "optional"}
      BY <1>1 DEF PollStart
    <3>2. scheduled' \in BOOLEAN
      BY <1>1 DEF PollStart
    <3>3. UNCHANGED <<nas, setup, wol, startup, run, connectionVars,
                      refreshed, historyVars>>
      BY <1>1 DEF PollStart
    <3> QED
      BY <1>0, <1>f, <3>1, <3>2, <3>3 DEF TypeOK
  <2>2. Derived'
    BY <1>0, <1>1 DEF TypeOK, Reached, PollStart, StatusAgrees,
      OnlineMatchesMisses, AvailableHasData, CountIsMisses, OnlyKnownIsMarked,
      StartupHasData
  <2> QED
    BY <2>1, <2>2 DEF IInv
<1>2. CASE StorageRead
  <2>1. TypeOK'
    <3>1. /\ online' \in BOOLEAN /\ known' \in BOOLEAN
          /\ marked' \in BOOLEAN /\ success' \in BOOLEAN
          /\ scheduled' \in BOOLEAN
      BY <1>0, <1>2 DEF StorageRead, Returns, TypeOK
    <3>2. /\ poll' \in {"idle", "storage", "optional"}
          /\ setup' \in {"setup", "loaded", "failed"}
          /\ startup' \in {"none", "due", "optional", "done"}
          /\ lastPoll' \in {"none", "read", "lost", "odd", "denied"}
      BY <1>0, <1>2 DEF StorageRead, Returns, TypeOK
    <3>3. count' \in 0..Threshold /\ misses' \in 0..Threshold
      BY <1>0, <1>2 DEF StorageRead, CountAfterSuccess
    <3>4. run' \in Run
      BY <1>0, <1>n, <1>2 DEF StorageRead, TypeOK
    <3>5. UNCHANGED <<nas, wol, refreshed>>
      BY <1>2 DEF StorageRead
    <3> QED
      BY <1>0, <1>f, <3>1, <3>2, <3>3, <3>4, <3>5 DEF TypeOK
  <2>2. Derived'
    BY <1>0, <1>2 DEF TypeOK, Reached, StorageRead, Returns,
      CountAfterSuccess, StatusAgrees, OnlineMatchesMisses, AvailableHasData,
      CountIsMisses, OnlyKnownIsMarked, StartupHasData
  <2> QED
    BY <2>1, <2>2 DEF IInv
<1>3. CASE StorageLost
  <2>1. TypeOK'
    <3>1. /\ online' \in BOOLEAN /\ known' \in BOOLEAN
          /\ marked' \in BOOLEAN /\ success' \in BOOLEAN
          /\ scheduled' \in BOOLEAN
      BY <1>0, <1>3 DEF StorageLost, Returns, Raises, TimerAfterFailure,
        Tolerated, StatusAfterLoss, TypeOK
    <3>2. /\ poll' \in {"idle", "storage", "optional"}
          /\ setup' \in {"setup", "loaded", "failed"}
          /\ startup' \in {"none", "due", "optional", "done"}
          /\ lastPoll' \in {"none", "read", "lost", "odd", "denied"}
      BY <1>0, <1>3 DEF StorageLost, Returns, Raises, TypeOK
    <3>3. count' \in 0..Threshold /\ misses' \in 0..Threshold
      BY <1>0, <1>3 DEF StorageLost, AtMost, TypeOK
    <3>4. UNCHANGED <<nas, wol, run, refreshed>>
      BY <1>3 DEF StorageLost
    <3> QED
      BY <1>0, <1>f, <3>1, <3>2, <3>3, <3>4 DEF TypeOK
  <2>2. Derived'
    BY <1>0, <1>3 DEF TypeOK, Reached, StorageLost, Returns, Raises,
      Tolerated, StatusAfterLoss, AtMost, StatusAgrees, OnlineMatchesMisses,
      AvailableHasData, CountIsMisses, OnlyKnownIsMarked, StartupHasData
  <2> QED
    BY <2>1, <2>2 DEF IInv
<1>4. CASE StorageOdd
  <2>1. TypeOK'
    <3>1. success' \in BOOLEAN /\ scheduled' \in BOOLEAN
      BY <1>0, <1>4 DEF StorageOdd, Raises, TimerAfterFailure, TypeOK
    <3>2. /\ poll' \in {"idle", "storage", "optional"}
          /\ setup' \in {"setup", "loaded", "failed"}
          /\ startup' \in {"none", "due", "optional", "done"}
          /\ lastPoll' \in {"none", "read", "lost", "odd", "denied"}
      BY <1>0, <1>4 DEF StorageOdd, Raises, TypeOK
    <3>3. UNCHANGED <<nas, wol, run, online, count, known, marked,
                      refreshed, misses>>
      BY <1>4 DEF StorageOdd
    <3> QED
      BY <1>0, <1>f, <3>1, <3>2, <3>3 DEF TypeOK
  <2>2. Derived'
    BY <1>0, <1>4 DEF TypeOK, Reached, StorageOdd, Raises, StatusAgrees,
      OnlineMatchesMisses, AvailableHasData, CountIsMisses, OnlyKnownIsMarked,
      StartupHasData
  <2> QED
    BY <2>1, <2>2 DEF IInv
<1>5. CASE StorageDenied
  <2>1. TypeOK'
    <3>1. success' \in BOOLEAN /\ scheduled' \in BOOLEAN
      BY <1>0, <1>5 DEF StorageDenied, Raises, TimerAfterFailure, TypeOK
    <3>2. /\ poll' \in {"idle", "storage", "optional"}
          /\ setup' \in {"setup", "loaded", "failed"}
          /\ startup' \in {"none", "due", "optional", "done"}
          /\ lastPoll' \in {"none", "read", "lost", "odd", "denied"}
      BY <1>0, <1>5 DEF StorageDenied, Raises, TypeOK
    <3>3. UNCHANGED <<nas, wol, run, online, count, known, marked,
                      refreshed, misses>>
      BY <1>5 DEF StorageDenied
    <3> QED
      BY <1>0, <1>f, <3>1, <3>2, <3>3 DEF TypeOK
  <2>2. Derived'
    BY <1>0, <1>5 DEF TypeOK, Reached, StorageDenied, Raises, StatusAgrees,
      OnlineMatchesMisses, AvailableHasData, CountIsMisses, OnlyKnownIsMarked,
      StartupHasData
  <2> QED
    BY <2>1, <2>2 DEF IInv
<1>6. CASE FanAnswered \/ FeatureEnded
  <2>1. /\ \/ UNCHANGED run
           \/ \E spent \in Nat :
                /\ Running /\ run.elapsed + spent <= Budget
                /\ Advanced(spent)
        /\ refreshed' \in Feature \cup {"none"}
    <3>1. CASE FanAnswered
      BY <1>0, <3>1 DEF FanAnswered, TypeOK
    <3>2. CASE FeatureRead \/ FeatureFailed
      <4>1. PICK spent \in Latency[Current] : InTime(spent) /\ Advanced(spent)
        BY <3>2 DEF FeatureRead, FeatureFailed
      <4>2. Running /\ refreshed' \in {refreshed, Current}
        BY <3>2 DEF FeatureRead, FeatureFailed
      <4>3. /\ spent \in Nat /\ Share(run) \in Nat
            /\ run.elapsed + Share(run) <= Budget /\ Current \in Feature
        BY <1>0, <4>1, <4>2, CurrentIsFeature, ShareIsLeft
      <4>4. run.elapsed + spent <= Budget
        BY <1>0, <4>1, <4>3, CoordinatorAssumption DEF InTime, TypeOK, Run
      <4> QED
        BY <1>0, <4>1, <4>2, <4>3, <4>4 DEF TypeOK
    <3>3. CASE FeatureTimedOut
      <4>1. Share(run) \in Nat /\ run.elapsed + Share(run) <= Budget
        BY <1>0, <3>3, ShareIsLeft DEF FeatureTimedOut
      <4> QED
        BY <1>0, <3>3, <4>1 DEF FeatureTimedOut, TypeOK
    <3>4. CASE FanNotRead
      <4>1. Running /\ Current = "fan" /\ refreshed' = "fan"
        BY <3>4 DEF FanNotRead
      <4>2. Current \in Feature /\ run.elapsed \in 0..Budget /\ Budget \in Nat
        BY <1>0, <4>1, CurrentIsFeature, CoordinatorAssumption
           DEF TypeOK, Run
      <4>3. CASE Advanced(0)
        <5>1. run.elapsed + 0 <= Budget
          BY <4>2
        <5> QED
          BY <4>1, <4>2, <4>3, <5>1
      <4>4. ASSUME NEW spent \in Latency[Current], InTime(spent), Advanced(spent)
            PROVE  \E n \in Nat : run.elapsed + n <= Budget /\ Advanced(n)
        <5>1. /\ spent \in Nat /\ Share(run) \in Nat
              /\ run.elapsed + Share(run) <= Budget
          BY <1>0, <4>1, <4>2, <4>4, ShareIsLeft, CoordinatorAssumption
        <5>2. run.elapsed + spent <= Budget
          BY <4>2, <4>4, <5>1 DEF InTime
        <5> QED BY <4>4, <5>1, <5>2
      <4> QED
        BY <3>4, <4>1, <4>2, <4>3, <4>4 DEF FanNotRead
    <3> QED
      BY <1>6, <3>1, <3>2, <3>3, <3>4 DEF FeatureEnded
  <2>2. run' \in Run
    BY <1>0, <2>1, AdvancedKeepsType DEF TypeOK
  <2>3. UNCHANGED <<nas, setup, wol, poll, scheduled, startup,
                    connectionVars, historyVars>>
    BY <1>6 DEF FanAnswered, FeatureEnded, FeatureRead, FeatureFailed,
      FanNotRead, FeatureTimedOut
  <2>4. TypeOK'
    BY <1>0, <1>f, <2>1, <2>2, <2>3 DEF TypeOK
  <2>5. Derived'
    BY <1>0, <2>3 DEF TypeOK, Reached, StatusAgrees, OnlineMatchesMisses,
      AvailableHasData, CountIsMisses, OnlyKnownIsMarked, StartupHasData
  <2> QED
    BY <2>4, <2>5 DEF IInv
<1>7. CASE OptionalDone
  <2>1. TypeOK'
    <3>1. /\ known' \in BOOLEAN /\ marked' \in BOOLEAN
          /\ success' \in BOOLEAN /\ scheduled' \in BOOLEAN
      BY <1>7 DEF OptionalDone, Returns
    <3>2. /\ poll' \in {"idle", "storage", "optional"}
          /\ setup' \in {"setup", "loaded", "failed"}
          /\ startup' \in {"none", "due", "optional", "done"}
          /\ lastPoll' \in {"none", "read", "lost", "odd", "denied"}
      BY <1>0, <1>7 DEF OptionalDone, Returns, TypeOK
    <3>3. run' \in Run
      BY <1>n, <1>7 DEF OptionalDone, LockAfterRun
    <3>4. UNCHANGED <<nas, wol, online, count, refreshed, misses>>
      BY <1>7 DEF OptionalDone
    <3> QED
      BY <1>0, <1>f, <3>1, <3>2, <3>3, <3>4 DEF TypeOK
  <2>2. Derived'
    BY <1>0, <1>7 DEF TypeOK, Reached, OptionalDone, Returns, StatusAgrees,
      OnlineMatchesMisses, AvailableHasData, CountIsMisses, OnlyKnownIsMarked,
      StartupHasData
  <2> QED
    BY <2>1, <2>2 DEF IInv
<1>8. CASE StartupBegin
  <2>1. TypeOK'
    <3>1. /\ startup' \in {"none", "due", "optional", "done"}
          /\ success' \in BOOLEAN /\ scheduled' \in BOOLEAN
      BY <1>0, <1>8 DEF StartupBegin, Republished, TypeOK
    <3>2. run' \in Run
      BY <1>0, <1>n, <1>8 DEF StartupBegin, TypeOK
    <3>3. UNCHANGED <<nas, setup, wol, poll, online, count, known, marked,
                      refreshed, historyVars>>
      BY <1>8 DEF StartupBegin
    <3> QED
      BY <1>0, <1>f, <3>1, <3>2, <3>3 DEF TypeOK
  <2>2. Derived'
    BY <1>0, <1>8 DEF TypeOK, Reached, StartupBegin, Republished,
      NothingToRefresh, StatusAgrees, OnlineMatchesMisses, AvailableHasData,
      CountIsMisses, OnlyKnownIsMarked, StartupHasData
  <2> QED
    BY <2>1, <2>2 DEF IInv
<1>9. CASE StartupDone
  <2>1. TypeOK'
    <3>1. /\ startup' \in {"none", "due", "optional", "done"}
          /\ success' \in BOOLEAN /\ scheduled' \in BOOLEAN
          /\ run' \in Run
      BY <1>n, <1>9 DEF StartupDone, Republished, LockAfterRun
    <3>2. UNCHANGED <<nas, setup, wol, poll, online, count, known, marked,
                      refreshed, historyVars>>
      BY <1>9 DEF StartupDone
    <3> QED
      BY <1>0, <1>f, <3>1, <3>2 DEF TypeOK
  <2>2. Derived'
    BY <1>0, <1>9 DEF TypeOK, Reached, StartupDone, Republished,
      StatusAgrees, OnlineMatchesMisses, AvailableHasData, CountIsMisses,
      OnlyKnownIsMarked, StartupHasData
  <2> QED
    BY <2>1, <2>2 DEF IInv
<1>10. CASE \/ SelectFanMode \/ SetFanModeByService \/ FanModeSet
            \/ FanChanged \/ RunBackupTask \/ InstallUpdate
  <2>1. scheduled' \in BOOLEAN
    BY <1>0, <1>10 DEF SelectFanMode, SetFanModeByService, SetOnNas,
      FanModeSet, FanChanged, RunBackupTask, InstallUpdate, Started,
      RefreshRequested, TypeOK
  <2>2. UNCHANGED <<nas, setup, wol, poll, startup, run, connectionVars,
                    refreshed, historyVars>>
    BY <1>10 DEF SelectFanMode, SetFanModeByService, SetOnNas, FanModeSet,
      FanChanged, RunBackupTask, InstallUpdate, Started
  <2>3. TypeOK'
    BY <1>0, <1>f, <2>1, <2>2 DEF TypeOK
  <2>4. Derived'
    BY <1>0, <2>2 DEF TypeOK, Reached, StatusAgrees, OnlineMatchesMisses,
      AvailableHasData, CountIsMisses, OnlyKnownIsMarked, StartupHasData
  <2> QED
    BY <2>3, <2>4 DEF IInv
<1>11. CASE Reload
  <2>1. TypeOK'
    <3>1. /\ setup' \in {"setup", "loaded", "failed"}
          /\ poll' \in {"idle", "storage", "optional"}
          /\ startup' \in {"none", "due", "optional", "done"}
          /\ run' \in Run /\ wol' \in BOOLEAN /\ scheduled' \in BOOLEAN
      BY <1>n, <1>11 DEF Reload
    <3>2. /\ online' \in BOOLEAN /\ known' \in BOOLEAN
          /\ marked' \in BOOLEAN /\ success' \in BOOLEAN
      BY <1>11 DEF Reload
    <3>3. count' \in 0..Threshold /\ misses' \in 0..Threshold
      BY <1>0, <1>11 DEF Reload
    <3>4. /\ refreshed' \in Feature \cup {"none"}
          /\ lastPoll' \in {"none", "read", "lost", "odd", "denied"}
          /\ nas' \in {"up", "down", "odd", "denied"}
      BY <1>0, <1>11 DEF Reload, TypeOK
    <3> QED
      BY <1>f, <3>1, <3>2, <3>3, <3>4 DEF TypeOK
  <2>2. Derived'
    BY <1>0, <1>11 DEF TypeOK, Reached, Reload, StatusAgrees,
      OnlineMatchesMisses, AvailableHasData, CountIsMisses, OnlyKnownIsMarked,
      StartupHasData
  <2> QED
    BY <2>1, <2>2 DEF IInv
<1>12. CASE NasChanges \/ GoesDown \/ GoesUp
  <2>1. TypeOK'
    BY <1>0, <1>f, <1>12 DEF NasChanges, GoesDown, GoesUp, TypeOK
  <2>2. Derived'
    BY <1>0, <1>12 DEF TypeOK, Reached, NasChanges, GoesDown, GoesUp,
      StatusAgrees, OnlineMatchesMisses, AvailableHasData, CountIsMisses,
      OnlyKnownIsMarked, StartupHasData
  <2> QED
    BY <2>1, <2>2 DEF IInv
<1>13. CASE StorageAnswered
  <2>1. TypeOK'
    BY <1>0, <1>f, <1>13 DEF StorageAnswered, TypeOK
  <2>2. Derived'
    BY <1>0, <1>13 DEF TypeOK, Reached, StorageAnswered, StatusAgrees,
      OnlineMatchesMisses, AvailableHasData, CountIsMisses, OnlyKnownIsMarked,
      StartupHasData
  <2> QED
    BY <2>1, <2>2 DEF IInv
<1>14. CASE UNCHANGED vars
  <2>1. TypeOK'
    BY <1>0, <1>f, <1>14 DEF vars, TypeOK
  <2>2. Derived'
    BY <1>0, <1>14 DEF TypeOK, Reached, vars, StatusAgrees,
      OnlineMatchesMisses, AvailableHasData, CountIsMisses, OnlyKnownIsMarked,
      StartupHasData
  <2> QED
    BY <2>1, <2>2 DEF IInv
<1> QED
  BY <1>1, <1>2, <1>3, <1>4, <1>5, <1>6, <1>7, <1>8, <1>9, <1>10, <1>11,
     <1>12, <1>13, <1>14 DEF Next, PollAnswered, PressSystemButton,
     CallPowerService, PressWakeOnLan, CallWakeOnLan

LEMMA Invariance == Spec => []IInv
BY InitEstablishes, NextPreserves, PTL DEF Spec

-----------------------------------------------------------------------------
(* The theorems.                                                           *)

\* Types are kept; in particular the optional refresh never runs past its
\* time budget (_async_refresh_optional_features).
THEOREM TypeCorrect == Spec => []TypeOK
<1>1. IInv => TypeOK
  BY DEF IInv
<1> QED
  BY <1>1, Invariance, PTL

\* "Device online" and the system status of the payload tell the same story,
\* whatever polls were lost, refused, odd or tolerated in between.
THEOREM StatusesAgree == Spec => []StatusAgrees
<1>1. IInv => StatusAgrees
  BY DEF IInv
<1> QED
  BY <1>1, Invariance, PTL

\* The device is offline exactly after Threshold storage reads were lost
\* without one that succeeded, for every Threshold.
THEOREM OnlineIsEarned == Spec => []OnlineMatchesMisses
<1>1. IInv => OnlineMatchesMisses
  BY DEF IInv
<1> QED
  BY <1>1, Invariance, PTL

\* No entity is available without a payload, although setup may go on
\* without one and the background refresh reports success on its own.
THEOREM AvailableEntitiesHaveData == Spec => []AvailableHasData
<1>1. IInv => AvailableHasData
  BY DEF IInv
<1> QED
  BY <1>1, Invariance, PTL
=============================================================================
