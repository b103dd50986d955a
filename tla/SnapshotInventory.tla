-------------------------- MODULE SnapshotInventory --------------------------
(***************************************************************************)
(* The snapshot half of the coordinator's optional refresh: the settings   *)
(* read, and the slow, resumable batch that reads one snapshot inventory   *)
(* per target (coordinator.py:263-497).                                    *)
(*                                                                         *)
(* Only one refresh runs at a time (the optional refresh lock), so the     *)
(* coroutine is one process with a program counter: it is suspended either *)
(* in the settings read or in the inventory read of the first pending      *)
(* target.  Everything else in this module interleaves with those two      *)
(* suspensions: acknowledged writes asking for a re-read, targets coming   *)
(* and going on the NAS, the clock, and the budget timeout that cancels    *)
(* the coroutine where it waits.                                           *)
(*                                                                         *)
(* The contents of an inventory are abstracted to whether one is shown and *)
(* whether it can predate an acknowledged write ("owed").  The local       *)
(* copies of the inventory and error dictionaries are published after      *)
(* every target and nothing else assigns the attributes in between, so     *)
(* they are not separate variables.                                        *)
(***************************************************************************)
EXTENDS Naturals, Sequences, FiniteSets, Functions

CONSTANTS
  Key,        \* snapshot target keys the NAS may ever advertise
  Type,       \* normalised target types ("shared", "mydrive")
  TypeOf,     \* the type of each key
  Rank,       \* the place of each key under Python's sorted()
  Refusing,   \* keys whose inventory routes never answer but by 404/405
  Stalled,    \* keys whose inventory read never answers in time
  Transient,  \* keys the NAS may add or remove; the others stay
  Failures,   \* the read failures explored, a subset of Reason
  Reader,     \* who reads the settings: the poll, a service, a write
  Interval,   \* clock ticks in the ten-minute refresh interval
  MaxWrites   \* bound on acknowledged writes in a behaviour

ASSUME KeyAssumption ==
  /\ IsFiniteSet(Key)
  /\ TypeOf \in [Key -> Type]
  /\ Rank \in [Key -> Nat]
  /\ \A a, b \in Key : Rank[a] = Rank[b] => a = b
  /\ Refusing \subseteq Key
  /\ Stalled \subseteq Key
  /\ Transient \subseteq Key

ASSUME BoundAssumption ==
  /\ Failures \subseteq {"permission", "unsupported", "retry"}
  /\ Reader \subseteq {"poll", "service", "write"}
  /\ Interval \in Nat \ {0}
  /\ MaxWrites \in Nat

VARIABLES
  targets,       \* keys in the NAS's settings document now
  readSupported, \* client._snapshot_settings_read_supported
  typeFlag,      \* client._snapshot_inventory_supported_by_type
  settings,      \* keys in coordinator.snapshot_settings
  available,     \* coordinator.snapshot_settings_available
  readIssue,     \* the "read" repairs issue of the entry
  service,       \* a service call's own read of the settings
  lateDenial,    \* readIssue is from a service read a poll overtook
  asking,        \* readers whose settings request is under way
  inventory,     \* keys of coordinator.snapshot_inventory
  errors,        \* coordinator.snapshot_inventory_errors
  skip,          \* coordinator.snapshot_inventory_skip_reasons
  targetKeys,    \* _snapshot_inventory_target_keys
  batchOpen,     \* _snapshot_inventory_pending_targets is not None
  pending,       \* _snapshot_inventory_pending_targets, in dict order
  batchAge,      \* ticks since _snapshot_inventory_batch_started
  requested,     \* _snapshot_inventory_refresh_requested
  lastAge,       \* ticks since _snapshot_inventory_last_refresh
  pc,            \* where the refresh coroutine is suspended
  typeMap,       \* the coroutine's copy of typeFlag, taken per call
  overtaken,     \* a write to the key being read was acknowledged meanwhile
  owed,          \* keys with an acknowledged write not yet re-read
  writes         \* acknowledged writes so far

deviceVars == <<targets, owed, writes>>
clientVars == <<readSupported, typeFlag>>
issueVars  == <<settings, available, readIssue, service, lateDenial, asking>>
cacheVars  == <<inventory, errors, skip>>
batchVars  == <<targetKeys, batchOpen, pending, batchAge, requested, lastAge>>
localVars  == <<pc, typeMap, overtaken>>
vars == <<deviceVars, clientVars, issueVars, cacheVars, batchVars, localVars>>

NoReason == "none"
Sticky   == {"permission", "unsupported"}
Reason   == Sticky \cup {"retry"}
Flag     == {"unknown", "yes", "no"}
NoMap    == [t \in Type |-> "unknown"]

\* Every order a pending dictionary can have.
Queues == UNION {[1..n -> Key] : n \in 0..Cardinality(Key)}

TypeOK ==
  /\ targets \subseteq Key
  /\ readSupported \in Flag
  /\ typeFlag \in [Type -> Flag]
  /\ settings \subseteq Key
  /\ available \in BOOLEAN
  /\ readIssue \in {NoReason, "permission", "unavailable"}
  /\ service \in {"idle", "reading", "overtaken"}
  /\ lateDenial \in BOOLEAN
  /\ asking \subseteq Reader
  /\ inventory \subseteq Key
  /\ errors \in [Key -> Reason \cup {NoReason}]
  /\ skip \in [Key -> Sticky \cup {NoReason}]
  /\ targetKeys \subseteq Key
  /\ batchOpen \in BOOLEAN
  /\ pending \in Seq(Key)
  /\ batchAge \in 0..Interval
  /\ requested \in BOOLEAN
  /\ lastAge \in 0..Interval
  /\ pc \in {"idle", "settings", "reading"}
  /\ typeMap \in [Type -> Flag]
  /\ overtaken \in BOOLEAN
  /\ owed \subseteq Key
  /\ writes \in 0..MaxWrites

(***************************************************************************)
(* The coordinator starts with nothing cached.  The repairs issue is       *)
(* persistent, so it may survive from an earlier run.  "Never refreshed"   *)
(* is due at once, as a refresh a full interval old is: lastAge = Interval *)
(* stands for both.                                                        *)
(***************************************************************************)
Init ==
  /\ targets \in {S \in SUBSET Key : Key \ Transient \subseteq S}
  /\ readSupported = "unknown"
  /\ typeFlag = [t \in Type |-> "unknown"]
  /\ settings = {}
  /\ available = FALSE
  /\ readIssue \in {NoReason, "permission", "unavailable"}
  /\ service = "idle"
  /\ lateDenial = FALSE
  /\ asking = {}
  /\ inventory = {}
  /\ errors = [k \in Key |-> NoReason]
  /\ skip = [k \in Key |-> NoReason]
  /\ targetKeys = {}
  /\ batchOpen = FALSE
  /\ pending = <<>>
  /\ batchAge = 0
  /\ requested = FALSE
  /\ lastAge = Interval
  /\ pc = "idle"
  /\ typeMap = NoMap
  /\ overtaken = FALSE
  /\ owed = {}
  /\ writes = 0

-----------------------------------------------------------------------------
(* The order of a pending dictionary.                                      *)

\* "a" comes before "b" when the keys of "old" keep their places and the
\* others follow in sorted order: dict.setdefault, dict.update and
\* dict.fromkeys(sorted(...)).
Before(a, b, old) ==
  \/ \E i, j \in DOMAIN old : i < j /\ old[i] = a /\ old[j] = b
  \/ a \in Range(old) /\ b \notin Range(old)
  \/ a \notin Range(old) /\ b \notin Range(old) /\ Rank[a] < Rank[b]

\* "queue" holds exactly the keys "keys": those of "old" first.
Arranged(queue, old, keys) ==
  /\ Range(queue) = keys
  /\ \A i, j \in DOMAIN queue : i < j => Before(queue[i], queue[j], old)

\* A read cut off by the budget is retried after its peers.
RequeueInPlace(queue) == queue
Requeue(queue) == Append(Tail(queue), Head(queue))

Only(reasons, keys) ==
  [k \in Key |-> IF k \in keys THEN reasons[k] ELSE NoReason]

-----------------------------------------------------------------------------
(* The loop over the pending targets.                                      *)

\* A target is read unless an earlier failure, or the failure of its type,
\* is remembered.
NeedsReadByType(k, skipped, map) == map[TypeOf[k]] # "no"
NeedsRead(k, skipped, map) ==
  skipped[k] = NoReason /\ map[TypeOf[k]] # "no"

\* Run the loop from the head of "queue" to its next suspension: the
\* leading targets that need no read are settled, and the coroutine stops
\* at the first read or, with none left, closes the batch.
RunLoop(queue, shown, errs, skipped, map, age) ==
  \E n \in 0..Len(queue) :
    LET passed == {queue[i] : i \in 1..n}
        marked == [k \in Key |-> IF k \in passed /\ skipped[k] = NoReason
                                 THEN "unsupported" ELSE skipped[k]]
    IN
    /\ \A i \in 1..n : ~NeedsRead(queue[i], skipped, map)
    /\ n < Len(queue) => NeedsRead(queue[n + 1], skipped, map)
    /\ skip' = marked
    /\ errors' = [k \in Key |-> IF k \in passed THEN marked[k] ELSE errs[k]]
    /\ inventory' = shown \ passed
    /\ overtaken' = FALSE
    /\ IF n < Len(queue)
       THEN /\ pc' = "reading"
            /\ typeMap' = map
            /\ batchOpen' = TRUE
            /\ pending' = SubSeq(queue, n + 1, Len(queue))
            /\ batchAge' = age
            /\ UNCHANGED lastAge
       ELSE /\ pc' = "idle"
            /\ typeMap' = NoMap
            /\ batchOpen' = FALSE
            /\ pending' = <<>>
            /\ batchAge' = 0
            /\ lastAge' = 0

-----------------------------------------------------------------------------
(* One coordinator refresh.                                                *)

\* The flag is looked at once, before the request is sent: a request under
\* way when another's 404 clears the flag may still be answered and set it.
Ask(reader) ==
  /\ reader \notin asking
  /\ readSupported # "no"
  /\ reader = "poll" => pc = "settings"
  /\ reader = "service" => service # "idle"
  /\ asking' = asking \cup {reader}
  /\ UNCHANGED <<deviceVars, clientVars, settings, available, readIssue,
                 service, lateDenial, cacheVars, batchVars, localVars>>

\* A reader was answered 404/405, or does not ask because one was before.
Denied(reader) == reader \in asking \/ readSupported = "no"

\* The poll reached the snapshot refresher and holds the optional lock.
PollStart ==
  /\ pc = "idle"
  /\ pc' = "settings"
  /\ UNCHANGED <<deviceVars, clientVars, issueVars, cacheVars, batchVars,
                 typeMap, overtaken>>

\* The budget ran out in the settings read, or the read failed: connection
\* failures say nothing about permissions and leave the repairs issue alone.
SettingsFailed ==
  /\ pc = "settings"
  /\ pc' = "idle"
  /\ available' = FALSE
  /\ readIssue' \in {readIssue, "permission", "unavailable"}
  /\ asking' = asking \ {"poll"}
  /\ UNCHANGED <<deviceVars, clientVars, settings, service, lateDenial,
                 cacheVars, batchVars, typeMap, overtaken>>

\* 404/405: the client never asks again, the cached targets are kept.
SettingsUnsupported ==
  /\ pc = "settings"
  /\ Denied("poll")
  /\ readSupported' = "no"
  /\ asking' = asking \ {"poll"}
  /\ pc' = "idle"
  /\ available' = FALSE
  /\ readIssue' = "unavailable"
  /\ UNCHANGED <<deviceVars, typeFlag, settings, service, lateDenial,
                 cacheVars, batchVars, typeMap, overtaken>>

IssueAfterReadKept == readIssue
IssueAfterRead == NoReason

\* A batch is due on request, while one is unfinished, and every Interval.
RefreshDue(wanted) == wanted \/ batchOpen \/ lastAge = Interval

PrunedShownNone(keys) == {}
PrunedShown(keys) == inventory \cap keys

\* Start or resume the batch.  The target set having changed asks for a new
\* batch, or for the new targets to join the open one; a request or a batch
\* open for a whole Interval makes the finished targets join it again.
\* "wanted" is the request flag after the comparison of target sets.
JoinOpenBatch(known, active) == (Range(pending) \cap active) \cup (active \ known)
RevisitsOnExpiryOnly == batchAge = Interval
RevisitsFinished == requested \/ batchAge = Interval

RejoinNothing(queue, joined, active) == queue = joined
Rejoin(queue, joined, active) ==
  IF RevisitsFinished THEN Arranged(queue, joined, active) ELSE queue = joined

OpenBatch(active) ==
  \E queue \in Queues :
    /\ Arranged(queue, <<>>, active)
    /\ requested' = FALSE
    /\ RunLoop(queue, PrunedShown(active), Only(errors, active),
               Only(skip, active), typeFlag, 0)

ResumeBatch(active) ==
  \E joined \in Queues :
    /\ IF active # targetKeys
       THEN Arranged(joined, pending, JoinOpenBatch(targetKeys, active))
       ELSE joined = pending
    /\ \E queue \in Queues :
         /\ Rejoin(queue, joined, active)
         /\ requested' = (requested /\ ~RevisitsFinished)
         /\ RunLoop(queue, PrunedShown(active), Only(errors, active),
                    Only(skip, active), typeFlag,
                    IF RevisitsFinished THEN 0 ELSE batchAge)

\* Not due: only prune what belongs to targets no longer advertised.
KeepCache(active) ==
  /\ inventory' = PrunedShown(active)
  /\ errors' = Only(errors, active)
  /\ skip' = Only(skip, active)
  /\ pc' = "idle"
  /\ UNCHANGED <<batchOpen, pending, batchAge, requested, lastAge, typeMap,
                 overtaken>>

SettingsRead ==
  /\ pc = "settings"
  /\ "poll" \in asking
  /\ asking' = asking \ {"poll"}
  /\ readSupported' = "yes"
  /\ settings' = targets
  /\ available' = TRUE
  /\ readIssue' = IssueAfterRead
  /\ lateDenial' = FALSE
  /\ service' = IF service = "idle" THEN "idle" ELSE "overtaken"
  /\ targetKeys' = targets
  /\ LET wanted == requested \/ (targets # targetKeys /\ ~batchOpen)
     IN  \/ ~RefreshDue(wanted) /\ KeepCache(targets)
         \/ RefreshDue(wanted) /\ ~batchOpen /\ OpenBatch(targets)
         \/ batchOpen /\ ResumeBatch(targets)
  /\ UNCHANGED <<deviceVars, typeFlag>>

-----------------------------------------------------------------------------
(* The answer to an inventory read.  "k" is the head of the pending queue. *)

Reading(k) == pc = "reading" /\ k = Head(pending)

\* A read sent before a write was acknowledged may predate it.
Settled(k) == IF overtaken THEN owed ELSE owed \ {k}

ReadOk(k) ==
  /\ Reading(k)
  /\ k \notin Refusing
  /\ typeFlag' = [typeFlag EXCEPT ![TypeOf[k]] = "yes"]
  /\ owed' = Settled(k)
  /\ RunLoop(Tail(pending), inventory \cup {k},
             [errors EXCEPT ![k] = NoReason],
             [skip EXCEPT ![k] = NoReason], typeMap, batchAge)
  /\ UNCHANGED <<targets, writes, readSupported, issueVars, targetKeys,
                 requested>>

FailedReadKept(k) == inventory
FailedRead(k) == inventory \ {k}
RememberAny(k, reason) == [skip EXCEPT ![k] = reason]
Remember(k, reason) ==
  IF reason \in Sticky THEN [skip EXCEPT ![k] = reason] ELSE skip

\* 404/405 on every route of the target marks its whole type unsupported;
\* a permission failure sticks to the target; any other failure is retried
\* with the next batch.
ReadFailed(k, reason) ==
  /\ Reading(k)
  /\ k \in Refusing => reason = "unsupported"
  /\ typeFlag' = IF reason = "unsupported"
                 THEN [typeFlag EXCEPT ![TypeOf[k]] = "no"] ELSE typeFlag
  /\ RunLoop(Tail(pending), FailedRead(k), [errors EXCEPT ![k] = reason],
             Remember(k, reason), typeMap, batchAge)
  /\ UNCHANGED <<deviceVars, readSupported, issueVars, targetKeys, requested>>

Reply(k) == ReadOk(k) \/ \E reason \in Failures : ReadFailed(k, reason)

\* asyncio.timeout cancels the coroutine where it waits.
ReadCancelled ==
  /\ pc = "reading"
  /\ pc' = "idle"
  /\ pending' = Requeue(pending)
  /\ typeMap' = NoMap
  /\ overtaken' = FALSE
  /\ UNCHANGED <<deviceVars, clientVars, issueVars, cacheVars, targetKeys,
                 batchOpen, batchAge, requested, lastAge>>

-----------------------------------------------------------------------------
(* The environment.                                                        *)

\* A create or settings write on k was acknowledged by the NAS and its
\* caller asks for a re-read (request_snapshot_inventory_refresh).
WriteAcknowledged(k) ==
  /\ writes < MaxWrites
  /\ k \in targets
  /\ writes' = writes + 1
  /\ owed' = owed \cup {k}
  /\ requested' = TRUE
  /\ overtaken' = (overtaken \/ Reading(k))
  /\ UNCHANGED <<targets, clientVars, issueVars, cacheVars, targetKeys,
                 batchOpen, pending, batchAge, lastAge, pc, typeMap>>

\* A settings write re-reads the settings through the same client and learns
\* whether the endpoint answers.
SettingsReadByWrite ==
  /\ "write" \in asking
  /\ asking' = asking \ {"write"}
  /\ readSupported' \in {readSupported, "yes", "no"}
  /\ UNCHANGED <<deviceVars, typeFlag, settings, available, readIssue,
                 service, lateDenial, cacheVars, batchVars, localVars>>

\* A service call finds no cached targets and reads them itself, beside the
\* poll and without its lock.
ServiceReadStart ==
  /\ service = "idle"
  /\ settings = {}
  /\ service' = "reading"
  /\ UNCHANGED <<deviceVars, clientVars, settings, available, readIssue,
                 lateDenial, asking, cacheVars, batchVars, localVars>>

ServiceReadOk ==
  /\ service # "idle"
  /\ "service" \in asking
  /\ asking' = asking \ {"service"}
  /\ readSupported' = "yes"
  /\ settings' = targets
  /\ readIssue' = IssueAfterRead
  /\ lateDenial' = FALSE
  /\ service' = "idle"
  /\ UNCHANGED <<deviceVars, typeFlag, available, cacheVars, batchVars,
                 localVars>>

\* 404/405, now or earlier, reads as an empty list of targets.
ServiceReadUnsupported ==
  /\ service # "idle"
  /\ Denied("service")
  /\ asking' = asking \ {"service"}
  /\ readSupported' = "no"
  /\ settings' = {}
  /\ readIssue' = "unavailable"
  /\ service' = "idle"
  /\ UNCHANGED <<deviceVars, typeFlag, available, lateDenial, cacheVars,
                 batchVars, localVars>>

\* Only a refused login or permission reports the issue; the other failures
\* leave everything as it is.
ServiceReadFailed ==
  /\ service # "idle"
  /\ \/ UNCHANGED <<readIssue, lateDenial>>
     \/ /\ readIssue' = "permission"
        /\ lateDenial' = (lateDenial \/ service = "overtaken")
  /\ service' = "idle"
  /\ asking' = asking \ {"service"}
  /\ UNCHANGED <<deviceVars, clientVars, settings, available, cacheVars,
                 batchVars, localVars>>

\* A drive is created or deleted on the NAS.
TargetsChange ==
  /\ \E k \in Transient :
       targets' = IF k \in targets THEN targets \ {k} ELSE targets \cup {k}
  /\ UNCHANGED <<owed, writes, clientVars, issueVars, cacheVars, batchVars,
                 localVars>>

Older(age) == IF age < Interval THEN age + 1 ELSE Interval

Tick ==
  /\ lastAge' = Older(lastAge)
  /\ batchAge' = IF batchOpen THEN Older(batchAge) ELSE batchAge
  /\ <<lastAge, batchAge>>' # <<lastAge, batchAge>>
  /\ UNCHANGED <<deviceVars, clientVars, issueVars, cacheVars, targetKeys,
                 batchOpen, pending, requested, localVars>>

Next ==
  \/ PollStart
  \/ \E reader \in Reader : Ask(reader)
  \/ SettingsFailed
  \/ SettingsUnsupported
  \/ SettingsRead
  \/ \E k \in Key \ Stalled : Reply(k)
  \/ ReadCancelled
  \/ \E k \in Key : WriteAcknowledged(k)
  \/ SettingsReadByWrite
  \/ ServiceReadStart
  \/ ServiceReadOk
  \/ ServiceReadUnsupported
  \/ ServiceReadFailed
  \/ TargetsChange
  \/ Tick

Spec == Init /\ [][Next]_vars

(***************************************************************************)
(* Polls keep being scheduled; a settings read that is tried again and     *)
(* again is sent and answered at last, and so is the inventory read of a   *)
(* target that is not stalled: every poll keeps a share of the ten-second  *)
(* budget for this refresher.  A read that is not answered is cancelled.   *)
(***************************************************************************)
Fairness ==
  /\ WF_vars(PollStart)
  /\ SF_vars(Ask("poll"))
  /\ SF_vars(SettingsRead)
  /\ WF_vars(ReadCancelled)
  /\ \A k \in Key \ Stalled : SF_vars(Reply(k))

FairSpec == Spec /\ Fairness

-----------------------------------------------------------------------------
(* What the inventory sensor of a target shows.                            *)

SensorStatus(k) ==
  IF k \in inventory THEN "ok"
  ELSE IF errors[k] # NoReason THEN errors[k]
  ELSE "fallback"

-----------------------------------------------------------------------------
(* Properties.                                                             *)

\* The three dictionaries sensors, buttons and diagnostics combine agree:
\* no target is shown with both an inventory and an error, a remembered skip
\* reason is the error shown, and nothing is kept for a target the last
\* settings read did not advertise.
CacheCoherent ==
  \A k \in Key :
    /\ k \in inventory => errors[k] = NoReason
    /\ skip[k] # NoReason => errors[k] = skip[k]
    /\ k \in inventory \/ errors[k] # NoReason => k \in targetKeys

\* A shown inventory that may predate an acknowledged write is going to be
\* read again: the request of a write made while a batch is running is not
\* lost when that batch ends, is cut off, or is resumed.
WriteWillBeSeen ==
  \A k \in inventory \cap owed : requested \/ k \in Range(pending)

\* Each suspension in a read is on an advertised target without a remembered
\* failure, and the queue holds it and its peers once each.
ReadsAreNeeded ==
  /\ pc = "reading" => /\ pending # <<>>
                       /\ skip[Head(pending)] = NoReason
  /\ Range(pending) \subseteq targetKeys
  /\ IsInjective(pending)
  /\ batchOpen <=> pending # <<>>

\* The read issue never stands beside listed, available targets, with one
\* exception: a service call that found no targets asking for them itself,
\* and its refusal came in after a poll had listed them.
IssueMeansUnreadable ==
  available /\ settings # {} /\ readIssue # NoReason => lateDenial

\* Completed reads are not discarded: a sensor that counts the snapshots that
\* were read goes on doing so while its target is listed, or tells why not.
\* It never falls back silently to the total of the settings.
NoSilentLoss ==
  [][\A k \in targetKeys' :
       SensorStatus(k) = "ok" => SensorStatus(k)' # "fallback"]_vars

\* An interrupted or stalled target does not keep its peers waiting: every
\* other pending target leaves the queue.
PeersProgress ==
  \A k \in Key \ Stalled :
    k \in Range(pending) ~> (k \notin Range(pending) \/ readSupported = "no")

\* The snapshot count shown after an acknowledged write is eventually read
\* from the NAS again.
WritesAreSeen ==
  \A k \in Key \ Stalled :
    k \in owed \cap inventory
      ~> (k \notin owed \cap inventory \/ readSupported = "no")
=============================================================================
