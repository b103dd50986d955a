# Verification of ha-unifi-drive

TLA+ models of the Home Assistant integration in
`src/custom_components/unifi_unas`, which monitors and controls a UniFi Drive
NAS (UNAS) over its local HTTP API. TLC checks the models on small instances,
TLAPS proves what matters most for every value of the constants.

Paths below are relative to `src/custom_components/unifi_unas`.

## The system

Everything runs on one asyncio loop: there are no data races, but every `await`
is a point where another task, a timeout's cancellation or a user action may
come in between. The NAS answers, refuses, stalls or goes away at any time, and
nothing but Home Assistant's own registries survives a restart.

| Part | State it keeps | Operations | Talks to |
| --- | --- | --- | --- |
| Polling coordinator (`coordinator.py`) | online flag, failure count, last payload, optional lock, cached features | first refresh, poll, background optional refresh | Home Assistant's timer, API client, entities |
| Snapshot inventory refresh (`coordinator.py`, `snapshot_repairs.py`) | pending targets of the open batch, inventories, errors, skip reasons, request flag | resumable batch per poll, request by writers | API client, services, repair issues |
| Snapshot settings write (`api_snapshot.py`, `snapshot_write.py`, `snapshot_schedule.py`, `snapshot_payload.py`) | settings lock, capability flags | locked read-merge-write with endpoint fallback | NAS, entities, services |
| API session and transport (`api.py`, `api_auth.py`, `api_transport.py`) | shared authenticated flag, cookie, CSRF token | login, request, one retry after a refusal | all other client parts |
| System actions, updates, backups (`api_system.py`, `api_updates.py`, `api_backup.py`, `update.py`, `button.py`, `wake_on_lan.py`) | none of their own | power, wake-up, update, run backup | session |
| Fan control (`api_fan.py`, `select.py`) | last mode, read capability | read, select | coordinator, session |
| Snapshot targets and repairs (`snapshot_entities.py`, `snapshot_repairs.py`, `button.py`) | missing counts, known targets, repairs, registry entries | listeners of every coordinator update | Home Assistant's registries |
| Services (`services.py`) | none | create, change settings, power, wake-up, fan mode | client, coordinator, repairs |
| Entry setup and reload (`__init__.py`, `entry_reload.py`, `entry_options.py`) | listeners, reload signature, runtime data | setup, unload, reload, backfill | everything |
| Config flow (`config_flow*.py`) | what a flow has read and validated | user, discovery, reauthentication, reconfiguration, options | entries, a client of its own |
| Discovery (`discovery*.py`) | aliases and MACs of entries | match announcements, record observations, start and abort flows | entries, flows |
| Storage parsing (`storage_*.py`, `system_metadata.py`) | none | pure functions of a payload | coordinator, sensors |
| Entities (`entities.py`, `sensor.py`, `binary_sensor.py`) | the keys they were created with | create for new keys, show | coordinator, storage parsing |
| Diagnostics, security | presentation | | coordinator |

What is hard, and what makes each part correct:

* **Inventory refresh.** A batch is spread over several polls, cut off by a
  shared time budget wherever it waits, and overtaken by writes, by targets that
  come and go and by services that read the settings themselves. Correct means:
  no read result is lost or shown together with an error, no acknowledged write
  is forgotten, no target starves another, the repair issue tells the truth.
* **Settings write.** The NAS takes whole documents only, so a change is a read,
  a merge and a write. Correct means: no lost update between callers, at most one
  application per call even across fallbacks and repeated logins, requested
  fields as requested and the others untouched, a lock that is always freed.
* **Coordinator.** Online state, payload status, poll success and timer are set
  at different awaits by polls and by a background task. Correct means: they
  agree where the user looks, no slow feature starves the others, everything
  recovers by itself when the NAS is back.
* **Session.** Tasks share one login and renew it without a lock. Correct means:
  an action that is not idempotent is carried out at most once, a reported success
  happened, a lost session is renewed.
* **Targets and repairs.** Counts in memory against repairs that outlive
  restarts, five platforms that hear each list, calls that end in a later runtime.
  Correct means: a repair stands exactly as long as what it says is true, and the
  create buttons are those of the targets that support them.
* **Entries.** Flows, discovery and setup wait for the console while options,
  addresses and passwords change. Correct means: an entry stays with its console,
  no console has two entries, what the user stored is kept, and what runs is what
  is stored.
* **Storage.** A payload lists pools and drives in any of a dozen shapes, in any
  order, with or without ids. Correct means: each drive is counted under its own
  pool, once; an entity never shows another drive's values; the totals add up.

## Modules

    SnapshotDocument  <-- SettingsStore   (what a settings change promises)
           ^                   ^ INSTANCE, refinement
           +------------- SnapshotSettings (how the client does it)
    SnapshotInventory                      (inventory batches, read issue)
    Coordinator                            (polls, budget, online state)
    ActionCalls                            (what a read or an action promises)
           ^ INSTANCE, refinement
    ApiSession                             (shared login, retries, actions)
    SnapshotTargets                        (controls, buttons, repairs)
    DiscoveryIdentity <-- ConfigEntry      (entries, flows, setup, reload)
    StorageDrives     <-- StorageEntities  (pools, drives, what entities show)
    StorageFigures    <--------+           (capacities, totals, status)

Each has an `MC...` module with the constants of the TLC runs (`MCStorage` for the
three storage modules); the `...Proofs` modules hold the theorems.

### SnapshotDocument, SettingsStore, SnapshotSettings

`SnapshotDocument` has no state. A `Document` is a target's setting as the NAS
lists it, `Read` is what `_snapshot_setting_from_item` makes of it (an inferred
frequency included), `WriteBody` is what `_snapshot_settings_write_body` and
`_snapshot_settings_schedule_body` send. Days and limits are members of small sets,
a stored time is a text of hour, minute and suffix, which may be no time of day
(25:00, 0 am) and is read on the twelve- or the twenty-four-hour clock; `Junk`
stands for entries and suffixes the client cannot read, a limit of 0 also for
none. The label key of the frequency and other fields that are not merged are
left out. `Update` covers exactly the updates the callers in the source make:
`schedule_enabled` is never passed, days only come with a frequency.

`SettingsStore` is the promise: a call is open, and when it returns it has been
applied to its target's current document (`"ok"`), has not been applied (a
refusal), or either (`"connect"`, `"cancelled"`).

`SnapshotSettings` is `async_update_snapshot_target_settings`. A caller's `stage`
is the await it is suspended in: `queued` (the `asyncio.Lock`), `login`, `read`,
`relogin`, `write`; `attempt` counts the DELETE and PUT requests over the paths a
firmware may have. One action per answer: 2xx, 404/405, 401/403, anything else;
and cancellation at each await. `polling` is the coordinator's own read of the
settings, which shares the client's capability flags but not the lock.

*Assumptions.* The NAS is modelled when it answers: a write that ended in an
error or was cancelled was carried out or not, but never later than that; nobody
else edits a setting between a call's read and its write. Neither can be detected
with the API the code uses.

*Things the model made plain, not stated as findings.* A document without
`enable` turns into an explicit "Never" on any write; a disabled weekly schedule
loses its remembered weekday when only the limit is written. Both are outside
`Plain`, the documents for which `OtherFieldsKept` promises everything. One
target's 404 to a write marks its whole type unwritable until a reload.

### SnapshotInventory

`PollStart`, `SettingsRead` and its variants, `Reply` and `ReadCancelled` are the
segments of `_async_refresh_snapshot_inventory_if_due` and
`_async_get_snapshot_inventory` between two awaits. `pc` is the await, `pending`
the ordered dictionary of targets still to read, `targetKeys` those of the last
settings read, `inventory` the targets with a cached result. `batchOpen` is
`_snapshot_inventory_pending_targets is not None`. `WriteAcknowledged` is a
successful create or settings write (`request_snapshot_inventory_refresh`),
`Service...` the read a snapshot service does when nothing is cached.
`SensorStatus` is what the inventory sensor of a target shows.
`owed`, `writes`, `overtaken` and `lateDenial` are history: what the user is
owed, and whether a refusal came in late.

Time is counted in ticks up to `Interval` (ten minutes); `lastAge = Interval`
also stands for "never refreshed". The local copies of the dictionaries in the
coroutine equal the published ones at every await and are not kept twice. Two
branches of the code cannot be reached and are left out: a pending target without
settings (pending is a subset of the active keys) and the outer exception handler
(the inner one catches everything). An alias type "personal" never occurs. At most
one service read is under way.

The poll, a service and a settings write read the settings through one client, which
looks at its flag once, before it sends the request: `asking` are those whose request
is under way (`Ask`). One that is answered after another's 404 cleared the flag sets it
again. Any target may answer its inventory read with 404 at any time; those in
`Refusing` never answer otherwise. A 404 marks the target's whole type, and peers that
have no inventory yet are skipped from then on, as the repository's tests want it
(`tests/test_coordinator_helpers.py:444`, `:533`); which peers that strikes depends on
the order in which they are asked.

### Coordinator

From `async_config_entry_first_refresh` on. `poll` says where
`_async_update_data` is suspended: in the storage read or in the optional refresh.
`run` is the holder of `_optional_refresh_lock`, the index of the next feature and
the time it has used up; `startup` is the background refresh
`async_refresh_optional_features`. `nas` decides how a storage read ends: with a
payload, `CannotConnect`, `UnexpectedResponse` or `InvalidAuth`. A feature takes
any time in its `Latency`; `Share` is the code's division of what is left of the
budget, in integers. A fan read is two steps, so that a selection
(`SelectFanMode`) may come between the NAS's answer and its arrival.
`fanSupported` is the client's flag after a 404, `fanLast` its `_last_fan_mode`,
which it answers with whenever the fan endpoint fails. A storage payload may tell
the mode too (`exposed`); its answer (`StorageAnswered`) carries the mode of that
moment, and the client remembers it when the read, metadata included, is done.
Where the endpoint is missing and no payload tells the mode, nothing can notice a
change made elsewhere: `FanModeSettles` leaves that case out. `Reload` creates a
new client and coordinator.

What the entities show is read off this state: `DeviceOnline`, `SystemStatus` (the
mark a lost poll puts on the payload outranks what the NAS tells of itself; `"told"`
stands for any word of its own, and a NAS that calls itself offline while it answers is
no matter of `StatusAgrees`),
`Selectable` (fan mode, backups, updates and power buttons can be used) and
`CurrentOption`. A fan mode is sent by the select entity, which has to be
available, or by the service, which only asks for a device that is online; the
answer comes in later (`FanModeSet`), as may that of an older selection. Selections
under way are not told apart, so that any mode may come. A selection, a backup and
an update ask for a refresh, which Home Assistant drops while a poll is under way
(`RefreshRequested`). A restart or shutdown (`GoesDown`) and a wake-up (`GoesUp`) ask
for none: the polls find out.

External: Home Assistant's `DataUpdateCoordinator` runs one poll at a time, drops a
refresh request while one runs, arms its timer after each poll except after
`ConfigEntryAuthFailed`, and `async_set_updated_data` reports success and arms the
timer. The list of backup tasks (emptied by a failed read), versions and the progress
of an update, failed fan writes and the flag they set, and latches that only affect logging are left out. While
the NAS is up every answered fan read tells a mode. `count` and `misses` stop at
`Threshold`, beyond which nothing tells them apart.

### ActionCalls, ApiSession

`ActionCalls` is the promise to a caller: a call is open, then it returns, and in that
step its action is carried out, once or not at all; the ending tells which
(`Times`). After "ok" it has been; after "auth", a needless update (HTTP 409, which
returns normally too) or a snapshot no endpoint supports it has not; after an
error of another kind or a cancellation the caller does not know, nor after
"unsupported" from an update or a backup run, which the client says of any answer it
does not expect. `ApiSession` is how the client keeps it.

A call is a poll's storage read, a power action, an update, a backup run or the
creation of a snapshot; `stage` is the await it is suspended in: the console root
and the login request of `async_login`, the login's answer on its way (`granted`)
and its body, the request itself, the metadata after a storage read. `again` says
that the call was refused once and has reset `_authenticated`; nothing keeps
others from logging in at the same time. "failed" stands for `CannotConnect` and
`UnexpectedResponse`, which nothing here tells apart. `token` is `_token_cookie`, taken from
the answer's headers as it comes in, `hint` the `poweroff_permission_hint` of the
last login, `sid` the session a request was sent with or a login answer carries,
and `role` the permissions that answer tells ("none" where it tells nothing, as a
body that is not JSON). `path` counts the endpoints a snapshot is tried through.

The NAS is external: it knows a session as live or dead, lets an account act or
not, and either keeps or ends (`kicks`) the account's other sessions when it logs
in. Users of an API key have no sessions. `effects` and `excused` are history: how
often a call's action was carried out, and whether there is a reason for the call
to end in `InvalidAuth` that one more login would not have removed.

*Assumptions.* A login that the NAS accepts carries a TOKEN cookie, and one that it
refuses or fails carries none. The client relies on it: it takes a cookie from any answer
that has one, keeps the old one otherwise (`_capture_token_cookie`) and raises the flag
without looking. `RequestsCarrySession` rests on this.

A request is carried out, if at all, before its call ends: one that
was given up is not carried out later. An HTTP 401 or 403 means it was not carried
out. The cross-site request token is left out; which requests need it cannot be
told from the code. `async_check_connection` is used with a client of its own
(`config_flow_validation.py`) and is a first read. Entries without user name and
password have an API key. Requests of other features (settings, inventories, fan,
backup lists) follow the same pattern as a read and add nothing here.

*Things the model made plain, not stated as findings.* A login answer that comes in
after a newer one replaces its cookie; if the NAS ends older sessions, a task that
has just logged in is refused for the second time and its poll asks the user for
credentials. `AuthIsEarned` counts this as a reason, and `SessionRecovers` is stated
for a NAS that keeps sessions. A power action that the last login's permissions
forbid is refused without asking the NAS, until something else makes the client log
in again: `SessionRecovers` leaves out just that.

### SnapshotTargets

What follows the coordinator's list of targets: `known` targets have controls,
`buttons` and `registered` are the create buttons as entities and in Home
Assistant's registry, `missing` and `issues` the repairs, which survive a restart
as the registry does. Four of the five platforms do the same with the list and are
modelled as one pass of `Listen`; the fifth adds the buttons. Each platform counts
misses, but a list only once, told by the `id()` of its tuple (`seen`): two counting
passes (`CountedByAll`) stand for five, as every pass after the second finds what
the second left. `call` holds the polls, presses and services that wait for the
NAS; `ended` says that their runtime was unloaded meanwhile, after which they still
write repairs. A service call's fields are modelled by the targets they fit
(`Matches`).

The freed tuple of an earlier list may give its address to a new one, and then the
new one is not counted. `SeenNow` has this: it takes a list read by a service, of
which no listener is told, and `RepairsMatchMisses` leaves out runtimes in which
that happened (`ondemand`). `missed`, `fresh`, `inherited` and `dropped` are history.

*Assumptions.* One loaded entry. `MyDrive` are the personal drives of other accounts;
that the inventory of one's own always can be read makes it like a shared one. A
press or a call while the NAS is offline is refused before it begins. A settings change
reads the list first, which may set or clear `unreadable`; that is left out. Where it
sets the flag, no behaviour is missing: the flag keeps the next reader from asking, and
one that asks may be answered that there is no list.

*Things the model made plain, not stated as findings.* The count is in memory and
the repair is not: a target that comes back after a restart leaves its repair
standing until it is missed again or was counted once in the new runtime
(`inherited`). A button removed because an inventory could not be read is not added
again until a reload (`dropped`). Switching the controls off clears all repairs but those
of missing targets. An action's repair is one per type, so that a success on one
target mends another's.

### DiscoveryIdentity, ConfigEntry

`DiscoveryIdentity` has no state: it says whose an announced device, a pending flow
or an answered validation is (`Matches`, `FlowIsOf`, `ValidatedDevice`), and what an
observation writes (`Observed`, `Recorded`). A console is its MAC; `Told` is how much
of itself a console tells a validation, which decides what its unique id is made of.

`ConfigEntry` is what happens around these rules. `entry` is what Home Assistant
stores, `life` how far the setup of each entry has come, `runtime` what its client
was made from and the reload signature, `listening` and `reloading` the update
listener's task and the reload that waits for the setup lock. A flow's `step` is its
form, the validation it waits for, or the second form; `before` is the entry as the
form handler read it, which a reconfiguration writes back when the console has
answered. Meanwhile the console may have moved (`Move`), changed its password, been
announced again, or been changed by another flow. `vouched`, `saved`, `raced` and
`late` are history.

*Abstractions.* All on one port. Of the options only Wake-on-LAN is kept, as its MAC
or `None`: it is the one that changes how a setup fails and which identity an entry
has. A flow that the user has begun to fill in is protected from the cleanup, as its
form was sent. Failed unloads, removal of entries, migration of old data, entries
without a host, source, confidence, last-seen and conflict metadata and the throttle
of its writes are left out. Home Assistant's flow manager, setup lock, listener
tasks and retry timer are modelled from how the integration uses them.

*Things the model made plain, not stated as findings.* The update listener is added
after the first poll, so that settings stored during it are not applied until
something else reloads the entry (`late`). An entry whose first poll was refused has
no listener at all: new credentials are stored by the reauthentication and wait for a
reload or a restart. Two flows of one entry that validate at the same time: the later
answer writes back what it had read (`raced`). An entry whose unique id is its
account's is refused as a wrong device once the console also tells a system id. A
setup's polls do not check identity: a console that has taken over the address and
takes the password is polled. Cleanup goes by address alone and drops a pending flow
of another console at that address.

### StorageDrives, StorageFigures, StorageEntities

`StorageDrives` is what `storage_drives.py` and `storage_pools.py` work out of one
payload. A record carries what is true of a drive or pool and, apart, which of it the
console wrote down (`tells`, `refs`); every operator reads a field only after asking
whether it was told, so that the properties can compare the outcome with the truth. A
field that is written, but as null, "" or [], is `blank`: `MergeDriveEntries` fills it
from another record, while `MergeDiskEntries`, which merges the entries of a disk the
console lists twice, puts it over what was told. `PoolDrives` goes through the collectors in the code's order (the pool's own list, one
nested in it, below its raid groups, the console's disks that name the pool) and
completes what it found from the disks that name no pool, which is a guess from
numbers. A guess is made only where the console has one pool, and only from as many
disks as its count lacks. `StorageFigures` has the capacities, totals and the
aggregated status. `StorageEntities` is the part with state: entities are created for
keys that are new at a refresh and looked up by key in every later payload. Every loop
of the code over a list is a fold (`Sorted`, `AddDisks`, `RaidDrives`, `Total`), so
that results about them can be proved.

Keys are what entities are found by. A pool told by its name alone has the slug of the
name for a key, and "Pool 2" (`number`) gives `pool_2`, the key of the second pool of a
list that tells neither ids nor names; a drive's name "Drive 2" does the same for drives.
`PoolAt` goes by the exact key, then by the position a key reads like (`PoolIndex`), then
by the name, as `_pool_from_key` does. Ids are assumed not to read like a position.

What a console may tell is the assumption `ConsoleIsTruthful`: each payload is
`Truthful`, a picture of one console. A serial and a bay are those of one drive, which
is in one pool at most; a list names a pool once; a pool's own lists hold its own
drives; only nested containers list drives among the pools. Within that a payload
leaves out whatever it likes, in any list. The module needs nothing less: a console
that gave two drives one serial would make the code merge them, and rightly so.
`MembersOnly` says what holds then, and no more: a completed list may hold a spare the
pool's own list took for a member, and it may hold a disk of no or another pool in the
place of a drive the console leaves out, if that disk names no pool.

*Abstractions.* Which spellings of a key mean a field, suffix and token matching,
nesting of wrappers, slugs, and number formats are left out: a field is told or not.
Temperatures, throughput, RAID level and progress are not modelled. A failed poll
keeps the data and is `Coordinator`'s.

*Things the model made plain, not stated as findings.* A hot spare that names its pool
is counted among the pool's drives when these are collected by reference, but skipped
where a single pool is completed. The label of a drive follows the first word told,
the count of drives at risk any word of the first two places, so that a drive can be
labelled at risk by its nested details, or by a lone `value`, and not be counted
(`details` has the words that only the label reads). A name such as "Drive 2" or "Pool 2"
makes the same key as the second position: once no drive or pool has the name, its entity
shows whatever stands at that position, and of a list that names one pool "Pool 2" and
does not name another, one may be shown twice and one not at all. `EntitiesShowTheirOwn`
is stated for the other keys and lists (`OneStyle`, `OneStyleOfPools`). Space used can exceed the total when one
pool tells no capacity. A console that starts to tell an id gets its entities a second
time. A completed list replaces the pool's own, so that a drive which only the pool's
own list tells is dropped when the console's other disks make up the number.

## Runs

| Run | Asks | Bounds |
| --- | --- | --- |
| `inventory` | Are caches, batch and issue coherent at every await; is no write or result lost? | 2 targets of one type, one that comes and goes, one always refused, 1 write, all three readers of the settings, cadence of 2 ticks, all kinds of failure |
| `inventory_live` | Does every answering target get read, every write get seen? | 3 targets of two types, one never answering, one always refused, 1 write; the poll and a service read the settings |
| `store` | What does the full-document write do to each field? | every document over 2 days of each kind, junk days, 2 times, limits 0..4 with 1..3 legal; 13 updates |
| `settings` | Does the locked protocol implement the store? | 2 callers (symmetric), 2 targets of two types with 2 and 1 paths, 2 updates (one with DELETE) |
| `settings_live` | Does every call end? | 3 callers, 1 target with 2 paths, DELETE then PUT |
| `coordinator` | Online state, budget, recovery, fan mode | 3 features (one that may outlast the budget), budget 6, threshold 2, 2 modes |
| `coordinator_consecutive` | violation, see Findings | as above |
| `session` | Is an action carried out once, as its caller is told, is InvalidAuth earned, do sessions recover? | a polling task beside one that does power actions, updates and snapshots; 2 endpoints; API key or login, a NAS that keeps or ends sessions |
| `targets` | Do repairs, buttons and counts follow the lists that were heard, whoever reads them? | 2 targets (one shared, one personal), 2 calls at a time (symmetric), threshold 2, 2 presses, services, reloads or restarts |
| `entry` | Do entries keep their console, unique id and settings, and run as stored? | 2 consoles, 2 addresses, 2 passwords (symmetric), 2 places for entries, 2 flows, 2 events by users or the network |
| `storage` | Whose is a drive, what does an entity show later, do the totals add up? | 2 pools, 3 drives; some 19,000 payloads, disks listed once or twice, and one refresh after the first |
| `storage_duplicates` | violation, see Findings | a console that lists its disks twice |

Why these are enough. In the inventory a target meets its peers only through the
queue and its type's flag, so one peer of the same type and one of another show
all interference; one write meets every point of a batch since time, failures and
targets are free to change around it. In the settings protocol callers interact
only through the lock, the stored documents and the type flags: two callers and
two targets give every conflict, three callers a waiter that is cancelled between
two others. The document is checked in full. The coordinator has two users of the
lock and one timer; the budget of 6 for three features makes each share exact and
one latency of 9 outlasts it all. Calls meet only through the client's flag, cookie
and hint and through ended sessions, so two tasks with any number of calls each show
every overlap of two logins; a backup run goes like an update that is never answered
409, and is left out of the run's calls (not of the proofs). `effects` stops at 2,
where the property has failed. Targets meet through the list's `id()` and their type's
repairs, calls through the list they replace: two of each, and a threshold that is
reached by two lists, show each overlap; polls and answers are not counted as
events. Entries meet through addresses and unique ids, flows through the entry they
change; reauthentication, polls and retries are not counted as events, and what the
run starts with is any entry that some flow leaves behind. What a payload says of its
drives depends on this payload alone, and what an entity shows on its key, which one
earlier payload gave it, and the current one: one refresh is enough, and 3 drives in 2
pools have a neighbour of their own pool, one of the other, and a spare.

`TypeOK` of a module also bounds what could overflow: the time spent in a run
stays within the budget, an attempt within the list of routes, the skip reasons
within the sticky kinds.

Each passing run's properties are paired with a mutant, a plausible bug in one
definition (kept beside it in the module, e.g. `WholeBudget` beside `Share`), under
which TLC finds the property violated.

Deadlock is checked wherever the system itself never stops, in all runs but two:
`entry` and `storage` end when their bounded events and refreshes are used up.

### Fairness

* `SnapshotInventory`: polls keep being scheduled, a waiting read is eventually
  cancelled (weak fairness: the poll timer and `asyncio.timeout`); a poll's settings
  read is sent (`Ask`) and succeeds in the end, and the read of a target that is not
  stalled is answered, if tried again and again (strong fairness: each poll keeps a share of the ten seconds for this
  refresher, so the read is not cancelled at once for ever). A stalled target
  never answers, a refusing one always answers with its refusal.
* `SnapshotSettings`: a free lock wakes its first waiter, every request is answered
  or times out (weak fairness). No answer is assumed to be a good one.
* `Coordinator`: timers fire, requests are answered or time out, tasks run (weak
  fairness). The properties `SlowFeaturesBlockNoOther`, `Recovers` and
  `FanModeSettles` are stated for good times: the NAS stays up, the entry stays
  loaded and polling was not given up because of refused credentials, which ends
  in a reauthentication dialogue and not by itself.
* `ApiSession`: every request is answered or times out (weak fairness on a call's
  next answer; failures are answers). Nothing makes the NAS grant anything:
  `SessionRecovers` assumes `GoodTimes`, in which it accepts the credentials, lets the
  account act, and sessions neither expire for ever nor end each other.
* `SnapshotTargets`, `ConfigEntry` and `StorageEntities` state safety only and assume
  no fairness: repairs and entries may wait for ever for a console that stays away.

## Findings

* `coordinator_consecutive`: the README says "After two consecutive connection
  failures, `Device online` reports off" (`README.md:123`). The count is reset by a
  successful read only, so two lost polls with an answered but unusable one
  (an unexpected response) between them also take the device offline.
* `storage_duplicates`: "Merge duplicate disk entries without dropping richer existing
  fields." (`storage_pools.py:191`), and a test says "Deduped disk records should keep
  richer pool and SMART fields." (`tests/test_sensor_helpers.py:2109`) of a later entry
  that leaves its other fields out. A later entry of the same serial that has a field,
  but as null, "" or [], replaces what the earlier one told (`storage_pools.py:203-204`).

## Proofs

TLAPS checks all theorems without further assumptions than the named `ASSUME`s on
the constants, which TLC evaluates in the runs.

* **SnapshotInventoryProofs**: `TypeOK`, `CacheCoherent`, `WriteWillBeSeen`,
  `ReadsAreNeeded`, `IssueMeansUnreadable`, `NoSilentLoss`, for any targets, types,
  cadence and failures. The inductive invariant `IInv` adds to these
  `RequestOutlivesRead`: a write that overtook the read under way left its request
  set. Without it the end of that read could close the batch and forget the write.
  The loop of a batch is a recursive function over the queue; the lemmas about it
  say what it leaves alone at each length, none needs induction over data.
* **SettingsStoreProofs**: reading back what was written, field by field, hence
  `RequestedFieldsStick`, `OtherFieldsKept` and `WrittenIsPlain` for all documents,
  days, times and limits.
* **SnapshotSettingsProofs**: `TypeOK`, `CopyIsCurrent`, and `ImplementsStore`, the
  refinement. `IInv` adds `OnlyOwnerInside` (whoever is past the lock owns it): two
  callers inside would let one change the document after the other has read it.
  Each step then maps to a `Call`, a `Return` or a stutter of the store; that a
  write's body is merged from the current document is `CopyIsCurrent`. What it needs
  of documents it takes from the store's proofs (`Facts`, an instance of that module).
* **CoordinatorProofs**: `TypeOK`, `StatusAgrees`, `OnlineMatchesMisses`,
  `AvailableHasData`, for any features, latencies, budget and threshold. `IInv` adds
  `CountIsMisses` (the failure count is the number of misses since a success),
  `MarkAgrees` (the payload's mark is right also while a failure of another kind hides
  it), `OnlyKnownIsMarked` and `StartupHasData` (a background refresh that runs has a
  payload to publish).
* **ApiSessionProofs**: `TypeOK`, `ActionsOnce`, `AuthIsEarned`,
  `RequestsCarrySession`, for any tasks, calls and endpoints, and `ImplementsCalls`, the
  refinement: each step maps to a `Call`, a `Forbid`, a `Return` or a stutter of
  `ActionCalls`. `IInv` adds that a call under way has had no effect (`NothingYet`: a
  step with an effect is the call's last), which gives `ActionsOnce` and the refinement,
  and `SecondLoginHolds`: after its second login a call that is not excused has a live
  session in the answer, then in the shared cookie, then in its request, whatever the
  others do in between. That is why a second refusal is always somebody's fault.
  `KeysDoNotLogIn`, `CookieBeforeBody` and `OnlyReadsHaveMetadata` say where a call can
  be.
* **SnapshotTargetsProofs**: `TypeOK`, `RepairsMatchMisses`, `RepairsStay`,
  `ButtonsMatch`, `OneKind`, for any targets, calls and threshold. `IInv` adds
  `CallsFit` (one poll of the loaded runtime at a time), `SeenFits` (which list was
  counted last), `CountsFit` (until a service reads a list the platforms' count is the
  number of lists heard without the target; a count at the threshold has its repair)
  and `ButtonsFit`. Without `SeenFits` a list could be counted twice, or not at all.
* **ConfigEntryProofs**: `TypeOK`, `UniqueIds`, `StaysWithItsConsole`,
  `SavedSettingsStay`, `RunsAsStored`, for any consoles, addresses, flows and entries.
  The shapes come first (`TInv`). Most steps are then *quiet*: they leave unique ids,
  settings and what vouches for them alone. `IInv` adds `FlowsKnow` (the unique id a
  flow holds is that of the console it has validated, and no entry's) and `Running` (a
  client that runs was made from the settings in its signature, and these are the
  stored ones, or a reload is due).
* **StorageProofs**: `MembersOnly`, `EntitiesShowTheirOwn`, `TotalsAgree`, for any
  pools, drives, lists and refreshes. The inductive invariant `StorageInv` says no more
  than that the view is that of some payload and that what it lists has entities; the
  work is in what a payload's view is. Each collector is followed through its fold:
  a `Family` is a set of records true of one console (an equal serial or bay, the same
  drive) with all that may be merged of them, the `Kin` of what a payload tells is one,
  and the lists stay within it through a merge, an append and every prefix of a fold.
  From them come who is in a list (`MembersOnly`), that a key's first match is the
  drive the key names (`EntitiesShowTheirOwn`) and that no drive is counted twice
  (`TotalsAgree`). That the parts of a sum fit into their wholes is shown along the
  prefixes of the sums.

### Folds without induction over data

The library's induction theorems take the predicate as a parameter, which the
installed provers cannot instantiate. `NatSetInduction` says the same of a *set*: a set
of numbers that has 0 and with each number its successor has them all (from the
least number not in it). A fold is then followed through its trace, the function from
a length to the result for the prefix of that length; the set is that of the lengths
at which the trace has the property. RECURSIVE operators stay out of these modules.

Only model-checked: the liveness properties (`PeersProgress`, `WritesAreSeen`,
`EveryCallEnds`, `SlowFeaturesBlockNoOther`, `Recovers`, `FanModeSettles`,
`SessionRecovers`), which rest on fairness, outside the prover's reach. Every safety
invariant and action property of a passing run is stated by a theorem.

## Not modelled

* Presentation: descriptions, attributes, icons, translations, diagnostics,
  redaction, error texts, the Wake-on-LAN packet and constants. They have no state.
* Parsing: which spellings and nestings of a field are understood, in storage, fan,
  backup, update, snapshot and metadata payloads and in announcements. The models take
  a field as told or not told. The summary made of a target's snapshots
  (`snapshot_inventory.py`) and the throughput, temperatures and RAID progress of the
  storage are such parsing of one payload without a second actor.
* The cross-site request token: which requests the NAS wants it for cannot be told
  from the code.
* Failed unloads, removal and migration of entries, sources and confidences of
  discovery and their throttles: what they decide is only shown in diagnostics, or they
  are Home Assistant's.
* The scripts of the repository, which do not run in Home Assistant.

## What remains possible

The composition of `Coordinator` with `SnapshotInventory` and `SnapshotSettings` (a
refresher inside a poll, a write beside it) would show one budget shared by all of them
instead of assumed fairness. Several loaded entries would add the choice a service
makes among them.
