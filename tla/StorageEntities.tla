--------------------------- MODULE StorageEntities ---------------------------
(* The pool and drive entities of one console (entities.py,                *)
(* binary_sensor.py, storage_view.py): each refresh adds the entities of   *)
(* the pools and drives it lists for the first time, none is ever removed, *)
(* and what an entity shows is looked up by its key in the payload of the  *)
(* moment.  Keys come from whatever the payload tells of a pool or drive;  *)
(* a position is used when it tells nothing, and old positional keys are   *)
(* still honoured.                                                         *)
EXTENDS StorageDrives
INSTANCE StorageFigures

CONSTANTS FirstPayloads,  \* what the console may be like when the entry is set up
          LaterPayloads,  \* what it may be like at a refresh after that
          PayloadOf(_),   \* what it then tells
          MaxPolls        \* bound on the refreshes after the first

VARIABLES view,           \* the StorageView of the last refresh's payload
          knownPools,     \* keys of the pools that have entities
          knownDrives,    \* <<pool key, drive key>> of the drives that have
          polls

vars == <<view, knownPools, knownDrives, polls>>

ASSUME NoneIsNoValue ==
  /\ None \notin Nat /\ None \notin BOOLEAN
  /\ None \notin {"degraded", "at_risk", "good", "bad", "unassigned", "other"}

\* An entry that tells what drives have and nothing only pools have.
DriveEntry(keys) == "driveIdentity" \in keys /\ keys \cap {"members", "raid", "poolName"} = {}

\* A drive is told once in the list of a pool, and is a drive of that pool.
OwnList(drives, pool) ==
  /\ drives \in Seq(DriveRecord)
  /\ \A i \in DOMAIN drives : drives[i].home = pool /\ SameSerial(drives, drives[i]) \subseteq {i}

\* Whatever looks like a drive below the raid groups of a pool is one of it.
OwnNodes(nodes, pool) ==
  /\ Len(nodes) \in Nat /\ DOMAIN nodes = 1..Len(nodes)
  /\ \A i \in DOMAIN nodes : DriveLike(nodes[i]) => nodes[i] \in DriveRecord /\ nodes[i].home = pool

PoolEntry(pool) ==
  /\ pool.pool \in Pool /\ pool.tells \subseteq {"id", "name"} /\ pool.count \in Nat
  /\ pool.number \in Nat \cup {None}
  /\ {pool.capacity, pool.used, pool.free} \subseteq Nat \cup {None}
  /\ OwnList(pool.drives, pool.pool) /\ OwnList(pool.nested, pool.pool)
  /\ OwnNodes(pool.raid, pool.pool)

\* The drive records a payload has of a pool, and all it has.
RecordsOf(pool) ==
  ToSet(pool.drives) \cup ToSet(pool.nested) \cup {node \in ToSet(pool.raid) : DriveLike(node)}
Listed(payload) ==
  {x \in ToSet(payload.pools) \cup ToSet(payload.volumes) \cup ToSet(payload.data) : ~DriveEntry(x.keys)}
Records(payload) ==
  UNION ({ToSet(disks) : disks \in ToSet(payload.disks)} \cup {RecordsOf(x) : x \in Listed(payload)})

\* Two entries are of one pool: no two pools have one name, "Pool 2" among them.
SamePool(a, b) == a.pool = b.pool \/ (a.number = b.number /\ a.number # None)

\* What a payload tells is true of one console: a serial and a bay are those of
\* one drive, which belongs to one pool, a list names a pool once, and only
\* nested containers list drives among the pools.
Truthful(payload) ==
  /\ payload.disks \in Seq(Seq(DriveRecord))
  /\ {payload.told.capacity, payload.told.used, payload.told.free} \subseteq Nat \cup {None}
  /\ \A x \in ToSet(payload.pools) \cup ToSet(payload.volumes) : ~DriveEntry(x.keys)
  /\ \A list \in {payload.pools, payload.volumes, payload.data} :
       /\ Len(list) \in Nat /\ DOMAIN list = 1..Len(list)
       /\ \A i \in DOMAIN list : DriveEntry(list[i].keys) \/ PoolEntry(list[i])
       /\ \A i, j \in {k \in DOMAIN list : ~DriveEntry(list[k].keys)} :
            SamePool(list[i], list[j]) => i = j
  /\ \A a, b \in Records(payload) :
       a.serial = b.serial \/ a.bay = b.bay
       => a.serial = b.serial /\ a.bay = b.bay /\ a.home = b.home

ASSUME ConsoleIsTruthful == \A x \in FirstPayloads \cup LaterPayloads : Truthful(PayloadOf(x))

\* StorageView: the pools of a payload and each pool's drives.
View(x) ==
  LET pools == Pools(x)
      disks == GlobalDisks(x)
  IN  [pools  |-> pools,
       lists  |-> x.disks,
       disks  |-> disks,
       told   |-> x.told,
       drives |-> [i \in DOMAIN pools |-> PoolDrives(pools[i], pools, disks)]]

(***************************************************************************)
(* Keys.                                                                   *)
(***************************************************************************)

\* A pool named "Pool 2" [number 2] has the slug pool_2, the key of the second
\* pool of a list that names none.  Ids never read like a position.
NameKey(pool) == IF pool.number = None THEN <<"name", pool.pool>> ELSE <<"pool_", pool.number>>

PoolKey(pool, i) ==
  CASE "id" \in pool.tells -> <<"id", pool.pool>>
    [] pool.tells = {"name"} -> NameKey(pool)
    [] pool.tells = {} -> <<"pool_", i>>

\* A drive named "Drive 2" has the slug drive_2, the key of the second drive
\* of a list that names none.
DriveKey(drive, j) ==
  CASE "serial" \in drive.tells -> <<"serial", drive.serial>>
    [] "serial" \notin drive.tells /\ "name" \in drive.tells -> <<"drive_", drive.bay>>
    [] drive.tells = {"bay"} -> <<"bay", drive.bay>>
    [] drive.tells = {} -> <<"drive_", j>>

\* The position a key may stand for, 0 for none.
PoolIndex(key) == IF key[1] = "pool_" THEN key[2] ELSE 0

\* The pool a key means now, 0 for none: its own key, the legacy position of a
\* key that reads like one, or a name told beside another key.
PoolAt(v, key) ==
  LET pools == v.pools
      exact == {i \in DOMAIN pools : PoolKey(pools[i], i) = key}
      named == {i \in DOMAIN pools : "name" \in pools[i].tells /\ key = NameKey(pools[i])}
      index == PoolIndex(key)
  IN  CASE exact # {} -> Min(exact)
        [] exact = {} /\ index \in DOMAIN pools -> index
        [] exact = {} /\ index \notin DOMAIN pools /\ named # {} -> Min(named)
        [] OTHER -> 0

\* What the sensors of a pool show: None, and unavailable, while it is not listed.
PoolOf(v, key) == IF PoolAt(v, key) = 0 THEN None ELSE v.pools[PoolAt(v, key)]

\* A careless pattern: any number at the end of the key is a position.
AnyNumber(key) == IF key[1] \in {"drive_", "bay"} THEN key[2] ELSE 0

LegacyIndex(key) == IF key[1] = "drive_" THEN key[2] ELSE 0

\* The drive a sensor shows now: None while its pool or it is not listed.
DriveOf(v, key) ==
  LET i      == PoolAt(v, key[1])
      drives == IF i = 0 THEN <<>> ELSE v.drives[i]
      exact  == {j \in DOMAIN drives : DriveKey(drives[j], j) = key[2]}
  IN  CASE exact # {} -> drives[Min(exact)]
        [] exact = {} /\ LegacyIndex(key[2]) \in DOMAIN drives -> drives[LegacyIndex(key[2])]
        [] OTHER -> None

(***************************************************************************)
(* Behaviour.                                                              *)
(***************************************************************************)

PoolKeys(v) == {PoolKey(v.pools[i], i) : i \in DOMAIN v.pools}
DriveKeys(v) ==
  UNION {{<<PoolKey(v.pools[i], i), DriveKey(v.drives[i][j], j)>> :
            j \in DOMAIN v.drives[i]} : i \in DOMAIN v.pools}

\* The platforms are set up on the payload of the first refresh.
Init ==
  /\ \E x \in FirstPayloads : view = View(PayloadOf(x))
  /\ knownPools = PoolKeys(view)
  /\ knownDrives = DriveKeys(view)
  /\ polls = 0

\* A refresh replaces the payload and its listeners add what is new.
Poll ==
  /\ polls < MaxPolls
  /\ polls' = polls + 1
  /\ \E x \in LaterPayloads : view' = View(PayloadOf(x))
  /\ knownPools' = knownPools \cup PoolKeys(view')
  /\ knownDrives' = knownDrives \cup DriveKeys(view')

\* A reload sets the platforms up again on a payload of its own.
Reload ==
  /\ polls < MaxPolls
  /\ polls' = polls + 1
  /\ \E x \in LaterPayloads : view' = View(PayloadOf(x))
  /\ knownPools' = PoolKeys(view')
  /\ knownDrives' = DriveKeys(view')

Next == Poll \/ Reload

Spec == Init /\ [][Next]_vars

(***************************************************************************)
(* The aggregates.                                                         *)
(***************************************************************************)

PoolHasProblem(v, i) ==
  PoolStatus(v.pools[i]) = "degraded" \/ AtRiskCount(v.drives[i]) > 0

\* The problem sensor of a pool: None, and unavailable, while it is not listed.
PoolProblem(v, key) ==
  IF PoolAt(v, key) = 0 THEN None ELSE PoolHasProblem(v, PoolAt(v, key))

AtRiskDisks(v) == Total([i \in DOMAIN v.pools |-> AtRiskCount(v.drives[i])])

StorageProblem(v) ==
  AggregateStatus(v.pools) = "degraded" \/ AtRiskDisks(v) > 0

(***************************************************************************)
(* Properties.                                                             *)
(***************************************************************************)

\* The console's own list of disks leaves out a drive of the pool.
LacksMember(disks, pool) ==
  Cardinality({disks[j].serial : j \in {k \in DOMAIN disks :
                 disks[k].home = pool.pool /\ ~LooksNonMember(disks[k])}}) < pool.count

(* Only pools are taken for pools, and the drives shown under a pool are    *)
(* drives of it.  A list filled up from the console's other disks has       *)
(* exactly the declared number of drives, none of them a drive that names   *)
(* another pool, and none a spare that the pool's own list does not take    *)
(* for one; and only where a console of one pool leaves a                   *)
(* member out of its own list may a disk that names no pool be mistaken for *)
(* it.  No drive that tells its serial is listed twice (storage_drives.py,  *)
(* _pool_drives; storage_pools.py, _is_pool_like).                          *)
MembersOnly ==
  LET pools == view.pools
  IN  \A i \in DOMAIN pools :
        LET pool == pools[i]
            told == Collected(pool, view.disks)
            here == view.drives[i]
        IN  /\ pool.pool \in Pool
            /\ \A j \in DOMAIN here :
                 \/ here[j].home = pool.pool
                 \/ /\ Len(pools) = 1 /\ LacksMember(view.disks, pool)
                    /\ Comparable(here[j], pool) = {}
            /\ here # told =>
                 /\ Len(here) = pool.count
                 /\ \A j \in DOMAIN here :
                      /\ ~ReferencesForeign(here[j], pool)
                      /\ LooksNonMember(here[j]) =>
                           \E k \in DOMAIN told : told[k].serial = here[j].serial /\ LooksNonMember(told[k])
            /\ \A j \in DOMAIN here : SameSerial(here, here[j]) \subseteq {j}

\* A list does not mix drives it tells nothing of with others it tells only a
\* name of, which may read like a position.
OneStyle(drives) ==
  \A j, k \in DOMAIN drives :
    drives[j].tells = {} => "serial" \in drives[k].tells \/ "name" \notin drives[k].tells

\* So for pools: it does not mix those it tells nothing of with others it tells
\* only a name like "Pool 2" of.
OneStyleOfPools(pools) ==
  \A i, j \in DOMAIN pools :
    pools[i].tells = {} => pools[j].tells # {"name"} \/ pools[j].number = None

(* Every listed pool and drive of a list of one style has an entity that    *)
(* shows it, and an entity whose key is the id or name of a pool, a serial  *)
(* or a bay never shows another one's values, however the console orders    *)
(* its lists and whatever it tells from one refresh to the next.  Only a    *)
(* key that reads like a position is no such name: the pool told as         *)
(* "Pool 1" and the drive told as "Drive 2" are shown by whatever stands at *)
(* that position once they are not listed (entities.py, _drive;             *)
(* storage_pools.py, _pool_from_key).                                       *)
EntitiesShowTheirOwn ==
  LET shown == {<<PoolAt(view, key[1]), DriveOf(view, key)>> : key \in knownDrives}
  IN  /\ OneStyleOfPools(view.pools) =>
           /\ DOMAIN view.pools \subseteq {PoolAt(view, key) : key \in knownPools}
           /\ \A i \in DOMAIN view.pools : OneStyle(view.drives[i]) =>
                \A drive \in ToSet(view.drives[i]) :
                  \E same \in ToSet(view.drives[i]) : same.serial = drive.serial /\ <<i, same>> \in shown
      /\ \A key \in knownPools :
           LET pool == PoolOf(view, key)
           IN  key[1] # "pool_" /\ pool # None => pool.pool = key[2]
      /\ \A key \in knownDrives :
           LET drive == DriveOf(view, key)
           IN  drive # None => CASE key[2][1] = "serial" -> drive.serial = key[2][2]
                                 [] key[2][1] = "bay" -> drive.bay = key[2][2]
                                 [] OTHER -> TRUE


\* A capacity, and a used and an available part that fit into it.
Fit(total, used, free) ==
  LET part(value) == IF value = None THEN 0 ELSE value
  IN  total # None /\ part(used) + part(free) <= total

(* The console-wide problem is on when some pool's problem sensor is, and   *)
(* only then where every pool has one.  Each failing drive is counted once, *)
(* and one that its score or its own words label at risk is counted; the    *)
(* label alone reads the words of [details], which the count does not see.  *)
(* No figure is negative.  Where the space used and the space left that the *)
(* console tells fit into the capacity it tells, the shown ones do, those   *)
(* worked out from the others included, per pool and in the totals          *)
(* (storage_capacity.py, _aggregate_available).                             *)
TotalsAgree ==
  LET pools == view.pools
      told  == view.told
      total == AggregateCapacity(told, pools)
      used  == AggregateUsage(told, pools)
      free  == AggregateAvailable(told, pools)
      drives == UNION {ToSet(view.drives[i]) : i \in DOMAIN pools}
      AllFit == \A i \in DOMAIN pools : Fit(pools[i].capacity, pools[i].used, pools[i].free)
      PoolsProblem == \E key \in knownPools : PoolProblem(view, key) = TRUE
  IN  /\ PoolsProblem => StorageProblem(view)
      /\ StorageProblem(view) /\ OneStyleOfPools(pools) => PoolsProblem
      /\ \A drive \in drives :
           /\ drive.score # None => (DriveAtRisk(drive) <=> DriveHealth(drive) = "at_risk")
           /\ DriveHealth(drive) = "at_risk" /\ drive.details # "bad" => DriveAtRisk(drive)
      /\ (\A drive \in drives : "serial" \in drive.tells) =>
           AtRiskDisks(view) = Cardinality({drive.serial : drive \in {x \in drives : DriveAtRisk(x)}})
      /\ \A value \in {total, used, free} : value # None => value >= 0
      /\ \A i \in DOMAIN pools : LET pool == pools[i] IN
           Fit(pool.capacity, pool.used, pool.free)
           => Fit(pool.capacity, PoolUsage(pool), PoolAvailable(pool))
      /\ (AllFit /\ pools # <<>> /\ told = [capacity |-> None, used |-> None, free |-> None])
           => Fit(total, used, free)
=============================================================================
