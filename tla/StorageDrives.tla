---------------------------- MODULE StorageDrives ----------------------------
(* Which drives belong to a storage pool, worked out from what one payload *)
(* of the console says (storage_drives.py, storage_pools.py).              *)
(*                                                                         *)
(* A record of the payload is the thing it is about together with the      *)
(* fields it tells: [serial, bay, home, ...] say what is true of the       *)
(* drive, `tells' and `refs' which of it the console wrote down, and every *)
(* operator below reads a field only after asking whether it was told.  A  *)
(* field the console does not leave out but writes as null or empty is     *)
(* `blank'.                                                                *)
EXTENDS Naturals, Sequences, FiniteSets, SequencesExt

CONSTANTS Pool, Drive, None

\* Words of health: healthy, a problem, not of a pool, and any other.
Word == {None, "good", "bad", "unassigned", "other"}

\* Kinds of keys by which an entry of a list is judged.
LikeKeys == {"amount", "members", "raid", "status"}
IdentityKeys == {"identity", "reference", "poolName"}

\* The fields of a drive beside its identity and its references.
Fields == {"spare", "score", "health", "state", "details"}

\* A drive record: the drive [serial, bay] and its pool [home], the references
\* [refs] to that pool it tells, the flag [spare], and its health as a [score]
\* and in words: its own [health] and [state], and [details] for those only its
\* label is read from, under `value' or in a container.
DriveRecord ==
  [serial : Drive, bay : Nat, home : Pool \cup {None}, tells : SUBSET {"serial", "name", "bay"},
   refs : SUBSET {"id", "name"}, spare : BOOLEAN \cup {None}, score : Nat \cup {None},
   health : Word, state : Word, details : Word,
   blank : SUBSET ({"name", "bay"} \cup Fields), blankRefs : SUBSET {"id", "name"},
   keys : SUBSET (LikeKeys \cup IdentityKeys \cup {"driveIdentity"})]

(***************************************************************************)
(* Identity and references.                                                *)
(***************************************************************************)

IdentityGroups == {"serial", "bay"}
StrongGroups == {"serial"}

\* _drive_identity_groups: the groups two records can be compared by.
Identity(drive) == drive.tells \cap IdentityGroups

\* Two records are of one drive when they share a value and no strong group
\* contradicts it.
IdentityMatches(left, right) ==
  LET both == Identity(left) \cap Identity(right)
  IN  /\ \A group \in both \cap StrongGroups : left[group] = right[group]
      /\ \E group \in both : left[group] = right[group]

\* A pool is named by an id of its own, its volume or its raid group, or by name.
ReferenceGroups == {"id", "name"}
StableGroups == {"id"}

\* The groups by which a drive's reference can be held against a pool's own.
Comparable(drive, pool) == drive.refs \cap pool.tells \cap ReferenceGroups

\* Only ids are stable: a different name does not make a drive another pool's.
ReferencesForeign(drive, pool) ==
  Comparable(drive, pool) \cap StableGroups # {} /\ drive.home # pool.pool

ReferenceMatches(drive, pool) ==
  Comparable(drive, pool) # {} /\ drive.home = pool.pool

\* A spare, empty or unassigned device, by one of its flags or its words.
NonPoolHints == {"unassigned"}

LooksNonMember(drive) == drive.spare = TRUE \/ {drive.health, drive.state} \cap NonPoolHints # {}

Fill(told, other) == IF told = None THEN other ELSE told

\* The second record tells what the first leaves out.
MergeDriveEntries(global, local) ==
  [global EXCEPT !.tells = @ \cup local.tells, !.refs = @ \cup local.refs,
                 !.spare = Fill(@, local.spare),
                 !.score = Fill(@, local.score), !.health = Fill(@, local.health),
                 !.state = Fill(@, local.state), !.details = Fill(@, local.details)]

AppendUnique(drives, drive) ==
  IF \E i \in DOMAIN drives : IdentityMatches(drive, drives[i])
  THEN drives ELSE Append(drives, drive)

AppendAll(drives, more) == FoldLeft(AppendUnique, drives, more)

(***************************************************************************)
(* The lists of a payload: pools under the first key that lists any, and   *)
(* the disks of every key together, each once.  An entry of a list is      *)
(* judged by the kinds of keys it has.                                     *)
(***************************************************************************)

SparseIdentityKeys == IdentityKeys \ {"reference"}

PoolLike(keys) ==
  /\ keys \cap LikeKeys # {}
  /\ "driveIdentity" \in keys => keys \cap {"members", "raid", "poolName"} # {}
  /\ \/ "raid" \in keys
     \/ "amount" \in keys /\ keys \cap (IdentityKeys \cup {"status", "members"}) # {}
     \/ "members" \in keys /\ keys \cap (IdentityKeys \cup {"status"}) # {}

\* An entry of an explicit list of pools may tell no more than a name and a status.
SparsePool(keys) == keys \cap SparseIdentityKeys # {} /\ "status" \in keys

FirstNonEmpty(lists) ==
  LET filled == {i \in DOMAIN lists : lists[i] # <<>>}
  IN  IF filled = {} THEN <<>> ELSE lists[Min(filled)]

\* The entries of a list that belong to a set, in their order.
Among(entries, S) ==
  FoldLeft(LAMBDA kept, x : IF x \in S THEN Append(kept, x) ELSE kept, <<>>, entries)

\* Direct "pools", then the alternate keys, then nested containers, which may
\* list anything.
Pools(payload) ==
  FirstNonEmpty(<<payload.pools,
                  Among(payload.volumes, {x \in ToSet(payload.volumes) :
                                            PoolLike(x.keys) \/ SparsePool(x.keys)}),
                  Among(payload.data, {x \in ToSet(payload.data) : PoolLike(x.keys)})>>)

\* Where a list has a drive already, by its serial; a record that tells none
\* is its own key.
SameSerial(drives, drive) ==
  {i \in DOMAIN drives : /\ "serial" \in drives[i].tells \cap drive.tells
                         /\ drives[i].serial = drive.serial}

\* _merge_disk_entries: the later entry of a disk wins where both tell a field,
\* and takes away what it leaves blank.
MergeDiskEntries(existing, value) ==
  LET Later(field) == IF field \in value.blank THEN value[field] ELSE Fill(value[field], existing[field])
  IN  [value EXCEPT !.tells = @ \cup (existing.tells \ value.blank),
                    !.refs = @ \cup (existing.refs \ value.blankRefs),
                    !.spare = Later("spare"), !.score = Later("score"),
                    !.health = Later("health"), !.state = Later("state"),
                    !.details = Later("details")]

\* Later records of a serial are merged into the first one's.
AddDisk(disks, disk) ==
  LET same == SameSerial(disks, disk)
  IN  IF same = {} THEN Append(disks, disk)
      ELSE [disks EXCEPT ![CHOOSE i \in same : TRUE] = MergeDiskEntries(@, disk)]

AddDisks(disks, more) == FoldLeft(AddDisk, disks, more)

GlobalDisks(payload) == FoldLeft(AddDisks, <<>>, payload.disks)

(***************************************************************************)
(* The drives of a pool.                                                   *)
(***************************************************************************)

\* A node below a pool's raid groups is a drive when its keys say so, whatever
\* their values.
DriveLike(node) ==
  LET keys      == node.tells \cup node.blank
      reference == node.refs \cup node.blankRefs # {}
      metric    == node.score # None \/ node.health # None \/ node.blank \cap {"score", "health"} # {}
  IN  \/ keys \cap IdentityGroups # {} /\ (reference \/ "bay" \in keys) /\ metric
      \/ {"serial", "bay"} \subseteq keys /\ reference

\* Of a serial met twice the later node replaces the first.
PutNode(drives, node) ==
  CASE ~DriveLike(node) -> drives
    [] DriveLike(node) /\ SameSerial(drives, node) = {} -> Append(drives, node)
    [] OTHER -> [i \in DOMAIN drives |->
                   IF i \in SameSerial(drives, node) THEN node ELSE drives[i]]

RaidDrives(pool) == FoldLeft(PutNode, <<>>, pool.raid)

FromReferences(pool, disks) ==
  Among(disks, {disk \in ToSet(disks) : ~ReferencesForeign(disk, pool) /\ ReferenceMatches(disk, pool)})

KnownAs(disk, known) == {i \in DOMAIN known : IdentityMatches(disk, known[i])}

\* A global disk is a member for certain, may be one, or is none.
SortDisk(pool, known, acc, disk) ==
  LET Member(x) == [acc EXCEPT !.members = AppendUnique(acc.members, x)]
  IN  IF LooksNonMember(disk) \/ ReferencesForeign(disk, pool) THEN acc
      ELSE IF KnownAs(disk, known) # {}
           THEN Member(MergeDriveEntries(disk, known[Min(KnownAs(disk, known))]))
      ELSE IF ReferenceMatches(disk, pool) THEN Member(disk)
      ELSE IF Comparable(disk, pool) # {} THEN acc
      ELSE [acc EXCEPT !.candidates = AppendUnique(acc.candidates, disk)]

Sorted(pool, disks, known) ==
  FoldLeft(LAMBDA acc, disk : SortDisk(pool, known, acc, disk),
           [members |-> <<>>, candidates |-> <<>>], disks)

\* A careless variant: as many candidates as are missing, whoever they are.
EnoughMembers(pool, disks, known) ==
  LET sorted == Sorted(pool, disks, known)
      all    == sorted.members \o sorted.candidates
  IN  SubSeq(all, 1, IF Len(all) > pool.count THEN pool.count ELSE Len(all))

\* The candidates are taken only when they are exactly as many as are missing.
GlobalMembers(pool, disks, known) ==
  LET sorted == Sorted(pool, disks, known)
      found  == Len(sorted.members)
  IN  CASE found > pool.count -> <<>>
        [] Len(sorted.candidates) = pool.count - found ->
             AppendAll(sorted.members, sorted.candidates)
        [] OTHER -> sorted.members

\* Only the one pool of a console that declares how many drives it has.
SinglePoolDrives(pool, pools, disks, known) ==
  LET members == GlobalMembers(pool, disks, known)
  IN  IF /\ Len(pools) = 1
         /\ pool.count > 0
         /\ Len(members) = pool.count
      THEN members ELSE <<>>

\* The pool's own list, one within its raid or storage, its raid groups, or the
\* console's disks that name it: the first that has drives.
Collected(pool, disks) ==
  FirstNonEmpty(<<pool.drives, pool.nested, RaidDrives(pool), FromReferences(pool, disks)>>)

\* What is collected is completed when the global list knows more drives.
PoolDrives(pool, pools, disks) ==
  LET drives   == Collected(pool, disks)
      complete == SinglePoolDrives(pool, pools, disks, drives)
  IN  IF Len(complete) > Len(drives) THEN complete ELSE drives

(***************************************************************************)
(* Health.                                                                 *)
(***************************************************************************)

DriveAtRisk(drive) ==
  IF drive.score # None THEN drive.score < 5 ELSE "bad" \in {drive.health, drive.state}

\* _drive_health, the label of a drive: the first word told, details last.
DriveHealth(drive) ==
  LET told == Fill(Fill(drive.health, drive.state), drive.details)
  IN  CASE drive.score # None -> IF drive.score >= 5 THEN "optimal" ELSE "at_risk"
        [] drive.score = None /\ told = "good" -> "optimal"
        [] drive.score = None /\ told = "bad" -> "at_risk"
        [] OTHER -> told

AtRiskCount(drives) == Cardinality({i \in DOMAIN drives : DriveAtRisk(drives[i])})
=============================================================================
