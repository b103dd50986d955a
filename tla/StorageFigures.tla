--------------------------- MODULE StorageFigures ----------------------------
(* The numbers and the status a console's pools add up to                  *)
(* (storage_capacity.py, storage_pools.py).  A figure is a natural number, *)
(* or None when the payload does not tell it.                              *)
EXTENDS Integers, Sequences, SequencesExt

CONSTANT None

\* What is left of a total, never less than nothing.
LeftOf(total, part) == IF part > total THEN 0 ELSE total - part

Known(total, part) == IF None \in {total, part} THEN None ELSE LeftOf(total, part)

PoolCapacity(pool) == pool.capacity
PoolUsage(pool) ==
  IF pool.used # None THEN pool.used ELSE Known(pool.capacity, pool.free)
PoolAvailable(pool) ==
  IF pool.free # None THEN pool.free ELSE Known(pool.capacity, pool.used)

AddKnown(sum, value) == IF value = None THEN sum ELSE sum + value

Total(values) == FoldLeft(AddKnown, 0, values)

\* Nothing is known of a sum of which no part is.
SumKnown(values) == IF \A i \in DOMAIN values : values[i] = None THEN None ELSE Total(values)

Each(Figure(_), pools) == [i \in DOMAIN pools |-> Figure(pools[i])]

\* The aggregate the payload tells itself, else the sum over the pools.
AggregateCapacity(told, pools) ==
  IF told.capacity # None THEN told.capacity ELSE SumKnown(Each(PoolCapacity, pools))
AggregateUsage(told, pools) ==
  IF told.used # None THEN told.used ELSE SumKnown(Each(PoolUsage, pools))
AggregateAvailable(told, pools) ==
  LET summed == SumKnown(Each(PoolAvailable, pools))
  IN  CASE told.free # None -> told.free
        [] told.free = None /\ summed # None -> summed
        [] OTHER -> Known(AggregateCapacity(told, pools), AggregateUsage(told, pools))

\* Raw statuses fall into the two classes below; any other is shown as it is.
PoolStatus(pool) == pool.status

\* The pools whose status is known.
Told(pools) == {i \in DOMAIN pools : PoolStatus(pools[i]) # None}

\* A careless variant: the first status known speaks for all.
FirstStatus(pools) == IF Told(pools) = {} THEN None ELSE PoolStatus(pools[Min(Told(pools))])

AggregateStatus(pools) ==
  CASE \E i \in Told(pools) : PoolStatus(pools[i]) = "degraded" -> "degraded"
    [] Told(pools) = {} -> None
    [] OTHER -> PoolStatus(pools[Min(Told(pools))])
=============================================================================
