------------------------ MODULE SnapshotInventoryProofs ------------------------
(***************************************************************************)
(* Proofs about SnapshotInventory for every set of targets, every interval *)
(* and every number of writes.                                             *)
(***************************************************************************)
EXTENDS SnapshotInventory, SequenceTheorems, FiniteSetTheorems, TLAPS

Queued(queue) == queue \in Seq(Key) /\ IsInjective(queue)

-----------------------------------------------------------------------------
(* Lemmas about queues.                                                    *)

\* Taking the head of a queue leaves the rest of its keys, each once.
LEMMA TailOfQueue ==
  ASSUME NEW queue, Queued(queue), queue # <<>>
  PROVE  /\ Queued(Tail(queue))
         /\ Head(queue) \in Range(queue)
         /\ Head(queue) \in Key
         /\ Range(queue) = Range(Tail(queue)) \cup {Head(queue)}
         /\ Head(queue) \notin Range(Tail(queue))
<1> DEFINE rest == Tail(queue)
<1>1. /\ queue \in Seq(Key)
      /\ Len(queue) \in Nat \ {0}
      /\ DOMAIN queue = 1..Len(queue)
  BY EmptySeq, LenProperties DEF Queued
<1>2. /\ rest \in Seq(Key)
      /\ Head(queue) \in Key
      /\ Len(rest) = Len(queue) - 1
      /\ \A i \in 1..Len(rest) : rest[i] = queue[i + 1]
  BY <1>1, HeadTailProperties
<1>3. DOMAIN rest = 1..(Len(queue) - 1)
  BY <1>2, LenProperties
<1>4. Head(queue) = queue[1] /\ 1 \in DOMAIN queue
  BY <1>1
<1>5. IsInjective(rest)
  BY <1>1, <1>2, <1>3 DEF IsInjective, Queued
<1>6. Head(queue) \notin Range(rest)
  BY <1>1, <1>2, <1>3, <1>4 DEF IsInjective, Queued, Range
<1>7. Range(queue) = Range(rest) \cup {Head(queue)}
  <2>1. ASSUME NEW k \in Range(queue), k # Head(queue)
        PROVE  k \in Range(rest)
    <3>1. PICK i \in DOMAIN queue : queue[i] = k
      BY DEF Range
    <3>2. i - 1 \in DOMAIN rest /\ rest[i - 1] = k
      BY <2>1, <3>1, <1>1, <1>2, <1>3, <1>4
    <3> QED BY <3>2 DEF Range
  <2>2. ASSUME NEW k \in Range(rest)
        PROVE  k \in Range(queue)
    <3>1. PICK i \in DOMAIN rest : rest[i] = k
      BY DEF Range
    <3>2. i + 1 \in DOMAIN queue /\ queue[i + 1] = k
      BY <3>1, <1>1, <1>2, <1>3
    <3> QED BY <3>2 DEF Range
  <2>3. Head(queue) \in Range(queue)
    BY <1>4 DEF Range
  <2> QED BY <2>1, <2>2, <2>3
<1> QED BY <1>2, <1>4, <1>5, <1>6, <1>7 DEF Queued, Range

\* A key put behind its peers stays in the queue, once.
LEMMA RequeuedQueue ==
  ASSUME NEW queue, Queued(queue), queue # <<>>
  PROVE  /\ Queued(Requeue(queue))
         /\ Requeue(queue) # <<>>
         /\ Range(Requeue(queue)) = Range(queue)
<1> DEFINE rest == Tail(queue)
           turned == Append(rest, Head(queue))
<1>1. /\ Queued(rest)
      /\ Head(queue) \in Key
      /\ Range(queue) = Range(rest) \cup {Head(queue)}
      /\ Head(queue) \notin Range(rest)
  BY TailOfQueue
<1>2. rest \in Seq(Key) /\ Len(rest) \in Nat /\ DOMAIN rest = 1..Len(rest)
  BY <1>1, LenProperties DEF Queued
<1>3. /\ turned \in Seq(Key)
      /\ Len(turned) = Len(rest) + 1
      /\ \A i \in 1..Len(rest) : turned[i] = rest[i]
      /\ turned[Len(rest) + 1] = Head(queue)
  BY <1>1, <1>2, AppendProperties
<1>4. DOMAIN turned = 1..(Len(rest) + 1)
  BY <1>3, LenProperties
<1>5. turned # <<>>
  BY <1>2, <1>3, EmptySeq
<1>6. Range(turned) = Range(rest) \cup {Head(queue)}
  <2>1. ASSUME NEW k \in Range(turned), k # Head(queue)
        PROVE  k \in Range(rest)
    <3>1. PICK i \in DOMAIN turned : turned[i] = k
      BY DEF Range
    <3>2. i \in DOMAIN rest /\ rest[i] = k
      BY <2>1, <3>1, <1>2, <1>3, <1>4
    <3> QED BY <3>2 DEF Range
  <2>2. ASSUME NEW k \in Range(rest)
        PROVE  k \in Range(turned)
    <3>1. PICK i \in DOMAIN rest : rest[i] = k
      BY DEF Range
    <3>2. i \in DOMAIN turned /\ turned[i] = k
      BY <3>1, <1>2, <1>3, <1>4
    <3> QED BY <3>2 DEF Range
  <2>3. Len(rest) + 1 \in DOMAIN turned
    BY <1>2, <1>4
  <2>4. Head(queue) \in Range(turned)
    BY <2>3, <1>3 DEF Range
  <2> QED BY <2>1, <2>2, <2>4
<1>7. IsInjective(turned)
  <2> SUFFICES ASSUME NEW i \in DOMAIN turned, NEW j \in DOMAIN turned,
                      turned[i] = turned[j]
               PROVE  i = j
    BY DEF IsInjective
  <2>1. \A m \in 1..Len(rest) : turned[m] \in Range(rest)
    BY <1>2, <1>3 DEF Range
  <2>2. i \in 1..Len(rest) <=> j \in 1..Len(rest)
    BY <2>1, <1>1, <1>2, <1>3, <1>4
  <2>3. CASE i \in 1..Len(rest)
    BY <2>2, <2>3, <1>1, <1>2, <1>3 DEF IsInjective, Queued
  <2>4. CASE i \notin 1..Len(rest)
    BY <2>2, <2>4, <1>2, <1>4
  <2> QED BY <2>3, <2>4
<1> QED BY <1>1, <1>3, <1>5, <1>6, <1>7 DEF Requeue, Queued

\* Cutting the first n keys off a queue keeps exactly the others.
LEMMA SuffixOfQueue ==
  ASSUME NEW queue, Queued(queue), NEW n \in 0..Len(queue), n < Len(queue)
  PROVE  LET suffix == SubSeq(queue, n + 1, Len(queue))
             prefix == {queue[i] : i \in 1..n}
         IN  /\ Queued(suffix)
             /\ suffix # <<>>
             /\ Head(suffix) = queue[n + 1]
             /\ Range(queue) = prefix \cup Range(suffix)
<1> DEFINE size == Len(queue)
           suffix == SubSeq(queue, n + 1, size)
           prefix == {queue[i] : i \in 1..n}
<1>1. /\ queue \in Seq(Key)
      /\ size \in Nat
      /\ DOMAIN queue = 1..size
      /\ \A i \in 1..size : queue[i] \in Key
  BY LenProperties, ElementOfSeq DEF Queued
<1> HIDE DEF size
<1>2. n \in Nat /\ n < size
  BY <1>1 DEF size
<1>3. /\ n + 1 \in Int
      /\ size \in Int
      /\ \A i \in (n + 1)..size : queue[i] \in Key
      /\ n + 1 <= size
      /\ size - (n + 1) + 1 = size - n
  BY <1>1, <1>2
<1>4. /\ suffix \in Seq(Key)
      /\ Len(suffix) = size - n
      /\ \A i \in 1..(size - n) : suffix[i] = queue[n + 1 + i - 1]
  BY <1>3, SubSeqProperties
<1> HIDE DEF suffix
<1>5. DOMAIN suffix = 1..(size - n)
  BY <1>4, LenProperties
<1>6. \A i \in 1..(size - n) : suffix[i] = queue[n + i] /\ n + i \in 1..size
  BY <1>1, <1>2, <1>4
<1>7. suffix # <<>>
  BY <1>2, <1>1, <1>4, EmptySeq
<1>8. Head(suffix) = queue[n + 1]
  BY <1>1, <1>2, <1>4, <1>6, <1>7
<1>9. IsInjective(suffix)
  <2> SUFFICES ASSUME NEW i \in DOMAIN suffix, NEW j \in DOMAIN suffix,
                      suffix[i] = suffix[j]
               PROVE  i = j
    BY DEF IsInjective
  <2>1. /\ n + i \in DOMAIN queue /\ n + j \in DOMAIN queue
        /\ queue[n + i] = queue[n + j]
    BY <1>1, <1>5, <1>6
  <2>2. n + i = n + j
    BY <2>1 DEF IsInjective, Queued
  <2>3. i \in Int /\ j \in Int
    BY <1>1, <1>2, <1>5
  <2> QED BY <2>2, <2>3, <1>2
<1>10. Range(queue) = prefix \cup Range(suffix)
  <2>1. ASSUME NEW i \in DOMAIN queue
        PROVE  queue[i] \in prefix \cup Range(suffix)
    <3>1. CASE i \in 1..n
      BY <3>1
    <3>2. CASE i \notin 1..n
      <4>1. i - n \in DOMAIN suffix /\ suffix[i - n] = queue[i]
        BY <3>2, <1>1, <1>2, <1>5, <1>6
      <4> QED BY <4>1 DEF Range
    <3> QED BY <3>1, <3>2
  <2>2. ASSUME NEW i \in 1..n
        PROVE  queue[i] \in Range(queue)
    BY <1>1, <1>2 DEF Range
  <2>3. ASSUME NEW i \in DOMAIN suffix
        PROVE  suffix[i] \in Range(queue)
    BY <1>1, <1>5, <1>6 DEF Range
  <2>4. Range(queue) \subseteq prefix \cup Range(suffix)
    BY <2>1 DEF Range
  <2>5. prefix \subseteq Range(queue)
    BY <2>2
  <2>6. Range(suffix) \subseteq Range(queue)
    BY <2>3 DEF Range
  <2> QED BY <2>4, <2>5, <2>6
<1> QED BY <1>4, <1>7, <1>8, <1>9, <1>10 DEF Queued, suffix, size

\* The queues a batch is built from hold the keys asked for, each once.
LEMMA ArrangedQueue ==
  ASSUME NEW queue \in Queues, NEW old, NEW keys,
         Queued(old), Arranged(queue, old, keys)
  PROVE  Queued(queue) /\ Range(queue) = keys
<1>1. PICK n \in 0..Cardinality(Key) : queue \in [1..n -> Key]
  BY DEF Queues
<1>2. n \in Nat
  BY FS_CardinalityType, KeyAssumption
<1>3. queue \in Seq(Key)
  BY <1>1, <1>2, SeqDef
<1>4. ASSUME NEW i \in DOMAIN queue, NEW j \in DOMAIN queue, i < j
      PROVE  queue[i] # queue[j]
  <2>1. queue[i] \in Key /\ Rank[queue[i]] \in Nat
    BY <1>1, KeyAssumption
  <2>2. Before(queue[i], queue[j], old)
    BY <1>4 DEF Arranged
  <2>3. ~Before(queue[i], queue[i], old)
    <3>1. ~\E a, b \in DOMAIN old : a < b /\ old[a] = queue[i] /\ old[b] = queue[i]
      <4> SUFFICES ASSUME NEW a \in DOMAIN old, NEW b \in DOMAIN old,
                          a < b, old[a] = queue[i], old[b] = queue[i]
                   PROVE  FALSE
        OBVIOUS
      <4>1. DOMAIN old = 1..Len(old) /\ Len(old) \in Nat
        BY LenProperties DEF Queued
      <4>2. a = b
        BY DEF IsInjective, Queued
      <4> QED BY <4>1, <4>2
    <3> QED BY <3>1, <2>1 DEF Before
  <2> QED BY <2>2, <2>3
<1>5. IsInjective(queue)
  BY <1>1, <1>2, <1>4 DEF IsInjective
<1> QED BY <1>3, <1>5 DEF Queued, Arranged

-----------------------------------------------------------------------------
(* The loop over the pending targets.                                      *)

\* What a run of the loop to its next suspension leaves behind: the keys it
\* "passed" have a remembered failure, the others are as they were, and the
\* queue holds exactly the keys not passed.
LoopPost(queue, shown, errs, skipped, passed) ==
  /\ inventory' = shown \ passed
  /\ errors' \in [Key -> Reason \cup {NoReason}]
  /\ skip' \in [Key -> Sticky \cup {NoReason}]
  /\ \A k \in passed : skip'[k] # NoReason /\ errors'[k] = skip'[k]
  /\ \A k \in Key \ passed : errors'[k] = errs[k] /\ skip'[k] = skipped[k]
  /\ Queued(pending')
  /\ Range(queue) = passed \cup Range(pending')
  /\ batchOpen' \in BOOLEAN
  /\ batchOpen' <=> pending' # <<>>
  /\ pc' \in {"idle", "reading"}
  /\ pc' = "reading" => pending' # <<>> /\ skip'[Head(pending')] = NoReason
  /\ typeMap' \in [Type -> Flag]
  /\ batchAge' \in 0..Interval
  /\ lastAge' \in 0..Interval
  /\ overtaken' = FALSE

\* The loop does what LoopPost says, however many targets it passes.
LEMMA LoopRuns ==
  ASSUME NEW queue, Queued(queue), NEW shown,
         NEW errs \in [Key -> Reason \cup {NoReason}],
         NEW skipped \in [Key -> Sticky \cup {NoReason}],
         NEW map \in [Type -> Flag],
         NEW age \in 0..Interval, lastAge \in 0..Interval,
         RunLoop(queue, shown, errs, skipped, map, age)
  PROVE  \E passed \in SUBSET Range(queue) :
           LoopPost(queue, shown, errs, skipped, passed)
<1> DEFINE prefix(n) == {queue[i] : i \in 1..n}
           marked(n) == [k \in Key |->
                           IF k \in prefix(n) /\ skipped[k] = NoReason
                           THEN "unsupported" ELSE skipped[k]]
<1>1. PICK n \in 0..Len(queue) :
        /\ \A i \in 1..n : ~NeedsRead(queue[i], skipped, map)
        /\ n < Len(queue) => NeedsRead(queue[n + 1], skipped, map)
        /\ skip' = marked(n)
        /\ errors' = [k \in Key |-> IF k \in prefix(n) THEN marked(n)[k]
                                    ELSE errs[k]]
        /\ inventory' = shown \ prefix(n)
        /\ overtaken' = FALSE
        /\ IF n < Len(queue)
           THEN /\ pc' = "reading"
                /\ typeMap' = map
                /\ batchOpen' = TRUE
                /\ pending' = SubSeq(queue, n + 1, Len(queue))
                /\ batchAge' = age
                /\ UNCHANGED lastAge
           ELSE /\ pc' = "idle"
                /\ typeMap' = NoMap
                /\ batchOpen' = FALSE
                /\ pending' = <<>>
                /\ batchAge' = 0
                /\ lastAge' = 0
  BY DEF RunLoop
<1> DEFINE passed == prefix(n)
<1>2. /\ queue \in Seq(Key)
      /\ Len(queue) \in Nat
      /\ DOMAIN queue = 1..Len(queue)
      /\ \A i \in 1..Len(queue) : queue[i] \in Key
  BY LenProperties, ElementOfSeq DEF Queued
<1>3. n \in Nat /\ n <= Len(queue) /\ Interval \in Nat
  BY <1>2, BoundAssumption
<1>4. passed \in SUBSET Range(queue) /\ passed \subseteq Key
  BY <1>2, <1>3 DEF Range
<1>5. /\ \A k \in Key : skipped[k] \in Sticky \cup {NoReason}
      /\ "unsupported" \in Sticky
      /\ Sticky \subseteq Reason
      /\ NoReason \notin Reason
  BY DEF Sticky, Reason, NoReason
<1>6. marked(n) \in [Key -> Sticky \cup {NoReason}]
  BY <1>5
<1>7. errors' \in [Key -> Reason \cup {NoReason}]
  BY <1>1, <1>5, <1>6
<1>8. \A k \in passed : skip'[k] # NoReason /\ errors'[k] = skip'[k]
  BY <1>1, <1>4, <1>5
<1>9. \A k \in Key \ passed : errors'[k] = errs[k] /\ skip'[k] = skipped[k]
  BY <1>1
<1>10. NoMap \in [Type -> Flag]
  BY DEF NoMap, Flag
<1>11. CASE n < Len(queue)
  <2>1. /\ Queued(pending')
        /\ pending' # <<>>
        /\ Head(pending') = queue[n + 1]
        /\ Range(queue) = passed \cup Range(pending')
    BY <1>1, <1>11, SuffixOfQueue
  <2>2. queue[n + 1] \in Key /\ skipped[queue[n + 1]] = NoReason
    BY <1>1, <1>2, <1>3, <1>11 DEF NeedsRead
  <2>3. queue[n + 1] \notin passed
    <3>1. NeedsRead(queue[n + 1], skipped, map)
      BY <1>1, <1>11
    <3> QED BY <3>1, <1>1
  <2>4. skip'[Head(pending')] = NoReason
    BY <2>1, <2>2, <2>3, <1>9
  <2> HIDE DEF passed
  <2>5. LoopPost(queue, shown, errs, skipped, passed)
    BY <1>1, <1>6, <1>7, <1>8, <1>9, <1>11, <2>1, <2>4 DEF LoopPost, passed
  <2> QED BY <2>5, <1>4
<1>12. CASE ~(n < Len(queue))
  <2>1. n = Len(queue)
    <3>1. Len(queue) \in Nat
      BY <1>2
    <3> QED BY <3>1, <1>3, <1>12
  <2>2. Range(queue) = passed
    BY <2>1, <1>2 DEF Range
  <2>3. Queued(<<>>) /\ Range(<<>>) = {}
    <3>1. <<>> \in Seq(Key) /\ Len(<<>>) = 0
      BY EmptySeq
    <3>2. DOMAIN <<>> = {}
      OBVIOUS
    <3> QED BY <3>1, <3>2 DEF Queued, Range, IsInjective
  <2>4. /\ pc' = "idle" /\ typeMap' = NoMap /\ batchOpen' = FALSE
        /\ pending' = <<>> /\ batchAge' = 0 /\ lastAge' = 0
    BY <1>1, <1>12
  <2>5. Queued(pending') /\ Range(queue) = passed \cup Range(pending')
    BY <2>2, <2>3, <2>4
  <2>6. /\ inventory' = shown \ passed
        /\ skip' \in [Key -> Sticky \cup {NoReason}]
        /\ overtaken' = FALSE
    BY <1>1, <1>6
  <2>7. 0 \in 0..Interval /\ pc' # "reading" /\ typeMap' \in [Type -> Flag]
    BY <1>3, <1>10, <2>4
  <2> HIDE DEF passed
  <2>8. LoopPost(queue, shown, errs, skipped, passed)
    BY <1>7, <1>8, <1>9, <2>4, <2>5, <2>6, <2>7 DEF LoopPost
  <2> QED BY <2>8, <1>4
<1> QED BY <1>11, <1>12

-----------------------------------------------------------------------------
(* The inductive invariant.                                                *)

\* A read that a write has overtaken is known to need another: the flag is
\* cleared only where a batch is opened or extended, before its next read.
RequestOutlivesRead == overtaken => requested

IInv ==
  /\ TypeOK
  /\ CacheCoherent
  /\ WriteWillBeSeen
  /\ ReadsAreNeeded
  /\ RequestOutlivesRead

\* What the caches handed to the loop must satisfy for the caches it
\* publishes to be coherent.
Presentable(shown, errs, skipped, keys) ==
  /\ shown \subseteq keys
  /\ \A k \in Key : /\ k \in shown => errs[k] = NoReason
                    /\ skipped[k] # NoReason => errs[k] = skipped[k]
                    /\ errs[k] # NoReason => k \in keys

\* The loop publishes coherent caches and stops at a read that is needed,
\* and what it shows of its queue is still waiting in it.
LEMMA LoopKeeps ==
  ASSUME NEW queue, Queued(queue), NEW shown, NEW errs, NEW skipped,
         NEW passed \in SUBSET Range(queue),
         LoopPost(queue, shown, errs, skipped, passed),
         targetKeys' \subseteq Key, Range(queue) \subseteq targetKeys',
         Presentable(shown, errs, skipped, targetKeys')
  PROVE  /\ inventory' \subseteq Key
         /\ CacheCoherent'
         /\ ReadsAreNeeded'
         /\ RequestOutlivesRead'
         /\ \A k \in inventory' \cap Range(queue) : k \in Range(pending')
<1>1. inventory' \subseteq Key
  BY DEF LoopPost, Presentable
<1>2. CacheCoherent'
  <2> SUFFICES ASSUME NEW k \in Key
               PROVE  /\ k \in inventory' => errors'[k] = NoReason
                      /\ skip'[k] # NoReason => errors'[k] = skip'[k]
                      /\ k \in inventory' \/ errors'[k] # NoReason
                           => k \in targetKeys'
    BY DEF CacheCoherent
  <2>1. CASE k \in passed
    BY <2>1 DEF LoopPost
  <2>2. CASE k \notin passed
    BY <2>2 DEF LoopPost, Presentable
  <2> QED BY <2>1, <2>2
<1>3. ReadsAreNeeded'
  BY DEF ReadsAreNeeded, LoopPost, Queued
<1>4. RequestOutlivesRead'
  BY DEF RequestOutlivesRead, LoopPost
<1>5. \A k \in inventory' \cap Range(queue) : k \in Range(pending')
  BY DEF LoopPost
<1> QED BY <1>1, <1>2, <1>3, <1>4, <1>5

\* The part of the caches a settings read keeps is presentable for the
\* targets it advertised.
LEMMA PrunedIsPresentable ==
  ASSUME IInv, NEW keys \in SUBSET Key
  PROVE  /\ Presentable(PrunedShown(keys), Only(errors, keys),
                        Only(skip, keys), keys)
         /\ Only(errors, keys) \in [Key -> Reason \cup {NoReason}]
         /\ Only(skip, keys) \in [Key -> Sticky \cup {NoReason}]
<1>1. /\ errors \in [Key -> Reason \cup {NoReason}]
      /\ skip \in [Key -> Sticky \cup {NoReason}]
  BY DEF IInv, TypeOK
<1>2. /\ Only(errors, keys) \in [Key -> Reason \cup {NoReason}]
      /\ Only(skip, keys) \in [Key -> Sticky \cup {NoReason}]
  BY <1>1 DEF Only
<1>3. Presentable(PrunedShown(keys), Only(errors, keys), Only(skip, keys), keys)
  BY DEF Presentable, PrunedShown, Only, IInv, CacheCoherent
<1> QED BY <1>2, <1>3

\* A settings read either leaves the batch alone or runs the loop over a
\* queue of advertised targets that holds every shown inventory a write has
\* outdated, unless the request for them is kept.
LEMMA SettingsReadQueue ==
  ASSUME IInv, SettingsRead
  PROVE  \/ KeepCache(targets) /\ ~batchOpen
         \/ \E queue \in Queues, age \in 0..Interval :
              /\ Queued(queue)
              /\ Range(queue) \subseteq targets
              /\ RunLoop(queue, PrunedShown(targets), Only(errors, targets),
                         Only(skip, targets), typeFlag, age)
              /\ requested' \in BOOLEAN
              /\ \A k \in PrunedShown(targets) \cap owed :
                   requested' \/ k \in Range(queue)
<1> DEFINE keys == targets
           shown == PrunedShown(keys)
           Loops(queue, age) == RunLoop(queue, shown, Only(errors, keys),
                                        Only(skip, keys), typeFlag, age)
           Runs == \E queue \in Queues, age \in 0..Interval :
                     /\ Queued(queue)
                     /\ Range(queue) \subseteq keys
                     /\ Loops(queue, age)
                     /\ requested' \in BOOLEAN
                     /\ \A k \in shown \cap owed :
                          requested' \/ k \in Range(queue)
<1>1. /\ batchAge \in 0..Interval /\ 0 \in 0..Interval
      /\ Queued(pending) /\ requested \in BOOLEAN
      /\ shown \subseteq keys
      /\ \A k \in shown \cap owed : requested \/ k \in Range(pending)
  BY BoundAssumption DEF IInv, TypeOK, ReadsAreNeeded, Queued, PrunedShown,
     WriteWillBeSeen
<1>2. CASE OpenBatch(targets)
  <2> HIDE DEF Loops
  <2>1. PICK queue \in Queues :
          Arranged(queue, <<>>, keys) /\ requested' = FALSE /\ Loops(queue, 0)
    BY <1>2 DEF OpenBatch, Loops
  <2>2. Queued(<<>>)
    <3>1. <<>> \in Seq(Key) /\ DOMAIN <<>> = {}
      BY EmptySeq
    <3> QED BY <3>1 DEF Queued, IsInjective
  <2>3. Queued(queue) /\ Range(queue) = keys
    BY <2>1, <2>2, ArrangedQueue
  <2> QED BY <1>1, <2>1, <2>3 DEF Loops
<1>3. CASE ResumeBatch(targets)
  <2> HIDE DEF Loops
  <2> DEFINE age == IF RevisitsFinished THEN 0 ELSE batchAge
  <2>1. PICK joined \in Queues :
          /\ IF keys # targetKeys
             THEN Arranged(joined, pending, JoinOpenBatch(targetKeys, keys))
             ELSE joined = pending
          /\ \E queue \in Queues :
               /\ Rejoin(queue, joined, keys)
               /\ requested' = (requested /\ ~RevisitsFinished)
               /\ Loops(queue, age)
    BY <1>3 DEF ResumeBatch, Loops
  <2>2. /\ Queued(joined)
        /\ Range(joined) \subseteq keys
        /\ Range(pending) \cap keys \subseteq Range(joined)
    <3>1. CASE keys # targetKeys
      <4>1. Queued(joined) /\ Range(joined) = JoinOpenBatch(targetKeys, keys)
        BY <1>1, <2>1, <3>1, ArrangedQueue
      <4> QED BY <4>1 DEF JoinOpenBatch
    <3>2. CASE keys = targetKeys
      BY <1>1, <2>1, <3>2 DEF IInv, ReadsAreNeeded
    <3> QED BY <3>1, <3>2
  <2>3. PICK queue \in Queues :
          /\ Rejoin(queue, joined, keys)
          /\ requested' = (requested /\ ~RevisitsFinished)
          /\ Loops(queue, age)
    BY <2>1
  <2>4. /\ age \in 0..Interval
        /\ requested' = FALSE
    BY <1>1, <2>3 DEF RevisitsFinished
  <2>5. /\ Queued(queue)
        /\ Range(queue) \subseteq keys
        /\ \A k \in shown \cap owed : k \in Range(queue)
    <3>1. CASE RevisitsFinished
      BY <1>1, <2>2, <2>3, <3>1, ArrangedQueue DEF Rejoin
    <3>2. CASE ~RevisitsFinished
      BY <1>1, <2>2, <2>3, <3>2 DEF Rejoin, RevisitsFinished
    <3> QED BY <3>1, <3>2
  <2> HIDE DEF age
  <2> QED BY <2>3, <2>4, <2>5 DEF Loops
<1>4. \/ KeepCache(targets) /\ ~batchOpen
      \/ OpenBatch(targets)
      \/ ResumeBatch(targets)
  BY DEF SettingsRead, RefreshDue
<1> QED BY <1>2, <1>3, <1>4

\* A settings read keeps the invariant.
LEMMA SettingsReadKeeps ==
  ASSUME IInv, SettingsRead
  PROVE  IInv'
<1> DEFINE keys == targets
           shown == PrunedShown(keys)
           errs == Only(errors, keys)
           skipped == Only(skip, keys)
<1>1. /\ targets \subseteq Key /\ targets' = targets
      /\ targetKeys' = keys
      /\ owed' = owed /\ writes' = writes /\ typeFlag' = typeFlag
      /\ readSupported' = "yes" /\ available' = TRUE /\ readIssue' = NoReason
      /\ settings' = targets /\ lateDenial' = FALSE
      /\ service' \in {"idle", "reading", "overtaken"}
      /\ asking' \subseteq Reader
  BY DEF SettingsRead, deviceVars, IInv, TypeOK, IssueAfterRead
<1>2. /\ Presentable(shown, errs, skipped, keys)
      /\ errs \in [Key -> Reason \cup {NoReason}]
      /\ skipped \in [Key -> Sticky \cup {NoReason}]
  BY <1>1, PrunedIsPresentable
<1>3. /\ typeFlag \in [Type -> Flag]
      /\ lastAge \in 0..Interval /\ batchAge \in 0..Interval
      /\ requested \in BOOLEAN /\ batchOpen \in BOOLEAN
      /\ Queued(pending)
      /\ batchOpen <=> pending # <<>>
      /\ owed \subseteq Key /\ writes \in 0..MaxWrites
      /\ typeMap \in [Type -> Flag] /\ overtaken \in BOOLEAN
  BY DEF IInv, TypeOK, ReadsAreNeeded, Queued
<1>4. "yes" \in Flag /\ NoReason \in {NoReason, "permission", "unavailable"}
  BY DEF Flag
<1>5. \A k \in shown \cap owed : requested \/ k \in Range(pending)
  BY DEF PrunedShown, IInv, WriteWillBeSeen
<1>6. CASE KeepCache(targets) /\ ~batchOpen
  <2>1. /\ inventory' = shown /\ errors' = errs /\ skip' = skipped
        /\ pc' = "idle"
        /\ batchOpen' = batchOpen /\ pending' = pending
        /\ batchAge' = batchAge /\ requested' = requested
        /\ lastAge' = lastAge /\ typeMap' = typeMap /\ overtaken' = overtaken
    BY <1>6 DEF KeepCache
  <2> HIDE DEF keys, shown, errs, skipped
  <2>2. shown \subseteq Key
    BY <1>1, <1>2 DEF Presentable, keys
  <2>3. TypeOK'
    BY <1>1, <1>2, <1>3, <1>4, <2>1, <2>2
       DEF TypeOK, keys, Queued, NoReason
  <2>4. CacheCoherent'
    BY <1>1, <1>2, <2>1 DEF CacheCoherent, Presentable
  <2>5. WriteWillBeSeen'
    BY <1>1, <1>5, <2>1 DEF WriteWillBeSeen
  <2>6. ReadsAreNeeded'
    <3>1. pending = <<>> /\ Range(<<>>) = {}
      BY <1>3, <1>6 DEF Range
    <3> QED BY <1>3, <1>6, <2>1, <3>1 DEF ReadsAreNeeded, Queued
  <2>7. RequestOutlivesRead'
    BY <2>1 DEF IInv, RequestOutlivesRead
  <2> QED BY <2>3, <2>4, <2>5, <2>6, <2>7 DEF IInv
<1>7. ASSUME NEW queue \in Queues, NEW age \in 0..Interval,
             Queued(queue), Range(queue) \subseteq keys,
             RunLoop(queue, shown, errs, skipped, typeFlag, age),
             requested' \in BOOLEAN,
             \A k \in shown \cap owed : requested' \/ k \in Range(queue)
      PROVE  IInv'
  <2> HIDE DEF keys, shown, errs, skipped
  <2>1. PICK passed \in SUBSET Range(queue) :
          LoopPost(queue, shown, errs, skipped, passed)
    BY <1>2, <1>3, <1>7, LoopRuns
  <2>2. /\ inventory' \subseteq Key
        /\ CacheCoherent'
        /\ ReadsAreNeeded'
        /\ RequestOutlivesRead'
        /\ \A k \in inventory' \cap Range(queue) : k \in Range(pending')
    BY <1>1, <1>2, <1>7, <2>1, LoopKeeps DEF keys
  <2>3. TypeOK'
    BY <1>1, <1>3, <1>4, <1>7, <2>1, <2>2
       DEF TypeOK, LoopPost, keys, Queued, NoReason
  <2>4. WriteWillBeSeen'
    BY <1>1, <1>7, <2>1, <2>2 DEF WriteWillBeSeen, LoopPost
  <2> QED BY <2>2, <2>3, <2>4 DEF IInv
<1> QED BY <1>6, <1>7, SettingsReadQueue

\* The facts about the read in progress that its answer starts from.
LEMMA AnswerContext ==
  ASSUME IInv, NEW k \in Key, Reading(k)
  PROVE  /\ Queued(Tail(pending))
         /\ Range(pending) = Range(Tail(pending)) \cup {k}
         /\ Range(pending) \subseteq targetKeys
         /\ k \in targetKeys
         /\ targetKeys \subseteq Key
         /\ skip[k] = NoReason
         /\ errors \in [Key -> Reason \cup {NoReason}]
         /\ skip \in [Key -> Sticky \cup {NoReason}]
         /\ typeMap \in [Type -> Flag]
         /\ batchAge \in 0..Interval
         /\ lastAge \in 0..Interval
<1>1. /\ Queued(pending) /\ pending # <<>> /\ k = Head(pending)
      /\ Range(pending) \subseteq targetKeys
      /\ skip[k] = NoReason
  BY DEF IInv, TypeOK, ReadsAreNeeded, Reading, Queued
<1>2. /\ Queued(Tail(pending))
      /\ Range(pending) = Range(Tail(pending)) \cup {k}
      /\ k \in Range(pending)
  BY <1>1, TailOfQueue
<1> QED BY <1>1, <1>2 DEF IInv, TypeOK

\* The answer to a read: the loop goes on with caches that take it in.
LEMMA AnswerKeeps ==
  ASSUME IInv, NEW k \in Key, Reading(k),
         NEW shown, NEW errs \in [Key -> Reason \cup {NoReason}],
         NEW skipped \in [Key -> Sticky \cup {NoReason}],
         Presentable(shown, errs, skipped, targetKeys),
         RunLoop(Tail(pending), shown, errs, skipped, typeMap, batchAge),
         UNCHANGED <<targets, writes, readSupported, issueVars, targetKeys,
                     requested>>,
         typeFlag' \in [Type -> Flag],
         owed' \subseteq owed,
         k \in shown \cap owed' => requested,
         shown \subseteq inventory \cup {k}
  PROVE  IInv'
<1>1. /\ Queued(Tail(pending))
      /\ Range(pending) = Range(Tail(pending)) \cup {k}
      /\ Range(pending) \subseteq targetKeys
      /\ targetKeys \subseteq Key
      /\ typeMap \in [Type -> Flag]
      /\ batchAge \in 0..Interval
      /\ lastAge \in 0..Interval
  BY AnswerContext
<1>2. PICK passed \in SUBSET Range(Tail(pending)) :
        LoopPost(Tail(pending), shown, errs, skipped, passed)
  BY <1>1, LoopRuns
<1>3. /\ inventory' \subseteq Key
      /\ CacheCoherent'
      /\ ReadsAreNeeded'
      /\ RequestOutlivesRead'
      /\ \A j \in inventory' \cap Range(Tail(pending)) : j \in Range(pending')
  BY <1>1, <1>2, LoopKeeps
<1>4. TypeOK'
  BY <1>2, <1>3 DEF IInv, TypeOK, LoopPost, Queued, issueVars
<1>5. WriteWillBeSeen'
  <2> SUFFICES ASSUME NEW j \in inventory' \cap owed'
               PROVE  requested' \/ j \in Range(pending')
    BY DEF WriteWillBeSeen
  <2>1. j \in shown /\ j \in owed /\ requested' = requested
    BY <1>2 DEF LoopPost
  <2>2. CASE j = k
    BY <2>1, <2>2
  <2>3. CASE j # k
    <3>1. requested \/ j \in Range(pending)
      BY <2>1, <2>3 DEF IInv, WriteWillBeSeen
    <3> QED BY <1>1, <1>3, <2>1, <2>3, <3>1
  <2> QED BY <2>2, <2>3
<1> QED BY <1>3, <1>4, <1>5 DEF IInv

LEMMA ReadOkKeeps ==
  ASSUME IInv, NEW k \in Key, ReadOk(k)
  PROVE  IInv'
<1> DEFINE errs == [errors EXCEPT ![k] = NoReason]
           skipped == [skip EXCEPT ![k] = NoReason]
<1>1. /\ Reading(k)
      /\ typeFlag' = [typeFlag EXCEPT ![TypeOf[k]] = "yes"]
      /\ owed' = Settled(k)
      /\ RunLoop(Tail(pending), inventory \cup {k}, errs, skipped, typeMap,
                 batchAge)
      /\ UNCHANGED <<targets, writes, readSupported, issueVars, targetKeys,
                     requested>>
  BY DEF ReadOk
<1>2. /\ k \in targetKeys
      /\ errors \in [Key -> Reason \cup {NoReason}]
      /\ skip \in [Key -> Sticky \cup {NoReason}]
  BY <1>1, AnswerContext
<1>3. /\ errs \in [Key -> Reason \cup {NoReason}]
      /\ skipped \in [Key -> Sticky \cup {NoReason}]
  BY <1>2
<1>4. /\ \A j \in Key \ {k} : errs[j] = errors[j] /\ skipped[j] = skip[j]
      /\ errs[k] = NoReason /\ skipped[k] = NoReason
  BY <1>2
<1> HIDE DEF errs, skipped
<1>5. Presentable(inventory \cup {k}, errs, skipped, targetKeys)
  BY <1>2, <1>4 DEF Presentable, IInv, TypeOK, CacheCoherent
<1>6. typeFlag' \in [Type -> Flag]
  BY <1>1 DEF IInv, TypeOK, Flag
<1>7. /\ owed' \subseteq owed
      /\ k \in owed' => requested
  BY <1>1 DEF Settled, IInv, RequestOutlivesRead
<1> QED BY <1>1, <1>3, <1>5, <1>6, <1>7, AnswerKeeps

LEMMA ReadFailedKeeps ==
  ASSUME IInv, NEW k \in Key, NEW reason \in Failures, ReadFailed(k, reason)
  PROVE  IInv'
<1> DEFINE errs == [errors EXCEPT ![k] = reason]
           skipped == Remember(k, reason)
<1>1. /\ Reading(k)
      /\ typeFlag' = IF reason = "unsupported"
                     THEN [typeFlag EXCEPT ![TypeOf[k]] = "no"] ELSE typeFlag
      /\ owed' = owed
      /\ RunLoop(Tail(pending), inventory \ {k}, errs, skipped, typeMap,
                 batchAge)
      /\ UNCHANGED <<targets, writes, readSupported, issueVars, targetKeys,
                     requested>>
  BY DEF ReadFailed, FailedRead, deviceVars
<1>2. /\ k \in targetKeys
      /\ skip[k] = NoReason
      /\ errors \in [Key -> Reason \cup {NoReason}]
      /\ skip \in [Key -> Sticky \cup {NoReason}]
  BY <1>1, AnswerContext
<1>3. reason \in Reason
  BY BoundAssumption DEF Reason, Sticky
<1>4. /\ errs \in [Key -> Reason \cup {NoReason}]
      /\ skipped \in [Key -> Sticky \cup {NoReason}]
  BY <1>2, <1>3 DEF Remember
<1>5. /\ \A j \in Key \ {k} : errs[j] = errors[j] /\ skipped[j] = skip[j]
      /\ errs[k] = reason
      /\ skipped[k] # NoReason => skipped[k] = reason
  BY <1>2 DEF Remember
<1> HIDE DEF errs, skipped
<1>6. Presentable(inventory \ {k}, errs, skipped, targetKeys)
  BY <1>2, <1>5 DEF Presentable, IInv, TypeOK, CacheCoherent
<1>7. typeFlag' \in [Type -> Flag]
  BY <1>1 DEF IInv, TypeOK, Flag
<1> QED BY <1>1, <1>4, <1>6, <1>7, AnswerKeeps

LEMMA ReadCancelledKeeps ==
  ASSUME IInv, ReadCancelled
  PROVE  IInv'
<1>1. /\ Queued(pending) /\ pending # <<>>
      /\ pc' = "idle" /\ pending' = Requeue(pending) /\ overtaken' = FALSE
  BY DEF IInv, TypeOK, ReadsAreNeeded, ReadCancelled, Queued
<1>2. /\ Queued(pending') /\ pending' # <<>> /\ Range(pending') = Range(pending)
  BY <1>1, RequeuedQueue
<1>3. NoMap \in [Type -> Flag]
  BY DEF NoMap, Flag
<1>4. TypeOK'
  BY <1>1, <1>2, <1>3 DEF IInv, TypeOK, ReadCancelled, Queued, deviceVars,
       clientVars, issueVars, cacheVars
<1>5. CacheCoherent'
  BY DEF IInv, CacheCoherent, ReadCancelled, cacheVars
<1>6. WriteWillBeSeen'
  BY <1>2 DEF IInv, WriteWillBeSeen, ReadCancelled, cacheVars, deviceVars
<1>7. ReadsAreNeeded'
  BY <1>1, <1>2 DEF IInv, ReadsAreNeeded, ReadCancelled, Queued
<1>8. RequestOutlivesRead'
  BY <1>1 DEF RequestOutlivesRead
<1> QED BY <1>4, <1>5, <1>6, <1>7, <1>8 DEF IInv

-----------------------------------------------------------------------------
(* The theorems.                                                           *)

LEMMA IInvInit == Init => IInv
<1> SUFFICES ASSUME Init PROVE IInv
  OBVIOUS
<1>1. <<>> \in Seq(Key) /\ DOMAIN <<>> = {}
  BY EmptySeq
<1>2. TypeOK
  <2>1. targets \subseteq Key
    BY DEF Init
  <2>2. Interval \in 0..Interval /\ 0 \in 0..Interval /\ 0 \in 0..MaxWrites
    BY BoundAssumption
  <2>3. NoMap \in [Type -> Flag]
    BY DEF NoMap, Flag
  <2>4. /\ errors \in [Key -> Reason \cup {NoReason}]
        /\ skip \in [Key -> Sticky \cup {NoReason}]
    BY DEF Init
  <2>5. readSupported \in Flag
    BY DEF Init, Flag
  <2> QED BY <1>1, <2>1, <2>2, <2>3, <2>4, <2>5 DEF Init, TypeOK, NoMap
<1>3. CacheCoherent /\ WriteWillBeSeen /\ RequestOutlivesRead
  BY DEF Init, CacheCoherent, WriteWillBeSeen, RequestOutlivesRead
<1>4. ReadsAreNeeded
  BY <1>1 DEF Init, ReadsAreNeeded, Range, IsInjective
<1> QED BY <1>2, <1>3, <1>4 DEF IInv

LEMMA IInvStep == IInv /\ [Next]_vars => IInv'
<1> SUFFICES ASSUME IInv, [Next]_vars PROVE IInv'
  OBVIOUS
<1> USE DEF IInv, deviceVars, clientVars, issueVars, cacheVars, batchVars,
            localVars
<1>1. CASE PollStart
  BY <1>1 DEF PollStart, TypeOK, CacheCoherent, WriteWillBeSeen,
     ReadsAreNeeded, RequestOutlivesRead
<1>2. CASE SettingsFailed
  BY <1>2 DEF SettingsFailed, TypeOK, CacheCoherent, WriteWillBeSeen,
     ReadsAreNeeded, RequestOutlivesRead
<1>3. CASE SettingsUnsupported
  BY <1>3 DEF SettingsUnsupported, TypeOK, Flag, CacheCoherent,
     WriteWillBeSeen, ReadsAreNeeded, RequestOutlivesRead
<1>4. CASE SettingsRead
  BY <1>4, SettingsReadKeeps
<1>5. ASSUME NEW k \in Key \ Stalled, Reply(k)
      PROVE  IInv'
  <2>1. CASE ReadOk(k)
    BY <2>1, ReadOkKeeps
  <2>2. CASE \E reason \in Failures : ReadFailed(k, reason)
    BY <2>2, ReadFailedKeeps
  <2> QED BY <1>5, <2>1, <2>2 DEF Reply
<1>6. CASE ReadCancelled
  BY <1>6, ReadCancelledKeeps
<1>7. ASSUME NEW k \in Key, WriteAcknowledged(k)
      PROVE  IInv'
  <2>1. writes' \in 0..MaxWrites
    BY <1>7, BoundAssumption DEF WriteAcknowledged, TypeOK
  <2>2. overtaken' \in BOOLEAN /\ requested' = TRUE /\ owed' \subseteq Key
    BY <1>7 DEF WriteAcknowledged, TypeOK, Reading
  <2>3. TypeOK'
    BY <1>7, <2>1, <2>2 DEF WriteAcknowledged, TypeOK
  <2>4. CacheCoherent'
    BY <1>7 DEF WriteAcknowledged, CacheCoherent
  <2>5. WriteWillBeSeen' /\ RequestOutlivesRead'
    BY <2>2 DEF WriteWillBeSeen, RequestOutlivesRead
  <2>6. ReadsAreNeeded'
    BY <1>7 DEF WriteAcknowledged, ReadsAreNeeded
  <2> QED BY <2>3, <2>4, <2>5, <2>6
<1>8. CASE SettingsReadByWrite
  BY <1>8 DEF SettingsReadByWrite, TypeOK, Flag, CacheCoherent,
     WriteWillBeSeen, ReadsAreNeeded, RequestOutlivesRead
<1>9. CASE ServiceReadStart \/ ServiceReadOk \/ ServiceReadUnsupported
            \/ ServiceReadFailed
  <2>1. TypeOK'
    <3>1. CASE ServiceReadStart
      BY <3>1 DEF ServiceReadStart, TypeOK
    <3>2. CASE ServiceReadOk
      BY <3>2 DEF ServiceReadOk, TypeOK, IssueAfterRead, Flag
    <3>3. CASE ServiceReadUnsupported
      BY <3>3 DEF ServiceReadUnsupported, TypeOK, Flag
    <3>4. CASE ServiceReadFailed
      BY <3>4 DEF ServiceReadFailed, TypeOK
    <3> QED BY <1>9, <3>1, <3>2, <3>3, <3>4
  <2>2. UNCHANGED <<cacheVars, batchVars, localVars, owed>>
    BY <1>9 DEF ServiceReadStart, ServiceReadOk, ServiceReadUnsupported,
       ServiceReadFailed
  <2> QED BY <2>1, <2>2 DEF CacheCoherent, WriteWillBeSeen, ReadsAreNeeded,
       RequestOutlivesRead
<1>10. CASE TargetsChange
  BY <1>10, KeyAssumption DEF TargetsChange, TypeOK, CacheCoherent,
     WriteWillBeSeen, ReadsAreNeeded, RequestOutlivesRead
<1>11. CASE Tick
  <2>1. lastAge' \in 0..Interval /\ batchAge' \in 0..Interval
    BY <1>11, BoundAssumption DEF Tick, Older, TypeOK
  <2> QED BY <1>11, <2>1 DEF Tick, TypeOK, CacheCoherent,
     WriteWillBeSeen, ReadsAreNeeded, RequestOutlivesRead
<1>12. ASSUME NEW reader \in Reader, Ask(reader)
       PROVE  IInv'
  BY <1>12 DEF Ask, TypeOK, CacheCoherent, WriteWillBeSeen,
     ReadsAreNeeded, RequestOutlivesRead
<1>13. CASE UNCHANGED vars
  BY <1>13 DEF vars, TypeOK, CacheCoherent, WriteWillBeSeen, ReadsAreNeeded,
     RequestOutlivesRead
<1> QED BY <1>1, <1>2, <1>3, <1>4, <1>5, <1>6, <1>7, <1>8, <1>9, <1>10, <1>11,
   <1>12, <1>13 DEF Next

\* Every reachable state satisfies the inductive invariant.
LEMMA InvariantHolds == Spec => []IInv
<1> QED BY IInvInit, IInvStep, PTL DEF Spec

\* Every variable of the refresh keeps its type: the queue of pending
\* targets stays a queue of known targets whatever joins or leaves it.
THEOREM TypeCorrect == Spec => []TypeOK
<1>1. IInv => TypeOK
  BY DEF IInv
<1> QED BY <1>1, InvariantHolds, PTL

\* The inventory, error and skip dictionaries agree in every state between
\* two suspensions of the refresh, for any number of targets.
THEOREM CachesStayCoherent == Spec => []CacheCoherent
<1>1. IInv => CacheCoherent
  BY DEF IInv
<1> QED BY <1>1, InvariantHolds, PTL

\* A shown inventory older than an acknowledged write always has another
\* read coming, whenever the write lands in a batch.
THEOREM NoWriteIsForgotten == Spec => []WriteWillBeSeen
<1>1. IInv => WriteWillBeSeen
  BY DEF IInv
<1> QED BY <1>1, InvariantHolds, PTL

\* The queue of pending targets holds advertised targets once each, and no
\* read is sent to a target with a remembered failure.
THEOREM OnlyNeededReads == Spec => []ReadsAreNeeded
<1>1. IInv => ReadsAreNeeded
  BY DEF IInv
<1> QED BY <1>1, InvariantHolds, PTL

\* The read issue beside listed, available targets always comes from a
\* service read that a poll overtook, whatever the two readers are answered.
THEOREM IssueOnlyWhenUnreadable == Spec => []IssueMeansUnreadable
<1> DEFINE NotYetListed == service = "reading" => settings = {} \/ ~available
           Kept == UNCHANGED <<settings, available, readIssue, service,
                               lateDenial>>
<1>1. Init => IssueMeansUnreadable /\ NotYetListed
  BY DEF Init, IssueMeansUnreadable
<1>2. ASSUME TypeOK, IssueMeansUnreadable, NotYetListed, [Next]_vars
      PROVE  IssueMeansUnreadable' /\ NotYetListed'
  <2> USE DEF TypeOK, IssueMeansUnreadable, IssueAfterRead
  <2>1. CASE SettingsFailed \/ SettingsUnsupported
    BY <1>2, <2>1 DEF SettingsFailed, SettingsUnsupported
  <2>2. CASE SettingsRead
    BY <1>2, <2>2 DEF SettingsRead
  <2>3. CASE ServiceReadStart \/ ServiceReadOk \/ ServiceReadUnsupported
    BY <1>2, <2>3 DEF ServiceReadStart, ServiceReadOk, ServiceReadUnsupported
  <2>4. CASE ServiceReadFailed
    BY <1>2, <2>4 DEF ServiceReadFailed
  <2>5. CASE Kept
    BY <1>2, <2>5
  <2>6. \/ SettingsFailed \/ SettingsUnsupported \/ SettingsRead
        \/ ServiceReadStart \/ ServiceReadOk \/ ServiceReadUnsupported
        \/ ServiceReadFailed \/ Kept
    BY <1>2 DEF Next, vars, issueVars, PollStart, Ask, Reply, ReadOk, ReadFailed,
       ReadCancelled, WriteAcknowledged, SettingsReadByWrite, TargetsChange,
       Tick
  <2> QED BY <2>1, <2>2, <2>3, <2>4, <2>5, <2>6
<1>3. Spec => [](IssueMeansUnreadable /\ NotYetListed)
  BY <1>1, <1>2, TypeCorrect, PTL DEF Spec
<1> QED BY <1>3, PTL

\* No step lets the sensor of a listed target fall back from the snapshots
\* that were read without telling why: not the start of a batch, not its
\* resumption, not its cancellation.
THEOREM NoReadIsDropped == Spec => NoSilentLoss
<1> DEFINE Accounted == \A k \in inventory \ inventory' :
                          errors'[k] # NoReason \/ k \notin targetKeys'
<1>1. ASSUME IInv, [Next]_vars
      PROVE  [Accounted]_vars
  <2>1. CASE SettingsRead
    <3> DEFINE shown == PrunedShown(targets)
               errs == Only(errors, targets)
               skipped == Only(skip, targets)
    <3>1. /\ targetKeys' = targets
          /\ targets \in SUBSET Key
          /\ \A k \in inventory \ shown : k \notin targets
          /\ typeFlag \in [Type -> Flag] /\ lastAge \in 0..Interval
      BY <1>1, <2>1 DEF SettingsRead, PrunedShown, IInv, TypeOK
    <3>2. /\ errs \in [Key -> Reason \cup {NoReason}]
          /\ skipped \in [Key -> Sticky \cup {NoReason}]
      BY <1>1, <3>1, PrunedIsPresentable
    <3>3. CASE KeepCache(targets)
      BY <3>1, <3>3 DEF KeepCache
    <3>4. ASSUME NEW queue \in Queues, NEW age \in 0..Interval,
                 Queued(queue),
                 RunLoop(queue, shown, errs, skipped, typeFlag, age)
          PROVE  Accounted
      <4> HIDE DEF shown, errs, skipped
      <4>1. PICK passed \in SUBSET Range(queue) :
              LoopPost(queue, shown, errs, skipped, passed)
        BY <3>1, <3>2, <3>4, LoopRuns
      <4> QED BY <3>1, <4>1 DEF LoopPost
    <3> HIDE DEF Accounted
    <3> QED BY <1>1, <2>1, <3>3, <3>4, SettingsReadQueue
  <2>2. ASSUME NEW k \in Key, ReadOk(k)
        PROVE  Accounted
    <3> DEFINE errs == [errors EXCEPT ![k] = NoReason]
               skipped == [skip EXCEPT ![k] = NoReason]
    <3>1. /\ Reading(k)
          /\ RunLoop(Tail(pending), inventory \cup {k}, errs, skipped,
                     typeMap, batchAge)
      BY <2>2 DEF ReadOk
    <3>2. /\ Queued(Tail(pending))
          /\ typeMap \in [Type -> Flag]
          /\ batchAge \in 0..Interval /\ lastAge \in 0..Interval
          /\ errs \in [Key -> Reason \cup {NoReason}]
          /\ skipped \in [Key -> Sticky \cup {NoReason}]
      BY <1>1, <3>1, AnswerContext
    <3> HIDE DEF errs, skipped
    <3>3. PICK passed \in SUBSET Range(Tail(pending)) :
            LoopPost(Tail(pending), inventory \cup {k}, errs, skipped, passed)
      BY <3>1, <3>2, LoopRuns
    <3> QED BY <3>3 DEF LoopPost
  <2>3. ASSUME NEW k \in Key, NEW reason \in Failures, ReadFailed(k, reason)
        PROVE  Accounted
    <3> DEFINE errs == [errors EXCEPT ![k] = reason]
               skipped == Remember(k, reason)
    <3>1. /\ Reading(k)
          /\ RunLoop(Tail(pending), inventory \ {k}, errs, skipped,
                     typeMap, batchAge)
      BY <2>3 DEF ReadFailed, FailedRead
    <3>2. reason \in Reason /\ reason # NoReason
      BY BoundAssumption DEF Reason, Sticky, NoReason
    <3>3. /\ Queued(Tail(pending))
          /\ typeMap \in [Type -> Flag]
          /\ batchAge \in 0..Interval /\ lastAge \in 0..Interval
          /\ errs \in [Key -> Reason \cup {NoReason}]
          /\ errs[k] = reason
          /\ skipped \in [Key -> Sticky \cup {NoReason}]
      BY <1>1, <3>1, <3>2, AnswerContext DEF Remember
    <3> HIDE DEF errs, skipped
    <3>4. PICK passed \in SUBSET Range(Tail(pending)) :
            LoopPost(Tail(pending), inventory \ {k}, errs, skipped, passed)
      BY <3>1, <3>3, LoopRuns
    <3>5. errors'[k] # NoReason
      BY <3>2, <3>3, <3>4 DEF LoopPost
    <3> QED BY <3>4, <3>5 DEF LoopPost
  <2>4. CASE UNCHANGED inventory
    BY <2>4
  <2> HIDE DEF Accounted
  <2>5. \/ SettingsRead
        \/ \E k \in Key : ReadOk(k)
        \/ \E k \in Key : \E reason \in Failures : ReadFailed(k, reason)
        \/ UNCHANGED inventory
    BY <1>1 DEF Next, vars, cacheVars, PollStart, Ask, SettingsFailed,
       SettingsUnsupported, Reply, ReadCancelled, WriteAcknowledged,
       SettingsReadByWrite, ServiceReadStart, ServiceReadOk,
       ServiceReadUnsupported, ServiceReadFailed, TargetsChange, Tick
  <2> QED BY <2>1, <2>2, <2>3, <2>4, <2>5
<1> DEFINE Told == \A k \in targetKeys' :
                     SensorStatus(k) = "ok" => SensorStatus(k)' # "fallback"
<1>2. ASSUME IInv, [Next]_vars
      PROVE  [Told]_vars
  <2>1. CASE UNCHANGED vars
    BY <2>1
  <2>2. CASE Accounted
    <3> SUFFICES ASSUME NEW k \in targetKeys', SensorStatus(k) = "ok"
                 PROVE  SensorStatus(k)' # "fallback"
      OBVIOUS
    <3>1. /\ targetKeys' \subseteq Key
          /\ errors \in [Key -> Reason \cup {NoReason}]
          /\ errors' \in [Key -> Reason \cup {NoReason}]
      BY <1>2, IInvStep DEF IInv, TypeOK
    <3>2. k \in inventory
      BY <3>1 DEF SensorStatus, Reason, Sticky, NoReason
    <3>3. k \in inventory' \/ errors'[k] # NoReason
      BY <2>2, <3>2
    <3> QED
      BY <3>1, <3>3 DEF SensorStatus, Reason, Sticky, NoReason
  <2> QED BY <1>1, <1>2, <2>1, <2>2
<1> QED BY <1>2, InvariantHolds, PTL DEF Spec, NoSilentLoss
=============================================================================
