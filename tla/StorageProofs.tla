---------------------------- MODULE StorageProofs ----------------------------
(* What the drives, the entities and the totals of a payload are, for every *)
(* payload that is true of one console.  The lists of a payload are folded, *)
(* and each fold is reasoned about through the values it goes through, one  *)
(* for every prefix of the list (FoldSteps and the ...Steps lemmas).        *)
EXTENDS StorageEntities, TLAPS, WellFoundedInduction, FiniteSetTheorems

(***************************************************************************)
(* Folds.                                                                  *)
(***************************************************************************)

\* Induction over the naturals, for a set.
LEMMA NatSetInduction ==
  ASSUME NEW S, 0 \in S, \A n \in Nat : n \in S => n + 1 \in S
  PROVE  Nat \subseteq S
<1> SUFFICES ASSUME Nat \ S # {} PROVE FALSE
  OBVIOUS
<1>1. PICK n \in Nat \ S : \A m \in Nat \ S : ~(<<m, n>> \in OpToRel(<, Nat))
  BY NatLessThanWellFounded, WFMin, Zenon
<1>2. \A m \in Nat \ S : ~(m < n)
  BY <1>1, Zenon DEF OpToRel
<1>3. n \in Nat /\ n \notin S
  BY <1>1
<1> HIDE <1>1
<1>4. n # 0 
  BY <1>3
<1>5. n - 1 \in Nat /\ n - 1 < n /\ n = (n - 1) + 1
  BY <1>3, <1>4
<1>6. n - 1 \in S
  BY <1>2, <1>5
<1> QED BY <1>3, <1>5, <1>6

\* A fold over an interval takes off its last element.
LEMMA MaxOfInterval ==
  ASSUME NEW n \in Nat \ {0}
  PROVE  Max(1..n) = n /\ (1..n) \ {n} = 1..(n - 1)
BY SMT DEF Max

\* Every set of positions has a last one.
LEMMA MaxIn ==
  ASSUME NEW n \in Nat, NEW s \in SUBSET (1..n), s # {}
  PROVE  Max(s) \in s /\ \A x \in s : x <= Max(s)
<1> DEFINE Bound == {k \in Nat : \A x \in s : x <= k}
           T == {k \in Nat : k \notin Bound}
<1>1. n \in Bound
  BY SMT
<1>2. 0 \notin Bound
  <2>1. PICK x \in s : TRUE
    OBVIOUS
  <2> QED BY <2>1
<1> HIDE DEF Bound
<1>3. \E k \in Nat : k \notin Bound /\ k + 1 \in Bound
  <2> SUFFICES ASSUME \A k \in Nat : k \notin Bound => k + 1 \notin Bound PROVE FALSE
    OBVIOUS
  <2>1. 0 \in T /\ \A k \in Nat : k \in T => k + 1 \in T
    BY <1>2
  <2>2. Nat \subseteq T
    <3> HIDE DEF T
    <3> QED BY <2>1, NatSetInduction
  <2> QED BY <1>1, <2>2
<1>4. PICK k \in Nat : k \notin Bound /\ k + 1 \in Bound
  BY <1>3
<1>5. PICK x \in s : ~(x <= k)
  BY <1>4 DEF Bound
<1>6. x = k + 1
  BY <1>4, <1>5 DEF Bound
<1>7. \A y \in s : x >= y
  BY <1>4, <1>6 DEF Bound
<1>8. Max(s) \in s /\ \A y \in s : Max(s) >= y
  BY <1>7 DEF Max
<1> QED BY <1>8

\* f folds step over the subsets of 1..n, largest element last.
Folded(f, n, base, step) ==
  \A s \in SUBSET (1..n) :
    f[s] = IF s = {} THEN base ELSE step[Max(s)][f[s \ {Max(s)}]]

\* A fold whose steps stay within X is a function on the prefixes of its list.
LEMMA FoldExists ==
  ASSUME NEW X, NEW n \in Nat, NEW base \in X, NEW step \in [1..n -> [X -> X]]
  PROVE  \E f \in [SUBSET (1..n) -> X] : Folded(f, n, base, step)
<1> DEFINE Has(k) == \E f \in [SUBSET (1..k) -> X] : Folded(f, k, base, step)
           S == {k \in Nat : k <= n => Has(k)}
<1>1. 0 \in S
  <2>1. [s \in SUBSET (1..0) |-> base] \in [SUBSET (1..0) -> X]
    OBVIOUS
  <2>2. Folded([s \in SUBSET (1..0) |-> base], 0, base, step)
    BY DEF Folded
  <2>3. Has(0) BY <2>1, <2>2
  <2> HIDE DEF Has
  <2> QED BY <2>3
<1>2. ASSUME NEW k \in Nat, k \in S PROVE k + 1 \in S
  <2> SUFFICES ASSUME k + 1 <= n PROVE Has(k + 1)
    <3> HIDE DEF Has
    <3> QED BY <1>2
  <2>0. Has(k)
    <3> HIDE DEF Has
    <3> QED BY <1>2
  <2>1. PICK f \in [SUBSET (1..k) -> X] : Folded(f, k, base, step)
    BY <2>0
  <2> DEFINE g == [s \in SUBSET (1..(k + 1)) |->
                     IF k + 1 \in s THEN step[k + 1][f[s \ {k + 1}]] ELSE f[s]]
  <2>2. \A s \in SUBSET (1..(k + 1)) : s \ {k + 1} \in SUBSET (1..k)
    OBVIOUS
  <2>3. \A s \in SUBSET (1..(k + 1)) : k + 1 \notin s => s \in SUBSET (1..k)
    OBVIOUS
  <2>4. step[k + 1] \in [X -> X]
    OBVIOUS
  <2>5. g \in [SUBSET (1..(k + 1)) -> X]
    BY <2>1, <2>2, <2>3, <2>4
  <2>6. ASSUME NEW s \in SUBSET (1..(k + 1))
        PROVE  g[s] = IF s = {} THEN base ELSE step[Max(s)][g[s \ {Max(s)}]]
    <3>1. CASE k + 1 \in s
      <4>0. Max(s) \in s /\ \A x \in s : x <= Max(s)
        <5>1. k + 1 \in Nat /\ s # {} BY <3>1
        <5> QED BY <5>1, MaxIn
      <4>1. Max(s) = k + 1
        <5> HIDE DEF g, Has
        <5> DEFINE m == Max(s)
        <5>1. m \in 1..(k + 1) /\ k + 1 <= m BY <3>1, <4>0
        <5> HIDE DEF m
        <5>2. m = k + 1 BY <5>1
        <5> QED BY <5>2 DEF m
      <4>2. g[s \ {k + 1}] = f[s \ {k + 1}]
        BY <2>2
      <4> QED BY <3>1, <4>1, <4>2
    <3>2. CASE k + 1 \notin s
      <4>1. g[s] = f[s] /\ s \in SUBSET (1..k)
        BY <2>3, <3>2
      <4>2. s # {} => g[s \ {Max(s)}] = f[s \ {Max(s)}]
        <5>1. s \ {Max(s)} \in SUBSET (1..(k + 1)) /\ k + 1 \notin s \ {Max(s)} BY <3>2
        <5> QED BY <5>1
      <4> QED BY <2>1, <4>1, <4>2 DEF Folded
    <3> QED BY <3>1, <3>2
  <2> QED BY <2>5, <2>6 DEF Folded
<1>3. Nat \subseteq S
  <2> HIDE DEF S
  <2> QED BY <1>1, <1>2, NatSetInduction
<1>4. Has(n)
  <2> HIDE DEF Has
  <2> QED BY <1>3
<1> QED BY <1>4

\* A function that steps from prefix to prefix within X, as a sequence of its values.
LEMMA FoldSteps ==
  ASSUME NEW X, NEW n \in Nat, NEW f, f[{}] \in X,
         \A k \in 1..n : f[1..(k - 1)] \in X => f[1..k] \in X
  PROVE  [k \in 0..n |-> f[1..k]] \in [0..n -> X]
<1> DEFINE S == {k \in Nat : k <= n => f[1..k] \in X}
<1>1. 0 \in S
  <2>1. 1..0 = {}
    OBVIOUS
  <2> QED BY <2>1
<1>2. ASSUME NEW k \in Nat, k \in S PROVE k + 1 \in S
  <2> SUFFICES ASSUME k + 1 <= n PROVE f[1..(k + 1)] \in X
    OBVIOUS
  <2>1. f[1..k] \in X
    BY <1>2
  <2>2. k + 1 \in 1..n /\ (k + 1) - 1 = k
    OBVIOUS
  <2> QED BY <2>1, <2>2
<1>3. Nat \subseteq S
  <2> HIDE DEF S
  <2> QED BY <1>1, <1>2, NatSetInduction
<1>4. \A k \in 0..n : f[1..k] \in X
  <2>1. \A k \in 0..n : k \in S
    BY <1>3
  <2> QED BY <2>1
<1> QED BY <1>4

\* Each fold of the model, prefix by prefix.
AmongTrace(g, X, n, seq, S) ==
  /\ g \in [0..n -> X] /\ g[0] = <<>> /\ g[n] = Among(seq, S)
  /\ \A k \in 1..n : g[k] = (IF seq[k] \in S THEN Append(g[k - 1], seq[k]) ELSE g[k - 1])

LEMMA AmongSteps ==
  ASSUME NEW X, NEW seq, NEW S, NEW n \in Nat, DOMAIN seq = 1..n, <<>> \in X,
         \A x \in X : \A k \in 1..n : (IF seq[k] \in S THEN Append(x, seq[k]) ELSE x) \in X
  PROVE  \E g : AmongTrace(g, X, n, seq, S)
<1> DEFINE Rec(f) == [s \in SUBSET DOMAIN seq |->
                        IF s = {} THEN <<>> ELSE (IF seq[Max(s)] \in S THEN Append(f[s \ {Max(s)}], seq[Max(s)]) ELSE f[s \ {Max(s)}])]
           fold == CHOOSE f : f = Rec(f)
           step == [k \in 1..n |-> [x \in X |-> (IF seq[k] \in S THEN Append(x, seq[k]) ELSE x)]]
           g == [k \in 0..n |-> fold[1..k]]
<1>1. Among(seq, S) = fold[1..n]
  BY Zenon DEF Among, FoldLeft, MapThenFoldSet
<1>2. \E f : f = Rec(f)
  <2>1. step \in [1..n -> [X -> X]]
    OBVIOUS
  <2>2. PICK f \in [SUBSET (1..n) -> X] : Folded(f, n, <<>>, step)
    <3> HIDE DEF step
    <3> QED BY <2>1, FoldExists
  <2>3. ASSUME NEW s \in SUBSET (1..n)
        PROVE  f[s] = IF s = {} THEN <<>> ELSE (IF seq[Max(s)] \in S THEN Append(f[s \ {Max(s)}], seq[Max(s)]) ELSE f[s \ {Max(s)}])
    <3>1. s # {} => Max(s) \in 1..n
      BY MaxIn
    <3>2. f[s] = IF s = {} THEN <<>> ELSE step[Max(s)][f[s \ {Max(s)}]]
      BY <2>2 DEF Folded
    <3> QED BY <3>1, <3>2
  <2>4. f = Rec(f)
    BY <2>3
  <2> QED BY <2>4
<1>3. fold = Rec(fold)
  <2> HIDE DEF Rec
  <2> QED BY <1>2
<1> HIDE DEF fold
<1>4. fold[{}] = <<>>
  BY <1>3
<1>5. ASSUME NEW k \in 1..n PROVE fold[1..k] = (IF seq[k] \in S THEN Append(fold[1..(k - 1)], seq[k]) ELSE fold[1..(k - 1)])
  <2>1. k \in Nat \ {0} /\ k \in 1..k /\ \A j \in 1..k : j \in 1..n
    <3> HIDE DEF Rec, step, g
    <3> QED OBVIOUS
  <2>2. Max(1..k) = k /\ (1..k) \ {k} = 1..(k - 1)
    BY <2>1, MaxOfInterval
  <2> QED BY <1>3, <2>1, <2>2
<1>6. g \in [0..n -> X]
  <2>1. \A k \in 1..n : fold[1..(k - 1)] \in X => fold[1..k] \in X
    BY <1>5
  <2>2. fold[{}] \in X
    BY <1>4
  <2> QED BY <2>1, <2>2, FoldSteps
<1>7. 1..0 = {}
  OBVIOUS
<1>8. g[0] = <<>> /\ g[n] = Among(seq, S) /\ \A k \in 1..n : g[k] = (IF seq[k] \in S THEN Append(g[k - 1], seq[k]) ELSE g[k - 1])
  BY <1>1, <1>4, <1>5, <1>7
<1> HIDE DEF g
<1>9. AmongTrace(g, X, n, seq, S)
  BY <1>6, <1>8 DEF AmongTrace
<1> QED BY <1>9

AddDisksTrace(g, X, n, base, seq) ==
  /\ g \in [0..n -> X] /\ g[0] = base /\ g[n] = AddDisks(base, seq)
  /\ \A k \in 1..n : g[k] = AddDisk(g[k - 1], seq[k])

LEMMA AddDisksSteps ==
  ASSUME NEW X, NEW base, NEW seq, NEW n \in Nat, DOMAIN seq = 1..n, base \in X,
         \A x \in X : \A k \in 1..n : AddDisk(x, seq[k]) \in X
  PROVE  \E g : AddDisksTrace(g, X, n, base, seq)
<1> DEFINE Rec(f) == [s \in SUBSET DOMAIN seq |->
                        IF s = {} THEN base ELSE AddDisk(f[s \ {Max(s)}], seq[Max(s)])]
           fold == CHOOSE f : f = Rec(f)
           step == [k \in 1..n |-> [x \in X |-> AddDisk(x, seq[k])]]
           g == [k \in 0..n |-> fold[1..k]]
<1>1. AddDisks(base, seq) = fold[1..n]
  BY Zenon DEF AddDisks, FoldLeft, MapThenFoldSet
<1>2. \E f : f = Rec(f)
  <2>1. step \in [1..n -> [X -> X]]
    OBVIOUS
  <2>2. PICK f \in [SUBSET (1..n) -> X] : Folded(f, n, base, step)
    <3> HIDE DEF step
    <3> QED BY <2>1, FoldExists
  <2>3. ASSUME NEW s \in SUBSET (1..n)
        PROVE  f[s] = IF s = {} THEN base ELSE AddDisk(f[s \ {Max(s)}], seq[Max(s)])
    <3>1. s # {} => Max(s) \in 1..n
      BY MaxIn
    <3>2. f[s] = IF s = {} THEN base ELSE step[Max(s)][f[s \ {Max(s)}]]
      BY <2>2 DEF Folded
    <3> QED BY <3>1, <3>2
  <2>4. f = Rec(f)
    BY <2>3
  <2> QED BY <2>4
<1>3. fold = Rec(fold)
  <2> HIDE DEF Rec
  <2> QED BY <1>2
<1> HIDE DEF fold
<1>4. fold[{}] = base
  BY <1>3
<1>5. ASSUME NEW k \in 1..n PROVE fold[1..k] = AddDisk(fold[1..(k - 1)], seq[k])
  <2>1. k \in Nat \ {0} /\ k \in 1..k /\ \A j \in 1..k : j \in 1..n
    <3> HIDE DEF Rec, step, g
    <3> QED OBVIOUS
  <2>2. Max(1..k) = k /\ (1..k) \ {k} = 1..(k - 1)
    BY <2>1, MaxOfInterval
  <2> QED BY <1>3, <2>1, <2>2
<1>6. g \in [0..n -> X]
  <2>1. \A k \in 1..n : fold[1..(k - 1)] \in X => fold[1..k] \in X
    BY <1>5
  <2>2. fold[{}] \in X
    BY <1>4
  <2> QED BY <2>1, <2>2, FoldSteps
<1>7. 1..0 = {}
  OBVIOUS
<1>8. g[0] = base /\ g[n] = AddDisks(base, seq) /\ \A k \in 1..n : g[k] = AddDisk(g[k - 1], seq[k])
  BY <1>1, <1>4, <1>5, <1>7
<1> HIDE DEF g
<1>9. AddDisksTrace(g, X, n, base, seq)
  BY <1>6, <1>8 DEF AddDisksTrace
<1> QED BY <1>9

GlobalDisksTrace(g, X, n, payload) ==
  /\ g \in [0..n -> X] /\ g[0] = <<>> /\ g[n] = GlobalDisks(payload)
  /\ \A k \in 1..n : g[k] = AddDisks(g[k - 1], payload.disks[k])

LEMMA GlobalDisksSteps ==
  ASSUME NEW X, NEW payload, NEW n \in Nat, DOMAIN payload.disks = 1..n, <<>> \in X,
         \A x \in X : \A k \in 1..n : AddDisks(x, payload.disks[k]) \in X
  PROVE  \E g : GlobalDisksTrace(g, X, n, payload)
<1> DEFINE Rec(f) == [s \in SUBSET DOMAIN payload.disks |->
                        IF s = {} THEN <<>> ELSE AddDisks(f[s \ {Max(s)}], payload.disks[Max(s)])]
           fold == CHOOSE f : f = Rec(f)
           step == [k \in 1..n |-> [x \in X |-> AddDisks(x, payload.disks[k])]]
           g == [k \in 0..n |-> fold[1..k]]
<1>1. GlobalDisks(payload) = fold[1..n]
  BY Zenon DEF GlobalDisks, FoldLeft, MapThenFoldSet
<1>2. \E f : f = Rec(f)
  <2>1. step \in [1..n -> [X -> X]]
    OBVIOUS
  <2>2. PICK f \in [SUBSET (1..n) -> X] : Folded(f, n, <<>>, step)
    <3> HIDE DEF step
    <3> QED BY <2>1, FoldExists
  <2>3. ASSUME NEW s \in SUBSET (1..n)
        PROVE  f[s] = IF s = {} THEN <<>> ELSE AddDisks(f[s \ {Max(s)}], payload.disks[Max(s)])
    <3>1. s # {} => Max(s) \in 1..n
      BY MaxIn
    <3>2. f[s] = IF s = {} THEN <<>> ELSE step[Max(s)][f[s \ {Max(s)}]]
      BY <2>2 DEF Folded
    <3> QED BY <3>1, <3>2
  <2>4. f = Rec(f)
    BY <2>3
  <2> QED BY <2>4
<1>3. fold = Rec(fold)
  <2> HIDE DEF Rec
  <2> QED BY <1>2
<1> HIDE DEF fold
<1>4. fold[{}] = <<>>
  BY <1>3
<1>5. ASSUME NEW k \in 1..n PROVE fold[1..k] = AddDisks(fold[1..(k - 1)], payload.disks[k])
  <2>1. k \in Nat \ {0} /\ k \in 1..k /\ \A j \in 1..k : j \in 1..n
    <3> HIDE DEF Rec, step, g
    <3> QED OBVIOUS
  <2>2. Max(1..k) = k /\ (1..k) \ {k} = 1..(k - 1)
    BY <2>1, MaxOfInterval
  <2> QED BY <1>3, <2>1, <2>2
<1>6. g \in [0..n -> X]
  <2>1. \A k \in 1..n : fold[1..(k - 1)] \in X => fold[1..k] \in X
    BY <1>5
  <2>2. fold[{}] \in X
    BY <1>4
  <2> QED BY <2>1, <2>2, FoldSteps
<1>7. 1..0 = {}
  OBVIOUS
<1>8. g[0] = <<>> /\ g[n] = GlobalDisks(payload) /\ \A k \in 1..n : g[k] = AddDisks(g[k - 1], payload.disks[k])
  BY <1>1, <1>4, <1>5, <1>7
<1> HIDE DEF g
<1>9. GlobalDisksTrace(g, X, n, payload)
  BY <1>6, <1>8 DEF GlobalDisksTrace
<1> QED BY <1>9

RaidDrivesTrace(g, X, n, pool) ==
  /\ g \in [0..n -> X] /\ g[0] = <<>> /\ g[n] = RaidDrives(pool)
  /\ \A k \in 1..n : g[k] = PutNode(g[k - 1], pool.raid[k])

LEMMA RaidDrivesSteps ==
  ASSUME NEW X, NEW pool, NEW n \in Nat, DOMAIN pool.raid = 1..n, <<>> \in X,
         \A x \in X : \A k \in 1..n : PutNode(x, pool.raid[k]) \in X
  PROVE  \E g : RaidDrivesTrace(g, X, n, pool)
<1> DEFINE Rec(f) == [s \in SUBSET DOMAIN pool.raid |->
                        IF s = {} THEN <<>> ELSE PutNode(f[s \ {Max(s)}], pool.raid[Max(s)])]
           fold == CHOOSE f : f = Rec(f)
           step == [k \in 1..n |-> [x \in X |-> PutNode(x, pool.raid[k])]]
           g == [k \in 0..n |-> fold[1..k]]
<1>1. RaidDrives(pool) = fold[1..n]
  BY Zenon DEF RaidDrives, FoldLeft, MapThenFoldSet
<1>2. \E f : f = Rec(f)
  <2>1. step \in [1..n -> [X -> X]]
    OBVIOUS
  <2>2. PICK f \in [SUBSET (1..n) -> X] : Folded(f, n, <<>>, step)
    <3> HIDE DEF step
    <3> QED BY <2>1, FoldExists
  <2>3. ASSUME NEW s \in SUBSET (1..n)
        PROVE  f[s] = IF s = {} THEN <<>> ELSE PutNode(f[s \ {Max(s)}], pool.raid[Max(s)])
    <3>1. s # {} => Max(s) \in 1..n
      BY MaxIn
    <3>2. f[s] = IF s = {} THEN <<>> ELSE step[Max(s)][f[s \ {Max(s)}]]
      BY <2>2 DEF Folded
    <3> QED BY <3>1, <3>2
  <2>4. f = Rec(f)
    BY <2>3
  <2> QED BY <2>4
<1>3. fold = Rec(fold)
  <2> HIDE DEF Rec
  <2> QED BY <1>2
<1> HIDE DEF fold
<1>4. fold[{}] = <<>>
  BY <1>3
<1>5. ASSUME NEW k \in 1..n PROVE fold[1..k] = PutNode(fold[1..(k - 1)], pool.raid[k])
  <2>1. k \in Nat \ {0} /\ k \in 1..k /\ \A j \in 1..k : j \in 1..n
    <3> HIDE DEF Rec, step, g
    <3> QED OBVIOUS
  <2>2. Max(1..k) = k /\ (1..k) \ {k} = 1..(k - 1)
    BY <2>1, MaxOfInterval
  <2> QED BY <1>3, <2>1, <2>2
<1>6. g \in [0..n -> X]
  <2>1. \A k \in 1..n : fold[1..(k - 1)] \in X => fold[1..k] \in X
    BY <1>5
  <2>2. fold[{}] \in X
    BY <1>4
  <2> QED BY <2>1, <2>2, FoldSteps
<1>7. 1..0 = {}
  OBVIOUS
<1>8. g[0] = <<>> /\ g[n] = RaidDrives(pool) /\ \A k \in 1..n : g[k] = PutNode(g[k - 1], pool.raid[k])
  BY <1>1, <1>4, <1>5, <1>7
<1> HIDE DEF g
<1>9. RaidDrivesTrace(g, X, n, pool)
  BY <1>6, <1>8 DEF RaidDrivesTrace
<1> QED BY <1>9

SortedTrace(g, X, n, pool, known, seq) ==
  /\ g \in [0..n -> X] /\ g[0] = [members |-> <<>>, candidates |-> <<>>] /\ g[n] = Sorted(pool, seq, known)
  /\ \A k \in 1..n : g[k] = SortDisk(pool, known, g[k - 1], seq[k])

LEMMA SortedSteps ==
  ASSUME NEW X, NEW pool, NEW known, NEW seq, NEW n \in Nat, DOMAIN seq = 1..n, [members |-> <<>>, candidates |-> <<>>] \in X,
         \A x \in X : \A k \in 1..n : SortDisk(pool, known, x, seq[k]) \in X
  PROVE  \E g : SortedTrace(g, X, n, pool, known, seq)
<1> DEFINE Rec(f) == [s \in SUBSET DOMAIN seq |->
                        IF s = {} THEN [members |-> <<>>, candidates |-> <<>>] ELSE SortDisk(pool, known, f[s \ {Max(s)}], seq[Max(s)])]
           fold == CHOOSE f : f = Rec(f)
           step == [k \in 1..n |-> [x \in X |-> SortDisk(pool, known, x, seq[k])]]
           g == [k \in 0..n |-> fold[1..k]]
<1>1. Sorted(pool, seq, known) = fold[1..n]
  BY Zenon DEF Sorted, FoldLeft, MapThenFoldSet
<1>2. \E f : f = Rec(f)
  <2>1. step \in [1..n -> [X -> X]]
    OBVIOUS
  <2>2. PICK f \in [SUBSET (1..n) -> X] : Folded(f, n, [members |-> <<>>, candidates |-> <<>>], step)
    <3> HIDE DEF step
    <3> QED BY <2>1, FoldExists
  <2>3. ASSUME NEW s \in SUBSET (1..n)
        PROVE  f[s] = IF s = {} THEN [members |-> <<>>, candidates |-> <<>>] ELSE SortDisk(pool, known, f[s \ {Max(s)}], seq[Max(s)])
    <3>1. s # {} => Max(s) \in 1..n
      BY MaxIn
    <3>2. f[s] = IF s = {} THEN [members |-> <<>>, candidates |-> <<>>] ELSE step[Max(s)][f[s \ {Max(s)}]]
      BY <2>2 DEF Folded
    <3> QED BY <3>1, <3>2
  <2>4. f = Rec(f)
    BY <2>3
  <2> QED BY <2>4
<1>3. fold = Rec(fold)
  <2> HIDE DEF Rec
  <2> QED BY <1>2
<1> HIDE DEF fold
<1>4. fold[{}] = [members |-> <<>>, candidates |-> <<>>]
  BY <1>3
<1>5. ASSUME NEW k \in 1..n PROVE fold[1..k] = SortDisk(pool, known, fold[1..(k - 1)], seq[k])
  <2>1. k \in Nat \ {0} /\ k \in 1..k /\ \A j \in 1..k : j \in 1..n
    <3> HIDE DEF Rec, step, g
    <3> QED OBVIOUS
  <2>2. Max(1..k) = k /\ (1..k) \ {k} = 1..(k - 1)
    BY <2>1, MaxOfInterval
  <2> QED BY <1>3, <2>1, <2>2
<1>6. g \in [0..n -> X]
  <2>1. \A k \in 1..n : fold[1..(k - 1)] \in X => fold[1..k] \in X
    BY <1>5
  <2>2. fold[{}] \in X
    BY <1>4
  <2> QED BY <2>1, <2>2, FoldSteps
<1>7. 1..0 = {}
  OBVIOUS
<1>8. g[0] = [members |-> <<>>, candidates |-> <<>>] /\ g[n] = Sorted(pool, seq, known) /\ \A k \in 1..n : g[k] = SortDisk(pool, known, g[k - 1], seq[k])
  BY <1>1, <1>4, <1>5, <1>7
<1> HIDE DEF g
<1>9. SortedTrace(g, X, n, pool, known, seq)
  BY <1>6, <1>8 DEF SortedTrace
<1> QED BY <1>9

AppendAllTrace(g, X, n, base, seq) ==
  /\ g \in [0..n -> X] /\ g[0] = base /\ g[n] = AppendAll(base, seq)
  /\ \A k \in 1..n : g[k] = AppendUnique(g[k - 1], seq[k])

LEMMA AppendAllSteps ==
  ASSUME NEW X, NEW base, NEW seq, NEW n \in Nat, DOMAIN seq = 1..n, base \in X,
         \A x \in X : \A k \in 1..n : AppendUnique(x, seq[k]) \in X
  PROVE  \E g : AppendAllTrace(g, X, n, base, seq)
<1> DEFINE Rec(f) == [s \in SUBSET DOMAIN seq |->
                        IF s = {} THEN base ELSE AppendUnique(f[s \ {Max(s)}], seq[Max(s)])]
           fold == CHOOSE f : f = Rec(f)
           step == [k \in 1..n |-> [x \in X |-> AppendUnique(x, seq[k])]]
           g == [k \in 0..n |-> fold[1..k]]
<1>1. AppendAll(base, seq) = fold[1..n]
  BY Zenon DEF AppendAll, FoldLeft, MapThenFoldSet
<1>2. \E f : f = Rec(f)
  <2>1. step \in [1..n -> [X -> X]]
    OBVIOUS
  <2>2. PICK f \in [SUBSET (1..n) -> X] : Folded(f, n, base, step)
    <3> HIDE DEF step
    <3> QED BY <2>1, FoldExists
  <2>3. ASSUME NEW s \in SUBSET (1..n)
        PROVE  f[s] = IF s = {} THEN base ELSE AppendUnique(f[s \ {Max(s)}], seq[Max(s)])
    <3>1. s # {} => Max(s) \in 1..n
      BY MaxIn
    <3>2. f[s] = IF s = {} THEN base ELSE step[Max(s)][f[s \ {Max(s)}]]
      BY <2>2 DEF Folded
    <3> QED BY <3>1, <3>2
  <2>4. f = Rec(f)
    BY <2>3
  <2> QED BY <2>4
<1>3. fold = Rec(fold)
  <2> HIDE DEF Rec
  <2> QED BY <1>2
<1> HIDE DEF fold
<1>4. fold[{}] = base
  BY <1>3
<1>5. ASSUME NEW k \in 1..n PROVE fold[1..k] = AppendUnique(fold[1..(k - 1)], seq[k])
  <2>1. k \in Nat \ {0} /\ k \in 1..k /\ \A j \in 1..k : j \in 1..n
    <3> HIDE DEF Rec, step, g
    <3> QED OBVIOUS
  <2>2. Max(1..k) = k /\ (1..k) \ {k} = 1..(k - 1)
    BY <2>1, MaxOfInterval
  <2> QED BY <1>3, <2>1, <2>2
<1>6. g \in [0..n -> X]
  <2>1. \A k \in 1..n : fold[1..(k - 1)] \in X => fold[1..k] \in X
    BY <1>5
  <2>2. fold[{}] \in X
    BY <1>4
  <2> QED BY <2>1, <2>2, FoldSteps
<1>7. 1..0 = {}
  OBVIOUS
<1>8. g[0] = base /\ g[n] = AppendAll(base, seq) /\ \A k \in 1..n : g[k] = AppendUnique(g[k - 1], seq[k])
  BY <1>1, <1>4, <1>5, <1>7
<1> HIDE DEF g
<1>9. AppendAllTrace(g, X, n, base, seq)
  BY <1>6, <1>8 DEF AppendAllTrace
<1> QED BY <1>9

TotalTrace(g, X, n, seq) ==
  /\ g \in [0..n -> X] /\ g[0] = 0 /\ g[n] = Total(seq)
  /\ \A k \in 1..n : g[k] = AddKnown(g[k - 1], seq[k])

LEMMA TotalSteps ==
  ASSUME NEW X, NEW seq, NEW n \in Nat, DOMAIN seq = 1..n, 0 \in X,
         \A x \in X : \A k \in 1..n : AddKnown(x, seq[k]) \in X
  PROVE  \E g : TotalTrace(g, X, n, seq)
<1> DEFINE Rec(f) == [s \in SUBSET DOMAIN seq |->
                        IF s = {} THEN 0 ELSE AddKnown(f[s \ {Max(s)}], seq[Max(s)])]
           fold == CHOOSE f : f = Rec(f)
           step == [k \in 1..n |-> [x \in X |-> AddKnown(x, seq[k])]]
           g == [k \in 0..n |-> fold[1..k]]
<1>1. Total(seq) = fold[1..n]
  BY Zenon DEF Total, FoldLeft, MapThenFoldSet
<1>2. \E f : f = Rec(f)
  <2>1. step \in [1..n -> [X -> X]]
    OBVIOUS
  <2>2. PICK f \in [SUBSET (1..n) -> X] : Folded(f, n, 0, step)
    <3> HIDE DEF step
    <3> QED BY <2>1, FoldExists
  <2>3. ASSUME NEW s \in SUBSET (1..n)
        PROVE  f[s] = IF s = {} THEN 0 ELSE AddKnown(f[s \ {Max(s)}], seq[Max(s)])
    <3>1. s # {} => Max(s) \in 1..n
      BY MaxIn
    <3>2. f[s] = IF s = {} THEN 0 ELSE step[Max(s)][f[s \ {Max(s)}]]
      BY <2>2 DEF Folded
    <3> QED BY <3>1, <3>2
  <2>4. f = Rec(f)
    BY <2>3
  <2> QED BY <2>4
<1>3. fold = Rec(fold)
  <2> HIDE DEF Rec
  <2> QED BY <1>2
<1> HIDE DEF fold
<1>4. fold[{}] = 0
  BY <1>3
<1>5. ASSUME NEW k \in 1..n PROVE fold[1..k] = AddKnown(fold[1..(k - 1)], seq[k])
  <2>1. k \in Nat \ {0} /\ k \in 1..k /\ \A j \in 1..k : j \in 1..n
    <3> HIDE DEF Rec, step, g
    <3> QED OBVIOUS
  <2>2. Max(1..k) = k /\ (1..k) \ {k} = 1..(k - 1)
    BY <2>1, MaxOfInterval
  <2> QED BY <1>3, <2>1, <2>2
<1>6. g \in [0..n -> X]
  <2>1. \A k \in 1..n : fold[1..(k - 1)] \in X => fold[1..k] \in X
    BY <1>5
  <2>2. fold[{}] \in X
    BY <1>4
  <2> QED BY <2>1, <2>2, FoldSteps
<1>7. 1..0 = {}
  OBVIOUS
<1>8. g[0] = 0 /\ g[n] = Total(seq) /\ \A k \in 1..n : g[k] = AddKnown(g[k - 1], seq[k])
  BY <1>1, <1>4, <1>5, <1>7
<1> HIDE DEF g
<1>9. TotalTrace(g, X, n, seq)
  BY <1>6, <1>8 DEF TotalTrace
<1> QED BY <1>9

(***************************************************************************)
(* Records.                                                                *)
(***************************************************************************)

\* Two records are of one drive.
Same(a, b) == a.serial = b.serial /\ a.bay = b.bay /\ a.home = b.home

\* Records that are true of one console, with all that may be merged of them.
Family(K) ==
  /\ K \subseteq DriveRecord
  /\ \A a, b \in K : a.serial = b.serial \/ a.bay = b.bay => Same(a, b)
  /\ \A a, b \in K : MergeDriveEntries(a, b) \in K /\ MergeDiskEntries(a, b) \in K

\* The records of the drives that R tells of.
Kin(R) == {r \in DriveRecord : \E a \in R : Same(r, a)}

LEMMA MergedRecord ==
  ASSUME NEW a \in DriveRecord, NEW b \in DriveRecord
  PROVE  /\ MergeDriveEntries(a, b) \in DriveRecord
         /\ Same(MergeDriveEntries(a, b), a)
         /\ MergeDriveEntries(a, b).tells = a.tells \cup b.tells
         /\ MergeDriveEntries(a, b).spare = Fill(a.spare, b.spare)
         /\ MergeDriveEntries(a, b).health = Fill(a.health, b.health)
         /\ MergeDriveEntries(a, b).state = Fill(a.state, b.state)
<1>1. /\ Fill(a.score, b.score) \in Nat \cup {None}
      /\ Fill(a.health, b.health) \in Word
      /\ Fill(a.state, b.state) \in Word
      /\ Fill(a.details, b.details) \in Word
      /\ Fill(a.spare, b.spare) \in BOOLEAN \cup {None}
  BY DEF DriveRecord, Fill
<1>2. MergeDriveEntries(a, b) \in DriveRecord
  BY <1>1 DEF DriveRecord, MergeDriveEntries
<1>3. /\ Same(MergeDriveEntries(a, b), a)
      /\ MergeDriveEntries(a, b).tells = a.tells \cup b.tells
      /\ MergeDriveEntries(a, b).spare = Fill(a.spare, b.spare)
      /\ MergeDriveEntries(a, b).health = Fill(a.health, b.health)
      /\ MergeDriveEntries(a, b).state = Fill(a.state, b.state)
  BY DEF DriveRecord, MergeDriveEntries, Same
<1> QED BY <1>2, <1>3

\* The later entry of a disk is what its entries are merged into.
LEMMA MergedDisk ==
  ASSUME NEW a \in DriveRecord, NEW b \in DriveRecord
  PROVE  /\ MergeDiskEntries(a, b) \in DriveRecord
         /\ Same(MergeDiskEntries(a, b), b)
         /\ "serial" \in b.tells => "serial" \in MergeDiskEntries(a, b).tells
<1> DEFINE Later(field) == IF field \in b.blank THEN b[field] ELSE Fill(b[field], a[field])
           tells   == b.tells \cup (a.tells \ b.blank)
           refs    == b.refs \cup (a.refs \ b.blankRefs)
           spare   == Later("spare")
           score   == Later("score")
           health  == Later("health")
           state   == Later("state")
           details == Later("details")
<1>1. /\ score \in Nat \cup {None} /\ spare \in BOOLEAN \cup {None}
      /\ health \in Word /\ state \in Word /\ details \in Word
  BY DEF DriveRecord, Fill
<1>2. tells \in SUBSET {"serial", "name", "bay"} /\ refs \in SUBSET {"id", "name"}
  BY DEF DriveRecord
<1>3. "serial" \in b.tells => "serial" \in tells
  OBVIOUS
<1>4. MergeDiskEntries(a, b) =
        [b EXCEPT !.tells = tells, !.refs = refs, !.spare = spare, !.score = score,
                  !.health = health, !.state = state, !.details = details]
  BY DEF MergeDiskEntries
<1> HIDE DEF tells, refs, spare, score, health, state, details
<1>5. MergeDiskEntries(a, b) \in DriveRecord
  <2>1. [b EXCEPT !.tells = tells, !.refs = refs, !.spare = spare, !.score = score,
                  !.health = health, !.state = state, !.details = details] \in DriveRecord
    BY <1>1, <1>2 DEF DriveRecord
  <2> QED BY <1>4, <2>1, Zenon
<1>6. Same(MergeDiskEntries(a, b), b) /\ MergeDiskEntries(a, b).tells = tells
  BY <1>4 DEF DriveRecord, Same
<1> QED BY <1>3, <1>5, <1>6

LEMMA KinIsFamily ==
  ASSUME NEW R, R \subseteq DriveRecord,
         \A a, b \in R : a.serial = b.serial \/ a.bay = b.bay => Same(a, b)
  PROVE  Family(Kin(R)) /\ R \subseteq Kin(R)
<1>1. R \subseteq Kin(R)
  BY DEF Kin, Same
<1>2. ASSUME NEW x \in Kin(R), NEW y \in Kin(R), x.serial = y.serial \/ x.bay = y.bay
      PROVE  Same(x, y)
  <2>1. PICK a \in R, b \in R : Same(x, a) /\ Same(y, b)
    BY DEF Kin
  <2> QED BY <1>2, <2>1 DEF Same
<1>3. ASSUME NEW x \in Kin(R), NEW y \in Kin(R)
      PROVE  MergeDriveEntries(x, y) \in Kin(R)
  <2>1. x \in DriveRecord /\ y \in DriveRecord
    BY DEF Kin
  <2>2. PICK a \in R : Same(x, a)
    BY DEF Kin
  <2>3. MergeDriveEntries(x, y) \in DriveRecord /\ Same(MergeDriveEntries(x, y), a)
    BY <2>1, <2>2, MergedRecord DEF Same
  <2> QED BY <2>3 DEF Kin
<1>4. ASSUME NEW x \in Kin(R), NEW y \in Kin(R)
      PROVE  MergeDiskEntries(x, y) \in Kin(R)
  <2>1. x \in DriveRecord /\ y \in DriveRecord
    BY DEF Kin
  <2>2. PICK a \in R : Same(y, a)
    BY DEF Kin
  <2>3. MergeDiskEntries(x, y) \in DriveRecord /\ Same(MergeDiskEntries(x, y), a)
    BY <2>1, <2>2, MergedDisk DEF Same
  <2> QED BY <2>3 DEF Kin
<1> QED BY <1>1, <1>2, <1>3, <1>4 DEF Family, Kin

\* Records that match are of one drive, and two that tell its serial match.
LEMMA MatchesAreSame ==
  ASSUME NEW K, Family(K), NEW a \in K, NEW b \in K
  PROVE  /\ IdentityMatches(a, b) => Same(a, b)
         /\ IdentityMatches(a, b) <=> IdentityMatches(b, a)
         /\ "serial" \in a.tells \cap b.tells /\ a.serial = b.serial => IdentityMatches(a, b)
<1>1. a \in DriveRecord /\ b \in DriveRecord
  BY DEF Family
<1>2. IdentityMatches(a, b) => a.serial = b.serial \/ a.bay = b.bay
  BY <1>1 DEF IdentityMatches, Identity, IdentityGroups, DriveRecord
<1>3. IdentityMatches(a, b) <=> IdentityMatches(b, a)
  BY DEF IdentityMatches, Identity
<1>4. "serial" \in a.tells \cap b.tells /\ a.serial = b.serial => IdentityMatches(a, b)
  BY <1>1 DEF IdentityMatches, Identity, IdentityGroups, StrongGroups, DriveRecord
<1> QED BY <1>2, <1>3, <1>4 DEF Family

\* No drive that tells its serial is in a list twice.
OnceEach(s) == \A i \in DOMAIN s : SameSerial(s, s[i]) \subseteq {i}

\* No two records of a list match.
NoTwoMatch(s) == \A i, j \in DOMAIN s : IdentityMatches(s[i], s[j]) => i = j

Lists(K) == {s \in Seq(K) : OnceEach(s)}

LEMMA NoTwoMatchOnceEach ==
  ASSUME NEW K, Family(K), NEW s \in Seq(K), NoTwoMatch(s)
  PROVE  OnceEach(s)
<1>1. \A i \in DOMAIN s : s[i] \in K
  OBVIOUS
<1> QED BY <1>1, MatchesAreSame DEF OnceEach, NoTwoMatch, SameSerial

\* AddDisk lists no drive twice, and lists the disk.
LEMMA AddDiskLists ==
  ASSUME NEW K, Family(K), NEW s \in Lists(K), NEW d \in K
  PROVE  AddDisk(s, d) \in Lists(K)
<1>1. s \in Seq(K) /\ OnceEach(s) /\ d \in DriveRecord
  BY DEF Lists, Family
<1>2. CASE SameSerial(s, d) = {}
  <2>1. AddDisk(s, d) = Append(s, d)
    BY <1>2 DEF AddDisk
  <2>2. Append(s, d) \in Seq(K)
    BY <1>1
  <2>3. OnceEach(Append(s, d))
    BY <1>1, <1>2 DEF OnceEach, SameSerial
  <2> QED BY <2>1, <2>2, <2>3 DEF Lists
<1>3. CASE SameSerial(s, d) # {}
  <2> DEFINE i == CHOOSE x \in SameSerial(s, d) : TRUE
             m == MergeDiskEntries(s[i], d)
  <2>1. i \in SameSerial(s, d)
    BY <1>3
  <2>2. AddDisk(s, d) = [s EXCEPT ![i] = m]
    BY <1>3 DEF AddDisk
  <2> HIDE DEF i
  <2>3. i \in DOMAIN s /\ "serial" \in s[i].tells /\ s[i].serial = d.serial /\ s[i] \in K
    BY <1>1, <2>1 DEF SameSerial
  <2>4. m \in K /\ m.serial = s[i].serial /\ "serial" \in m.tells
    <3>1. s[i] \in DriveRecord /\ d \in K /\ m \in K
      BY <1>1, <2>3 DEF Family
    <3>2. Same(m, d) /\ ("serial" \in d.tells => "serial" \in m.tells)
      BY <1>1, <3>1, MergedDisk
    <3>3. "serial" \in d.tells
      BY <2>1 DEF SameSerial
    <3> QED BY <2>3, <3>1, <3>2, <3>3 DEF Same
  <2> HIDE DEF m
  <2>5. [s EXCEPT ![i] = m] \in Seq(K)
    BY <1>1, <2>3, <2>4
  <2>6. OnceEach([s EXCEPT ![i] = m])
    BY <1>1, <2>3, <2>4 DEF OnceEach, SameSerial
  <2> QED BY <2>2, <2>5, <2>6 DEF Lists
<1> QED BY <1>2, <1>3

\* AddDisks and GlobalDisks list no drive twice.
LEMMA AddDisksLists ==
  ASSUME NEW K, Family(K), NEW s \in Lists(K), NEW more \in Seq(K)
  PROVE  AddDisks(s, more) \in Lists(K)
<1> DEFINE n == Len(more)
<1>1. n \in Nat /\ DOMAIN more = 1..n
  OBVIOUS
<1>2. \A x \in Lists(K) : \A k \in 1..n : AddDisk(x, more[k]) \in Lists(K)
  BY <1>1, AddDiskLists
<1> HIDE DEF n
<1>3. PICK g : AddDisksTrace(g, Lists(K), n, s, more)
  BY <1>1, <1>2, AddDisksSteps
<1> QED BY <1>1, <1>3 DEF AddDisksTrace

LEMMA EmptyLists ==
  ASSUME NEW K
  PROVE  <<>> \in Lists(K) /\ NoTwoMatch(<<>>)
BY DEF Lists, OnceEach, NoTwoMatch

LEMMA GlobalDisksLists ==
  ASSUME NEW K, Family(K), NEW payload, payload.disks \in Seq(Seq(K))
  PROVE  GlobalDisks(payload) \in Lists(K)
<1> DEFINE n == Len(payload.disks)
<1>1. n \in Nat /\ DOMAIN payload.disks = 1..n
  OBVIOUS
<1>2. \A x \in Lists(K) : \A k \in 1..n : AddDisks(x, payload.disks[k]) \in Lists(K)
  BY <1>1, AddDisksLists
<1> HIDE DEF n
<1>3. PICK g : GlobalDisksTrace(g, Lists(K), n, payload)
  BY <1>1, <1>2, EmptyLists, GlobalDisksSteps
<1> QED BY <1>1, <1>3 DEF GlobalDisksTrace

\* Among picks entries of the set, each of its own position.
Picks(h, kept, seq, n, S) ==
  /\ h \in [DOMAIN kept -> 1..n]
  /\ \A i, j \in DOMAIN kept : h[i] = h[j] => i = j
  /\ \A i \in DOMAIN kept : kept[i] = seq[h[i]] /\ seq[h[i]] \in S

LEMMA AmongPicks ==
  ASSUME NEW seq, NEW n \in Nat, DOMAIN seq = 1..n, NEW S
  PROVE  \E h : /\ Picks(h, Among(seq, S), seq, n, S)
                /\ Among(seq, S) \in Seq({seq[i] : i \in 1..n})
<1> DEFINE A == {seq[i] : i \in 1..n}
<1>1. <<>> \in Seq(A) /\ \A x \in Seq(A) : \A k \in 1..n :
        (IF seq[k] \in S THEN Append(x, seq[k]) ELSE x) \in Seq(A)
  OBVIOUS
<1>2. PICK g : AmongTrace(g, Seq(A), n, seq, S)
  <2> HIDE DEF A
  <2> QED BY <1>1, AmongSteps
<1>2a. /\ g \in [0..n -> Seq(A)] /\ g[0] = <<>> /\ g[n] = Among(seq, S)
      /\ \A k \in 1..n : g[k] = (IF seq[k] \in S THEN Append(g[k - 1], seq[k]) ELSE g[k - 1])
  BY <1>2 DEF AmongTrace
<1> DEFINE T == {k \in Nat : k <= n => \E h : Picks(h, g[k], seq, k, S)}
<1>3. 0 \in T
  <2>1. Picks(<<>>, g[0], seq, 0, S)
    BY <1>2a DEF Picks
  <2> QED BY <2>1
<1>4. ASSUME NEW k \in Nat, k \in T PROVE k + 1 \in T
  <2> SUFFICES ASSUME k + 1 <= n PROVE \E h : Picks(h, g[k + 1], seq, k + 1, S)
    OBVIOUS
  <2>1. PICK h : Picks(h, g[k], seq, k, S)
    BY <1>4
  <2>2. k + 1 \in 1..n /\ (k + 1) - 1 = k /\ g[k] \in Seq(A)
    BY <1>2a
  <2> HIDE DEF A
  <2>3. CASE seq[k + 1] \notin S
    <3>1. g[k + 1] = g[k]
      BY <1>2a, <2>2, <2>3
    <3>2. Picks(h, g[k + 1], seq, k + 1, S)
      BY <2>1, <3>1 DEF Picks
    <3> QED BY <3>2
  <2>4. CASE seq[k + 1] \in S
    <3> DEFINE m == Len(g[k])
               h1 == [i \in 1..(m + 1) |-> IF i = m + 1 THEN k + 1 ELSE h[i]]
    <3>1. g[k + 1] = Append(g[k], seq[k + 1])
      BY <1>2a, <2>2, <2>4
    <3>2. /\ m \in Nat /\ DOMAIN g[k] = 1..m /\ DOMAIN g[k + 1] = 1..(m + 1)
          /\ \A i \in 1..m : g[k + 1][i] = g[k][i]
          /\ g[k + 1][m + 1] = seq[k + 1]
      BY <2>2, <3>1
    <3> HIDE DEF T
    <3> HIDE DEF m
    <3>3. \A i \in 1..m : h1[i] = h[i] /\ h[i] \in 1..k
      BY <2>1, <3>2 DEF Picks
    <3>4. h1[m + 1] = k + 1 /\ \A i \in 1..(m + 1) : i = m + 1 \/ i \in 1..m
      BY <3>2
    <3>5. h1 \in [1..(m + 1) -> 1..(k + 1)]
      <4>1. \A i \in 1..(m + 1) : h1[i] \in 1..(k + 1)
        <5> HIDE DEF h1
        <5>1. k + 1 \in 1..(k + 1) /\ \A x \in 1..k : x \in 1..(k + 1)
          OBVIOUS
        <5> QED BY <3>3, <3>4, <5>1
      <4> QED BY <4>1
    <3> HIDE DEF h1
    <3>6. \A i, j \in 1..(m + 1) : h1[i] = h1[j] => i = j
      <4>1. \A i, j \in 1..m : h[i] = h[j] => i = j
        BY <2>1, <3>2 DEF Picks
      <4>2. \A i \in 1..m : h1[i] # k + 1
        BY <3>3
      <4> QED BY <3>3, <3>4, <4>1, <4>2
    <3>7. \A i \in 1..(m + 1) : g[k + 1][i] = seq[h1[i]] /\ seq[h1[i]] \in S
      BY <2>1, <2>4, <3>2, <3>3, <3>4 DEF Picks
    <3>8. Picks(h1, g[k + 1], seq, k + 1, S)
      BY <3>2, <3>5, <3>6, <3>7 DEF Picks
    <3> QED BY <3>8
  <2> QED BY <2>3, <2>4
<1>5. Nat \subseteq T
  <2> HIDE DEF T
  <2> QED BY <1>3, <1>4, NatSetInduction
<1>6. \E h : Picks(h, g[n], seq, n, S)
  BY <1>5
<1> QED BY <1>2a, <1>6

\* FirstNonEmpty returns one of the lists, or none.
LEMMA MinIn ==
  ASSUME NEW s \in SUBSET Nat, s # {}
  PROVE  Min(s) \in s /\ \A x \in s : Min(s) <= x
<1>1. PICK n \in s : \A m \in s : ~(<<m, n>> \in OpToRel(<, Nat))
  BY NatLessThanWellFounded, WFMin, Zenon
<1>2. \A m \in s : ~(m < n)
  BY <1>1, Zenon DEF OpToRel
<1> HIDE <1>1
<1>3. n \in s /\ \A m \in s : n <= m
  BY <1>2
<1> QED BY <1>3 DEF Min

LEMMA FirstNonEmptyIsOne ==
  ASSUME NEW lists, DOMAIN lists \subseteq Nat
  PROVE  FirstNonEmpty(lists) = <<>> \/ \E i \in DOMAIN lists : FirstNonEmpty(lists) = lists[i]
<1> DEFINE filled == {i \in DOMAIN lists : lists[i] # <<>>}
<1>1. CASE filled = {}
  BY <1>1 DEF FirstNonEmpty
<1>2. CASE filled # {}
  <2>1. FirstNonEmpty(lists) = lists[Min(filled)]
    BY <1>2 DEF FirstNonEmpty
  <2>2. Min(filled) \in filled
    <3>1. filled \in SUBSET Nat
      OBVIOUS
    <3> HIDE DEF filled
    <3> QED BY <1>2, <3>1, MinIn
  <2> QED BY <2>1, <2>2
<1> QED BY <1>1, <1>2

LEMMA RaidDrivesLists ==
  ASSUME NEW K, Family(K), NEW pool, OwnNodes(pool.raid, pool.pool),
         \A i \in DOMAIN pool.raid : DriveLike(pool.raid[i]) => pool.raid[i] \in K
  PROVE  RaidDrives(pool) \in Lists(K) /\ \A i \in DOMAIN RaidDrives(pool) : RaidDrives(pool)[i].home = pool.pool
<1> DEFINE n == Len(pool.raid)
           X == {s \in Lists(K) : \A i \in DOMAIN s : s[i].home = pool.pool}
<1>1. n \in Nat /\ DOMAIN pool.raid = 1..n
  BY DEF OwnNodes
<1>2. <<>> \in X
  BY EmptyLists
<1>3. ASSUME NEW s \in X, NEW k \in 1..n PROVE PutNode(s, pool.raid[k]) \in X
  <2> DEFINE d == pool.raid[k]
             same == SameSerial(s, d)
             r == [i \in DOMAIN s |-> IF i \in same THEN d ELSE s[i]]
  <2>1. DriveLike(d) => d \in K /\ d.home = pool.pool
    BY <1>1 DEF OwnNodes
  <2>2. s \in Seq(K) /\ OnceEach(s) /\ \A i \in DOMAIN s : s[i].home = pool.pool
    BY DEF Lists
  <2>3. CASE ~DriveLike(d)
    BY <2>3 DEF PutNode
  <2> HIDE DEF d
  <2>4. CASE DriveLike(d) /\ same = {}
    <3>1. PutNode(s, d) = Append(s, d)
      BY <2>4 DEF PutNode
    <3>2. Append(s, d) \in Seq(K)
      BY <2>1, <2>2, <2>4
    <3>3. OnceEach(Append(s, d)) /\ \A i \in DOMAIN Append(s, d) : Append(s, d)[i].home = pool.pool
      BY <2>1, <2>2, <2>4 DEF OnceEach, SameSerial
    <3>4. Append(s, d) \in X
      BY <3>2, <3>3 DEF Lists
    <3> QED BY <3>1, <3>4 DEF d
  <2>5. CASE DriveLike(d) /\ same # {}
    <3>1. PutNode(s, d) = r
      BY <2>5 DEF PutNode
    <3>2. PICK j \in same : TRUE
      BY <2>5
    <3>3. same = {j}
      BY <2>2, <3>2 DEF OnceEach, SameSerial
    <3>4. j \in DOMAIN s /\ "serial" \in d.tells /\ "serial" \in s[j].tells /\ d.serial = s[j].serial
      BY <3>2 DEF SameSerial
    <3>5. r \in Seq(K)
      BY <2>1, <2>2, <2>5
    <3>6. OnceEach(r) /\ \A i \in DOMAIN r : r[i].home = pool.pool
      BY <2>1, <2>2, <2>5, <3>3, <3>4 DEF OnceEach, SameSerial
    <3> QED BY <3>1, <3>5, <3>6 DEF Lists, d
  <2> QED BY <2>3, <2>4, <2>5 DEF d
<1> HIDE DEF n, X
<1>4. PICK g : RaidDrivesTrace(g, X, n, pool)
  BY <1>1, <1>2, <1>3, RaidDrivesSteps
<1>5. RaidDrives(pool) \in X
  BY <1>1, <1>4 DEF RaidDrivesTrace
<1> QED BY <1>5 DEF X

LEMMA FromReferencesLists ==
  ASSUME NEW K, Family(K), NEW pool, NEW disks \in Lists(K)
  PROVE  /\ FromReferences(pool, disks) \in Lists(K)
         /\ \A i \in DOMAIN FromReferences(pool, disks) : FromReferences(pool, disks)[i].home = pool.pool
<1> DEFINE S == {disk \in ToSet(disks) : ~ReferencesForeign(disk, pool) /\ ReferenceMatches(disk, pool)}
           n == Len(disks)
           kept == FromReferences(pool, disks)
<1>1. n \in Nat /\ DOMAIN disks = 1..n /\ disks \in Seq(K) /\ OnceEach(disks)
  BY DEF Lists
<1>2. kept = Among(disks, S)
  BY DEF FromReferences
<1> HIDE DEF n, kept
<1>3. PICK h : Picks(h, kept, disks, n, S) /\ kept \in Seq({disks[i] : i \in 1..n})
  <2> HIDE DEF S
  <2> QED BY <1>1, <1>2, AmongPicks
<1>4. kept \in Seq(K)
  BY <1>1, <1>3
<1>5. OnceEach(kept)
  BY <1>1, <1>3 DEF OnceEach, SameSerial, Picks
<1>6. \A i \in DOMAIN kept : kept[i].home = pool.pool
  BY <1>3 DEF Picks, ReferenceMatches
<1> QED BY <1>4, <1>5, <1>6 DEF Lists, kept

\* The records of a pool, and those of the console, are of the family.
PoolIn(pool, K) == PoolEntry(pool) /\ RecordsOf(pool) \subseteq K

\* What is collected of a pool are drives of it, each once.
LEMMA CollectedLists ==
  ASSUME NEW K, Family(K), NEW pool, PoolIn(pool, K), NEW disks \in Lists(K)
  PROVE  /\ Collected(pool, disks) \in Lists(K)
         /\ \A i \in DOMAIN Collected(pool, disks) : Collected(pool, disks)[i].home = pool.pool
<1> DEFINE Good(s) == s \in Lists(K) /\ \A i \in DOMAIN s : s[i].home = pool.pool
           lists == <<pool.drives, pool.nested, RaidDrives(pool), FromReferences(pool, disks)>>
<1>1. ASSUME NEW s, OwnList(s, pool.pool), ToSet(s) \subseteq K PROVE Good(s)
  <2>1. s \in Seq(DriveRecord) /\ \A i \in DOMAIN s : s[i] \in K
    BY <1>1 DEF OwnList, ToSet
  <2>2. s \in Seq(K)
    BY <2>1
  <2> QED BY <1>1, <2>2 DEF OwnList, Lists, OnceEach
<1>2. Good(pool.drives) /\ Good(pool.nested)
  BY <1>1 DEF PoolIn, PoolEntry, RecordsOf
<1>3. Good(RaidDrives(pool))
  BY RaidDrivesLists DEF PoolIn, PoolEntry, RecordsOf, ToSet
<1>4. Good(FromReferences(pool, disks)) /\ Good(<<>>)
  BY FromReferencesLists, EmptyLists
<1> HIDE DEF Good
<1>5. \A i \in DOMAIN lists : Good(lists[i])
  BY <1>2, <1>3, <1>4
<1>6. DOMAIN lists \subseteq Nat
  OBVIOUS
<1>7. Collected(pool, disks) = FirstNonEmpty(lists)
  BY DEF Collected
<1> HIDE DEF lists
<1>8. Good(Collected(pool, disks))
  BY <1>4, <1>5, <1>6, <1>7, FirstNonEmptyIsOne
<1> QED BY <1>8 DEF Good

SerialsOf(s) == {s[i].serial : i \in DOMAIN s}

NoMatches(K) == {s \in Seq(K) : NoTwoMatch(s)}

LEMMA AppendUniqueKeeps ==
  ASSUME NEW K, Family(K), NEW s \in NoMatches(K), NEW d \in K
  PROVE  /\ AppendUnique(s, d) \in NoMatches(K)
         /\ ToSet(s) \subseteq ToSet(AppendUnique(s, d))
         /\ ToSet(AppendUnique(s, d)) \subseteq ToSet(s) \cup {d}
         /\ SerialsOf(AppendUnique(s, d)) = SerialsOf(s) \cup {d.serial}
<1>1. s \in Seq(K) /\ NoTwoMatch(s) /\ \A i \in DOMAIN s : s[i] \in K
  BY DEF NoMatches
<1>2. CASE \E i \in DOMAIN s : IdentityMatches(d, s[i])
  <2>1. AppendUnique(s, d) = s
    BY <1>2 DEF AppendUnique
  <2>2. d.serial \in SerialsOf(s)
    BY <1>1, <1>2, MatchesAreSame DEF SerialsOf, Same
  <2> QED BY <2>1, <2>2
<1>3. CASE ~\E i \in DOMAIN s : IdentityMatches(d, s[i])
  <2> DEFINE r == Append(s, d)
  <2>1. AppendUnique(s, d) = r
    BY <1>3 DEF AppendUnique
  <2>2. /\ r \in Seq(K) /\ Len(s) \in Nat /\ DOMAIN s = 1..Len(s) /\ DOMAIN r = 1..(Len(s) + 1)
        /\ r[Len(s) + 1] = d /\ \A i \in DOMAIN s : r[i] = s[i]
    BY <1>1
  <2> HIDE DEF r
  <2>3. \A i \in DOMAIN r : i = Len(s) + 1 \/ i \in DOMAIN s
    BY <2>2
  <2>4. \A i \in DOMAIN s : ~IdentityMatches(d, s[i]) /\ ~IdentityMatches(s[i], d)
    BY <1>1, <1>3, MatchesAreSame
  <2>5. NoTwoMatch(r)
    BY <1>1, <2>2, <2>3, <2>4 DEF NoTwoMatch
  <2>6. ToSet(r) = ToSet(s) \cup {d} /\ SerialsOf(r) = SerialsOf(s) \cup {d.serial}
    BY <2>2, <2>3 DEF ToSet, SerialsOf
  <2> QED BY <2>1, <2>2, <2>5, <2>6 DEF NoMatches
<1> QED BY <1>2, <1>3

LEMMA AppendAllKeeps ==
  ASSUME NEW K, Family(K), NEW s \in NoMatches(K), NEW more \in Seq(K)
  PROVE  /\ AppendAll(s, more) \in NoMatches(K)
         /\ ToSet(AppendAll(s, more)) \subseteq ToSet(s) \cup ToSet(more)
         /\ SerialsOf(s) \cup SerialsOf(more) \subseteq SerialsOf(AppendAll(s, more))
<1> DEFINE n == Len(more)
           X == {r \in NoMatches(K) : ToSet(r) \subseteq ToSet(s) \cup ToSet(more)}
<1>1. n \in Nat /\ DOMAIN more = 1..n /\ \A k \in 1..n : more[k] \in K /\ more[k] \in ToSet(more)
  BY DEF ToSet
<1>2. s \in X /\ \A r \in X : \A k \in 1..n : AppendUnique(r, more[k]) \in X
  BY <1>1, AppendUniqueKeeps
<1> HIDE DEF n
<1>3. PICK g : AppendAllTrace(g, X, n, s, more)
  <2> HIDE DEF X
  <2> QED BY <1>1, <1>2, AppendAllSteps
<1> DEFINE T == {k \in Nat : k <= n => /\ SerialsOf(s) \subseteq SerialsOf(g[k])
                                       /\ \A i \in 1..k : more[i].serial \in SerialsOf(g[k])}
<1>4. 0 \in T
  BY <1>3 DEF AppendAllTrace
<1>5. ASSUME NEW k \in Nat, k \in T PROVE k + 1 \in T
  <2> SUFFICES ASSUME k + 1 <= n
               PROVE  /\ SerialsOf(s) \subseteq SerialsOf(g[k + 1])
                      /\ \A i \in 1..(k + 1) : more[i].serial \in SerialsOf(g[k + 1])
    OBVIOUS
  <2>1. k + 1 \in 1..n /\ (k + 1) - 1 = k /\ k \in 0..n /\ k <= n
    BY <1>1
  <2>2. g[k + 1] = AppendUnique(g[k], more[k + 1]) /\ g[k] \in NoMatches(K)
    BY <1>3, <2>1 DEF AppendAllTrace
  <2>3. SerialsOf(g[k + 1]) = SerialsOf(g[k]) \cup {more[k + 1].serial}
    BY <1>1, <2>1, <2>2, AppendUniqueKeeps
  <2>4. \A i \in 1..(k + 1) : i = k + 1 \/ i \in 1..k
    OBVIOUS
  <2>5. SerialsOf(s) \subseteq SerialsOf(g[k]) /\ \A i \in 1..k : more[i].serial \in SerialsOf(g[k])
    BY <1>5, <2>1
  <2> QED BY <2>3, <2>4, <2>5
<1>6. n \in T
  <2> HIDE DEF T
  <2>1. Nat \subseteq T
    BY <1>4, <1>5, NatSetInduction
  <2> QED BY <1>1, <2>1
<1>7. g[n] = AppendAll(s, more) /\ g[n] \in X
  BY <1>1, <1>3 DEF AppendAllTrace
<1>8. SerialsOf(s) \subseteq SerialsOf(g[n]) /\ \A i \in 1..n : more[i].serial \in SerialsOf(g[n])
  BY <1>1, <1>6
<1>9. SerialsOf(more) \subseteq SerialsOf(g[n])
  BY <1>1, <1>8 DEF SerialsOf
<1> QED BY <1>7, <1>8, <1>9

\* A spare is a member only where the pool's own list has it.
SpareOnlyIfKnown(r, known) ==
  LooksNonMember(r) => \E k \in DOMAIN known : known[k].serial = r.serial /\ LooksNonMember(known[k])

MemberLists(K, pool, known) ==
  {s \in NoMatches(K) : \A r \in ToSet(s) : r.home = pool.pool /\ SpareOnlyIfKnown(r, known)}

CandidateLists(K, pool) ==
  {s \in NoMatches(K) : \A r \in ToSet(s) : Comparable(r, pool) = {} /\ ~LooksNonMember(r)}

SortedLists(K, pool, known) ==
  [members : MemberLists(K, pool, known), candidates : CandidateLists(K, pool)]

\* What is already known of a pool are drives of it.
KnownLists(K, pool) == {s \in Seq(K) : \A i \in DOMAIN s : s[i].home = pool.pool}

\* A drive of the pool that is neither spare nor unassigned.
IsMember(disk, pool) == disk.home = pool.pool /\ ~LooksNonMember(disk)

Seen(acc) == SerialsOf(acc.members) \cup SerialsOf(acc.candidates)

LEMMA MergedSpare ==
  ASSUME NEW a \in DriveRecord, NEW b \in DriveRecord, ~LooksNonMember(a),
         LooksNonMember(MergeDriveEntries(a, b))
  PROVE  LooksNonMember(b)
<1> DEFINE m == MergeDriveEntries(a, b)
<1>1. /\ m.spare = Fill(a.spare, b.spare) /\ m.health = Fill(a.health, b.health)
      /\ m.state = Fill(a.state, b.state)
  BY MergedRecord
<1> HIDE DEF m
<1>2. m.spare = TRUE \/ m.health = "unassigned" \/ m.state = "unassigned"
  BY DEF LooksNonMember, NonPoolHints, m
<1>3. a.spare # TRUE /\ a.health # "unassigned" /\ a.state # "unassigned"
  BY DEF LooksNonMember, NonPoolHints
<1>4. b.spare = TRUE \/ b.health = "unassigned" \/ b.state = "unassigned"
  BY <1>1, <1>2, <1>3 DEF Fill
<1> QED BY <1>4 DEF LooksNonMember, NonPoolHints

LEMMA SortDiskKeeps ==
  ASSUME NEW K, Family(K), NEW pool, NEW known \in KnownLists(K, pool),
         NEW acc \in SortedLists(K, pool, known), NEW disk \in K
  PROVE  /\ SortDisk(pool, known, acc, disk) \in SortedLists(K, pool, known)
         /\ Seen(acc) \subseteq Seen(SortDisk(pool, known, acc, disk))
         /\ IsMember(disk, pool) => disk.serial \in Seen(SortDisk(pool, known, acc, disk))
<1> DEFINE new == SortDisk(pool, known, acc, disk)
<1>1. /\ acc.members \in MemberLists(K, pool, known) /\ acc.candidates \in CandidateLists(K, pool)
      /\ acc.members \in NoMatches(K) /\ acc.candidates \in NoMatches(K)
  BY DEF SortedLists, MemberLists, CandidateLists
<1>2. ASSUME NEW r \in K, r.serial = disk.serial, r.home = pool.pool, SpareOnlyIfKnown(r, known),
             new = [acc EXCEPT !.members = AppendUnique(@, r)]
      PROVE  new \in SortedLists(K, pool, known) /\ Seen(acc) \subseteq Seen(new) /\ disk.serial \in Seen(new)
  <2>1. /\ AppendUnique(acc.members, r) \in NoMatches(K)
        /\ ToSet(AppendUnique(acc.members, r)) \subseteq ToSet(acc.members) \cup {r}
        /\ SerialsOf(AppendUnique(acc.members, r)) = SerialsOf(acc.members) \cup {r.serial}
    BY <1>1, AppendUniqueKeeps
  <2>2. AppendUnique(acc.members, r) \in MemberLists(K, pool, known)
    BY <1>1, <1>2, <2>1 DEF MemberLists
  <2>3. /\ new \in SortedLists(K, pool, known) /\ new.candidates = acc.candidates
        /\ new.members = AppendUnique(acc.members, r)
    BY <1>2, <2>2 DEF SortedLists
  <2> QED BY <1>2, <2>1, <2>3 DEF Seen
<1>3. CASE LooksNonMember(disk) \/ ReferencesForeign(disk, pool)
  <2>1. new = acc
    BY <1>3 DEF SortDisk
  <2>2. ~IsMember(disk, pool)
    BY <1>3 DEF IsMember, ReferencesForeign
  <2> QED BY <2>1, <2>2
<1> DEFINE Rest == ~LooksNonMember(disk) /\ ~ReferencesForeign(disk, pool)
<1>4. CASE Rest /\ KnownAs(disk, known) # {}
  <2> DEFINE k == Min(KnownAs(disk, known))
             r == MergeDriveEntries(disk, known[k])
  <2>1. new = [acc EXCEPT !.members = AppendUnique(@, r)]
    BY <1>4 DEF SortDisk
  <2>2. KnownAs(disk, known) \in SUBSET Nat
    BY DEF KnownAs, KnownLists
  <2>3. k \in DOMAIN known /\ IdentityMatches(disk, known[k])
    BY <1>4, <2>2, MinIn DEF KnownAs
  <2> HIDE DEF k
  <2>4. known[k] \in K /\ known[k].home = pool.pool
    BY <2>3 DEF KnownLists
  <2>5. Same(disk, known[k]) /\ disk \in DriveRecord /\ known[k] \in DriveRecord
    BY <2>3, <2>4, MatchesAreSame DEF Family
  <2>6. r \in K /\ Same(r, disk)
    BY <2>4, <2>5, MergedRecord DEF Family
  <2>7. SpareOnlyIfKnown(r, known)
    <3>1. LooksNonMember(r) => LooksNonMember(known[k])
      BY <1>4, <2>5, MergedSpare
    <3>2. known[k].serial = r.serial
      BY <2>5, <2>6 DEF Same
    <3> QED BY <2>3, <3>1, <3>2 DEF SpareOnlyIfKnown
  <2> HIDE DEF r
  <2>8. r.serial = disk.serial /\ r.home = pool.pool
    BY <2>4, <2>5, <2>6 DEF Same
  <2> HIDE DEF new
  <2> QED BY <1>2, <2>1, <2>6, <2>7, <2>8 DEF new
<1>5. CASE Rest /\ KnownAs(disk, known) = {} /\ ReferenceMatches(disk, pool)
  <2>1. new = [acc EXCEPT !.members = AppendUnique(@, disk)]
    BY <1>5 DEF SortDisk
  <2>2. disk.home = pool.pool /\ SpareOnlyIfKnown(disk, known)
    BY <1>5 DEF ReferenceMatches, SpareOnlyIfKnown
  <2> HIDE DEF new
  <2> QED BY <1>2, <2>1, <2>2 DEF new
<1> DEFINE Unmatched == Rest /\ KnownAs(disk, known) = {} /\ ~ReferenceMatches(disk, pool)
<1>6. CASE Unmatched /\ Comparable(disk, pool) # {}
  <2>1. new = acc
    BY <1>6 DEF SortDisk
  <2>2. ~IsMember(disk, pool)
    BY <1>6 DEF IsMember, ReferenceMatches
  <2> QED BY <2>1, <2>2
<1>7. CASE Unmatched /\ Comparable(disk, pool) = {}
  <2>1. new = [acc EXCEPT !.candidates = AppendUnique(@, disk)]
    BY <1>7 DEF SortDisk
  <2>2. /\ AppendUnique(acc.candidates, disk) \in NoMatches(K)
        /\ ToSet(AppendUnique(acc.candidates, disk)) \subseteq ToSet(acc.candidates) \cup {disk}
        /\ SerialsOf(AppendUnique(acc.candidates, disk)) = SerialsOf(acc.candidates) \cup {disk.serial}
    BY <1>1, AppendUniqueKeeps
  <2>3. AppendUnique(acc.candidates, disk) \in CandidateLists(K, pool)
    BY <1>1, <1>7, <2>2 DEF CandidateLists
  <2>4. /\ new \in SortedLists(K, pool, known) /\ new.members = acc.members
        /\ new.candidates = AppendUnique(acc.candidates, disk)
    BY <2>1, <2>3 DEF SortedLists
  <2> QED BY <2>2, <2>4 DEF Seen
<1> QED BY <1>3, <1>4, <1>5, <1>6, <1>7

LEMMA SortedKeeps ==
  ASSUME NEW K, Family(K), NEW pool, NEW known \in KnownLists(K, pool), NEW disks \in Seq(K)
  PROVE  /\ Sorted(pool, disks, known) \in SortedLists(K, pool, known)
         /\ \A i \in DOMAIN disks :
              IsMember(disks[i], pool) => disks[i].serial \in Seen(Sorted(pool, disks, known))
<1> DEFINE n == Len(disks)
           X == SortedLists(K, pool, known)
           base == [members |-> <<>>, candidates |-> <<>>]
<1>1. n \in Nat /\ DOMAIN disks = 1..n /\ \A k \in 1..n : disks[k] \in K
  OBVIOUS
<1>2. base \in X
  BY EmptyLists DEF SortedLists, MemberLists, CandidateLists, NoMatches, ToSet
<1>3. \A acc \in X : \A k \in 1..n : SortDisk(pool, known, acc, disks[k]) \in X
  BY <1>1, SortDiskKeeps
<1> HIDE DEF n, X
<1>4. PICK g : SortedTrace(g, X, n, pool, known, disks)
  BY <1>1, <1>2, <1>3, SortedSteps
<1> DEFINE T == {k \in Nat : k <= n =>
                   \A i \in 1..k : IsMember(disks[i], pool) => disks[i].serial \in Seen(g[k])}
<1>5. 0 \in T
  OBVIOUS
<1>6. ASSUME NEW k \in Nat, k \in T PROVE k + 1 \in T
  <2> SUFFICES ASSUME k + 1 <= n, NEW i \in 1..(k + 1), IsMember(disks[i], pool)
               PROVE  disks[i].serial \in Seen(g[k + 1])
    OBVIOUS
  <2>1. k + 1 \in 1..n /\ (k + 1) - 1 = k /\ k \in 0..n /\ k <= n
    BY <1>1
  <2>2. g[k + 1] = SortDisk(pool, known, g[k], disks[k + 1]) /\ g[k] \in X /\ disks[k + 1] \in K
    BY <1>1, <1>4, <2>1 DEF SortedTrace
  <2>3. /\ Seen(g[k]) \subseteq Seen(g[k + 1])
        /\ IsMember(disks[k + 1], pool) => disks[k + 1].serial \in Seen(g[k + 1])
    BY <2>2, SortDiskKeeps DEF X
  <2>4. i = k + 1 \/ i \in 1..k
    OBVIOUS
  <2>5. i \in 1..k => disks[i].serial \in Seen(g[k])
    BY <1>6, <2>1
  <2> QED BY <2>3, <2>4, <2>5
<1>7. n \in T
  <2> HIDE DEF T
  <2>1. Nat \subseteq T
    BY <1>5, <1>6, NatSetInduction
  <2> QED BY <1>1, <2>1
<1>8. g[n] = Sorted(pool, disks, known) /\ g[n] \in X
  BY <1>1, <1>4 DEF SortedTrace
<1>9. \A i \in 1..n : IsMember(disks[i], pool) => disks[i].serial \in Seen(g[n])
  BY <1>1, <1>7
<1> QED BY <1>1, <1>8, <1>9 DEF X

\* Whom a list completed with global disks has.
Belongs(r, pool, known) ==
  \/ r.home = pool.pool /\ SpareOnlyIfKnown(r, known)
  \/ Comparable(r, pool) = {} /\ ~LooksNonMember(r)

LEMMA GlobalMembersKeeps ==
  ASSUME NEW K, Family(K), NEW pool, NEW known \in KnownLists(K, pool), NEW disks \in Seq(K)
  PROVE  /\ GlobalMembers(pool, disks, known) \in NoMatches(K)
         /\ \A r \in ToSet(GlobalMembers(pool, disks, known)) : Belongs(r, pool, known)
         /\ \A r \in ToSet(GlobalMembers(pool, disks, known)) : r.home # pool.pool =>
              \A i \in DOMAIN disks : IsMember(disks[i], pool) =>
                disks[i].serial \in SerialsOf(GlobalMembers(pool, disks, known))
<1> DEFINE sorted == Sorted(pool, disks, known)
           all == AppendAll(sorted.members, sorted.candidates)
           result == GlobalMembers(pool, disks, known)
<1>1. /\ sorted.members \in MemberLists(K, pool, known) /\ sorted.candidates \in CandidateLists(K, pool)
      /\ \A i \in DOMAIN disks : IsMember(disks[i], pool) => disks[i].serial \in Seen(sorted)
  BY SortedKeeps DEF SortedLists
<1>2. result = <<>> \/ result = sorted.members \/ result = all
  <2>1. CASE Len(sorted.members) > pool.count
    <3>1. CASE Len(sorted.candidates) = pool.count - Len(sorted.members)
      BY <2>1, <3>1 DEF GlobalMembers
    <3>2. CASE Len(sorted.candidates) # pool.count - Len(sorted.members)
      BY <2>1, <3>2 DEF GlobalMembers
    <3> QED BY <3>1, <3>2
  <2>2. CASE ~(Len(sorted.members) > pool.count)
    BY <2>2 DEF GlobalMembers
  <2> QED BY <2>1, <2>2
<1> HIDE DEF sorted, result
<1>3. sorted.members \in NoMatches(K) /\ sorted.candidates \in NoMatches(K) /\ sorted.candidates \in Seq(K)
  BY <1>1 DEF MemberLists, CandidateLists, NoMatches
<1>4. /\ all \in NoMatches(K)
      /\ ToSet(all) \subseteq ToSet(sorted.members) \cup ToSet(sorted.candidates)
      /\ SerialsOf(sorted.members) \cup SerialsOf(sorted.candidates) \subseteq SerialsOf(all)
  BY <1>3, AppendAllKeeps
<1> HIDE DEF all
<1>5. \A r \in ToSet(sorted.members) : Belongs(r, pool, known) /\ r.home = pool.pool
  BY <1>1 DEF MemberLists, Belongs
<1>6. \A r \in ToSet(sorted.candidates) : Belongs(r, pool, known)
  BY <1>1 DEF CandidateLists, Belongs
<1>7. CASE result = <<>>
  <2>1. ToSet(result) = {} /\ result \in NoMatches(K)
    BY <1>7, EmptyLists DEF ToSet, NoMatches
  <2> QED BY <2>1 DEF result
<1>8. CASE result = sorted.members
  BY <1>3, <1>5, <1>8 DEF result
<1>9. CASE result = all
  BY <1>1, <1>4, <1>5, <1>6, <1>9 DEF result, Seen
<1> QED BY <1>2, <1>7, <1>8, <1>9

\* A list has no more serials than entries.
LEMMA SerialsBound ==
  ASSUME NEW K, NEW s \in Seq(K)
  PROVE  IsFiniteSet(SerialsOf(s)) /\ Cardinality(SerialsOf(s)) <= Len(s)
<1> DEFINE f == [i \in 1..Len(s) |-> s[i].serial]
<1>1. f \in Surjection(1..Len(s), SerialsOf(s))
  BY DEF Surjection, SerialsOf
<1>2. IsFiniteSet(1..Len(s)) /\ Cardinality(1..Len(s)) = Len(s)
  <2>1. Len(s) \in Nat
    OBVIOUS
  <2> HIDE DEF f
  <2>2. 0 \in Int /\ 1 \in Int /\ Len(s) \in Int
    BY <2>1
  <2> QED BY <2>1, <2>2, FS_Interval
<1> HIDE DEF f
<1> QED BY <1>1, <1>2, FS_Surjection

\* The drives shown under a pool.
LEMMA PoolDrivesBelong ==
  ASSUME NEW K, Family(K), NEW pool, PoolIn(pool, K), NEW pools, NEW disks \in Lists(K)
  PROVE  LET here == PoolDrives(pool, pools, disks)
             told == Collected(pool, disks)
         IN  /\ here \in Lists(K)
             /\ \A j \in DOMAIN here :
                  \/ here[j].home = pool.pool
                  \/ Len(pools) = 1 /\ LacksMember(disks, pool) /\ Comparable(here[j], pool) = {}
             /\ here # told =>
                  /\ Len(here) = pool.count
                  /\ \A j \in DOMAIN here :
                       ~ReferencesForeign(here[j], pool) /\ SpareOnlyIfKnown(here[j], told)
<1> DEFINE here == PoolDrives(pool, pools, disks)
           told == Collected(pool, disks)
           all == GlobalMembers(pool, disks, told)
<1>1. told \in Lists(K) /\ told \in KnownLists(K, pool) /\ disks \in Seq(K)
  BY CollectedLists DEF Lists, KnownLists
<1>2. /\ all \in NoMatches(K) /\ all \in Lists(K)
      /\ \A r \in ToSet(all) : Belongs(r, pool, told)
      /\ \A r \in ToSet(all) : r.home # pool.pool =>
           \A i \in DOMAIN disks : IsMember(disks[i], pool) => disks[i].serial \in SerialsOf(all)
  BY <1>1, GlobalMembersKeeps, NoTwoMatchOnceEach DEF NoMatches, Lists
<1>3. \/ here = told
      \/ here = all /\ Len(pools) = 1 /\ Len(all) = pool.count
      \/ here = <<>> /\ Len(here) > Len(told)
  BY DEF PoolDrives, SinglePoolDrives
<1>4. ~(here = <<>> /\ Len(here) > Len(told))
  <2>1. Len(told) \in Nat
    BY <1>1 DEF Lists
  <2> QED BY <2>1
<1> HIDE DEF here, told, all
<1>5. CASE here = told
  <2>1. \A j \in DOMAIN here : here[j].home = pool.pool
    BY <1>1, <1>5 DEF KnownLists
  <2> QED BY <1>1, <1>5, <2>1 DEF here, told
<1>6. CASE here = all /\ Len(pools) = 1 /\ Len(all) = pool.count
  <2>1. \A j \in DOMAIN all : all[j] \in ToSet(all) /\ all[j] \in K
    BY <1>2 DEF NoMatches, ToSet
  <2>2. ASSUME NEW j \in DOMAIN all, all[j].home # pool.pool
        PROVE  Comparable(all[j], pool) = {} /\ LacksMember(disks, pool)
    <3>1. Comparable(all[j], pool) = {}
      BY <1>2, <2>1, <2>2 DEF Belongs
    <3> DEFINE A == {disks[k].serial : k \in {i \in DOMAIN disks : disks[i].home = pool.pool /\ ~LooksNonMember(disks[i])}}
               B == SerialsOf(all)
    <3>2. A \subseteq B
      BY <1>2, <2>1, <2>2 DEF IsMember
    <3>3. all[j].serial \notin A
      <4>1. \A k \in DOMAIN disks : disks[k] \in K
        BY <1>1
      <4> QED BY <2>1, <2>2, <4>1 DEF Family, Same
    <3>4. all[j].serial \in B
      BY DEF SerialsOf
    <3>5. IsFiniteSet(B) /\ Cardinality(B) <= pool.count
      BY <1>2, <1>6, SerialsBound DEF NoMatches
    <3> DEFINE C == B \ {all[j].serial}
    <3>6. A \in SUBSET C
      BY <3>2, <3>3
    <3> HIDE DEF A, B
    <3>7. IsFiniteSet(C) /\ Cardinality(C) = Cardinality(B) - 1
      BY <3>4, <3>5, FS_RemoveElement
    <3> HIDE DEF C
    <3>8. Cardinality(A) <= Cardinality(C) /\ Cardinality(A) \in Nat
      BY <3>6, <3>7, FS_Subset, FS_CardinalityType
    <3>9. Cardinality(B) \in Nat /\ pool.count \in Nat
      BY <3>5, FS_CardinalityType DEF PoolIn, PoolEntry
    <3>10. Cardinality(A) < pool.count
      BY <3>5, <3>7, <3>8, <3>9
    <3> QED BY <3>1, <3>10 DEF LacksMember, A
  <2>3. ASSUME NEW j \in DOMAIN all
        PROVE  ~ReferencesForeign(all[j], pool) /\ SpareOnlyIfKnown(all[j], told)
    BY <1>2, <2>1 DEF Belongs, ReferencesForeign, SpareOnlyIfKnown
  <2> QED BY <1>2, <1>6, <2>2, <2>3 DEF here, told
<1> QED BY <1>3, <1>4, <1>5, <1>6

(***************************************************************************)
(* The view of a payload.                                                  *)
(***************************************************************************)

\* A list of pools that names each once.
PoolsIn(pools, R) ==
  /\ Len(pools) \in Nat /\ DOMAIN pools = 1..Len(pools)
  /\ \A i \in DOMAIN pools : PoolIn(pools[i], R)
  /\ \A i, j \in DOMAIN pools : SamePool(pools[i], pools[j]) => i = j

ViewIn(v, K) ==
  /\ Family(K)
  /\ PoolsIn(v.pools, K)
  /\ v.disks \in Lists(K)
  /\ v.drives = [i \in DOMAIN v.pools |-> PoolDrives(v.pools[i], v.pools, v.disks)]
  /\ {v.told.capacity, v.told.used, v.told.free} \subseteq Nat \cup {None}

LEMMA TruthfulRecords ==
  ASSUME NEW payload, Truthful(payload)
  PROVE  /\ Family(Kin(Records(payload)))
         /\ Records(payload) \subseteq Kin(Records(payload))
         /\ payload.disks \in Seq(Seq(Kin(Records(payload))))
<1> DEFINE R == Records(payload)
<1>1. ASSUME NEW x \in Listed(payload) PROVE RecordsOf(x) \subseteq DriveRecord
  <2>1. PoolEntry(x)
    BY DEF Truthful, Listed, ToSet
  <2> QED BY <2>1 DEF PoolEntry, OwnList, OwnNodes, RecordsOf, ToSet
<1>2. \A disks \in ToSet(payload.disks) : ToSet(disks) \subseteq DriveRecord
  <2>1. payload.disks \in Seq(Seq(DriveRecord))
    BY DEF Truthful
  <2> QED BY <2>1 DEF ToSet
<1>3. R = UNION ({ToSet(disks) : disks \in ToSet(payload.disks)} \cup {RecordsOf(x) : x \in Listed(payload)})
  BY DEF Records
<1> HIDE DEF R
<1>4. R \subseteq DriveRecord
  BY <1>1, <1>2, <1>3
<1>5. \A a, b \in R : a.serial = b.serial \/ a.bay = b.bay => Same(a, b)
  BY DEF Truthful, Same, R
<1>6. Family(Kin(R)) /\ R \subseteq Kin(R)
  BY <1>4, <1>5, KinIsFamily
<1>7. payload.disks \in Seq(Seq(Kin(R)))
  <2>1. payload.disks \in Seq(Seq(DriveRecord))
    BY DEF Truthful
  <2>2. ASSUME NEW i \in DOMAIN payload.disks PROVE payload.disks[i] \in Seq(Kin(R))
    <3>1. payload.disks[i] \in Seq(DriveRecord)
      BY <2>1
    <3>2. \A j \in DOMAIN payload.disks[i] : payload.disks[i][j] \in Kin(R)
      <4>1. ToSet(payload.disks[i]) \subseteq R
        <5>1. ToSet(payload.disks[i]) \in {ToSet(disks) : disks \in ToSet(payload.disks)}
          BY DEF ToSet
        <5> QED BY <1>3, <5>1
      <4>2. \A j \in DOMAIN payload.disks[i] : payload.disks[i][j] \in ToSet(payload.disks[i])
        BY DEF ToSet
      <4> QED BY <1>6, <4>1, <4>2
    <3> QED BY <3>1, <3>2
  <2> QED BY <2>1, <2>2
<1> QED BY <1>6, <1>7 DEF R

\* Only pools are taken for pools.
LEMMA OnlyPoolsAreListed ==
  ASSUME NEW payload, Truthful(payload)
  PROVE  PoolsIn(Pools(payload), Records(payload))
<1> DEFINE R == Records(payload)
           Listings == {payload.pools, payload.volumes, payload.data}
<1>1. ASSUME NEW list \in Listings, NEW i \in DOMAIN list, ~DriveEntry(list[i].keys)
      PROVE  PoolIn(list[i], R)
  <2>1. PoolEntry(list[i])
    BY <1>1 DEF Truthful
  <2>2. list[i] \in Listed(payload)
    BY <1>1 DEF Listed, ToSet
  <2>3. RecordsOf(list[i]) \subseteq R
    BY <2>2 DEF Records
  <2> QED BY <2>1, <2>3 DEF PoolIn
<1>2. ASSUME NEW list \in Listings, NEW S,
             \A x \in S : ~DriveEntry(x.keys)
      PROVE  PoolsIn(Among(list, S), R)
  <2> DEFINE n == Len(list)
             kept == Among(list, S)
  <2>1. n \in Nat /\ DOMAIN list = 1..n
    BY DEF Truthful
  <2> HIDE DEF n, kept, Listings
  <2>2. PICK h : Picks(h, kept, list, n, S) /\ kept \in Seq({list[i] : i \in 1..n})
    BY <2>1, AmongPicks DEF kept
  <2>3. Len(kept) \in Nat /\ DOMAIN kept = 1..Len(kept)
    BY <2>2
  <2>4. \A i \in DOMAIN kept : h[i] \in DOMAIN list /\ kept[i] = list[h[i]] /\ ~DriveEntry(list[h[i]].keys)
    BY <1>2, <2>1, <2>2 DEF Picks
  <2>5. \A i, j \in DOMAIN kept : SamePool(kept[i], kept[j]) => i = j
    <3>1. \A i, j \in {k \in DOMAIN list : ~DriveEntry(list[k].keys)} : SamePool(list[i], list[j]) => i = j
      BY DEF Truthful, Listings
    <3>2. \A i, j \in DOMAIN kept : SamePool(kept[i], kept[j]) => h[i] = h[j]
      BY <2>4, <3>1
    <3>3. \A i, j \in DOMAIN kept : h[i] = h[j] => i = j
      BY <2>2 DEF Picks
    <3> QED BY <3>2, <3>3
  <2>6. \A i \in DOMAIN kept : PoolIn(kept[i], R)
    BY <1>1, <2>4
  <2> QED BY <2>3, <2>5, <2>6 DEF PoolsIn, kept
<1>3. PoolsIn(payload.pools, R)
  <2>1. \A i \in DOMAIN payload.pools : ~DriveEntry(payload.pools[i].keys)
    BY DEF Truthful, ToSet
  <2>2. /\ Len(payload.pools) \in Nat /\ DOMAIN payload.pools = 1..Len(payload.pools)
        /\ \A i, j \in DOMAIN payload.pools : SamePool(payload.pools[i], payload.pools[j]) => i = j
    BY <2>1 DEF Truthful
  <2> QED BY <1>1, <2>1, <2>2 DEF PoolsIn
<1>4. PoolsIn(Among(payload.volumes, {x \in ToSet(payload.volumes) : PoolLike(x.keys) \/ SparsePool(x.keys)}), R)
  BY <1>2 DEF Truthful
<1>5. PoolsIn(Among(payload.data, {x \in ToSet(payload.data) : PoolLike(x.keys)}), R)
  BY <1>2 DEF PoolLike, DriveEntry
<1>6. PoolsIn(<<>>, R)
  BY DEF PoolsIn
<1> DEFINE lists == <<payload.pools,
                      Among(payload.volumes, {x \in ToSet(payload.volumes) : PoolLike(x.keys) \/ SparsePool(x.keys)}),
                      Among(payload.data, {x \in ToSet(payload.data) : PoolLike(x.keys)})>>
<1> HIDE DEF R
<1>7. DOMAIN lists = 1..3 /\ \A i \in DOMAIN lists : PoolsIn(lists[i], R)
  <2>1. DOMAIN lists = 1..3
    OBVIOUS
  <2>2. PoolsIn(lists[1], R) /\ PoolsIn(lists[2], R) /\ PoolsIn(lists[3], R)
    BY <1>3, <1>4, <1>5
  <2> HIDE DEF lists
  <2>3. \A i \in 1..3 : i = 1 \/ i = 2 \/ i = 3
    OBVIOUS
  <2> QED BY <2>1, <2>2, <2>3
<1>8. Pools(payload) = FirstNonEmpty(lists)
  BY DEF Pools
<1> HIDE DEF lists
<1>9. DOMAIN lists \subseteq Nat
  BY <1>7
<1>10. PoolsIn(Pools(payload), R)
  BY <1>6, <1>7, <1>8, <1>9, FirstNonEmptyIsOne
<1> QED BY <1>10 DEF R

LEMMA ViewOfTruth ==
  ASSUME NEW payload, Truthful(payload)
  PROVE  \E K : ViewIn(View(payload), K)
<1> DEFINE K == Kin(Records(payload))
           v == View(payload)
<1>1. Family(K) /\ Records(payload) \subseteq K /\ payload.disks \in Seq(Seq(K))
  BY TruthfulRecords
<1>2. PoolsIn(Pools(payload), K)
  BY <1>1, OnlyPoolsAreListed DEF PoolsIn, PoolIn
<1> HIDE DEF K
<1>3. GlobalDisks(payload) \in Lists(K)
  BY <1>1, GlobalDisksLists
<1>4. v = [pools  |-> Pools(payload), lists |-> payload.disks, disks |-> GlobalDisks(payload),
           told |-> payload.told,
           drives |-> [i \in DOMAIN Pools(payload) |->
                         PoolDrives(Pools(payload)[i], Pools(payload), GlobalDisks(payload))]]
  BY DEF View
<1>5. {payload.told.capacity, payload.told.used, payload.told.free} \subseteq Nat \cup {None}
  BY DEF Truthful
<1>6. ViewIn(v, K)
  BY <1>1, <1>2, <1>3, <1>4, <1>5 DEF ViewIn
<1> QED BY <1>6

\* The view is that of a payload, and what it lists has entities.
StorageInv ==
  /\ \E x \in FirstPayloads \cup LaterPayloads : view = View(PayloadOf(x))
  /\ PoolKeys(view) \subseteq knownPools
  /\ DriveKeys(view) \subseteq knownDrives

LEMMA StorageInvariant == Spec => []StorageInv
<1>1. Init => StorageInv
  BY DEF Init, StorageInv
<1>2. StorageInv /\ [Next]_vars => StorageInv'
  <2> SUFFICES ASSUME StorageInv, [Next]_vars PROVE StorageInv'
    OBVIOUS
  <2> USE DEF StorageInv
  <2>1. CASE Poll
    BY <2>1 DEF Poll, PoolKeys, DriveKeys
  <2>2. CASE Reload
    BY <2>2 DEF Reload, PoolKeys, DriveKeys
  <2>3. CASE UNCHANGED vars
    BY <2>3 DEF vars, PoolKeys, DriveKeys
  <2> QED BY <2>1, <2>2, <2>3 DEF Next
<1> QED BY <1>1, <1>2, PTL DEF Spec

LEMMA ViewFacts ==
  ASSUME StorageInv
  PROVE  \E K : ViewIn(view, K)
BY ConsoleIsTruthful, ViewOfTruth DEF StorageInv

(***************************************************************************)
(* Keys.                                                                   *)
(***************************************************************************)

LEMMA ShownLists ==
  ASSUME NEW K, NEW v, ViewIn(v, K), NEW i \in DOMAIN v.pools
  PROVE  /\ v.drives[i] \in Lists(K)
         /\ \A j \in DOMAIN v.drives[i] : v.drives[i][j].home = v.pools[i].pool \/ Len(v.pools) = 1
<1> DEFINE pool == v.pools[i]
<1>1. Family(K) /\ PoolIn(pool, K) /\ v.disks \in Lists(K)
  BY DEF ViewIn, PoolsIn
<1>2. v.drives[i] = PoolDrives(pool, v.pools, v.disks)
  BY DEF ViewIn
<1> HIDE DEF pool
<1>3. /\ PoolDrives(pool, v.pools, v.disks) \in Lists(K)
      /\ \A j \in DOMAIN PoolDrives(pool, v.pools, v.disks) :
           PoolDrives(pool, v.pools, v.disks)[j].home = pool.pool \/ Len(v.pools) = 1
  BY <1>1, PoolDrivesBelong
<1> QED BY <1>2, <1>3 DEF pool

LEMMA PoolKeyTells ==
  ASSUME NEW pool, PoolEntry(pool), NEW i
  PROVE  \/ PoolKey(pool, i) = <<"id", pool.pool>>
         \/ pool.tells = {"name"} /\ pool.number = None /\ PoolKey(pool, i) = <<"name", pool.pool>>
         \/ pool.tells = {"name"} /\ pool.number # None /\ PoolKey(pool, i) = <<"pool_", pool.number>>
         \/ pool.tells = {} /\ PoolKey(pool, i) = <<"pool_", i>>
<1>1. pool.tells \subseteq {"id", "name"}
  BY DEF PoolEntry
<1>2. CASE "id" \in pool.tells
  <2>1. pool.tells # {"name"} /\ pool.tells # {}
    BY <1>2
  <2> QED BY <1>2, <2>1 DEF PoolKey
<1>3. CASE pool.tells = {"name"}
  <2>1. "id" \notin pool.tells /\ pool.tells # {}
    BY <1>3
  <2>2. PoolKey(pool, i) = NameKey(pool)
    BY <1>3, <2>1 DEF PoolKey
  <2> QED BY <1>3, <2>2 DEF NameKey
<1>4. CASE pool.tells = {}
  <2>1. "id" \notin pool.tells /\ pool.tells # {"name"}
    BY <1>4
  <2> QED BY <1>4, <2>1 DEF PoolKey
<1> QED BY <1>1, <1>2, <1>3, <1>4

\* The key of a listed pool leads back to it, where the list is of one style.
LEMMA PoolAtOwnKey ==
  ASSUME NEW K, NEW v, PoolsIn(v.pools, K), OneStyleOfPools(v.pools), NEW i \in DOMAIN v.pools
  PROVE  PoolAt(v, PoolKey(v.pools[i], i)) = i
<1> DEFINE key == PoolKey(v.pools[i], i)
           exact == {l \in DOMAIN v.pools : PoolKey(v.pools[l], l) = key}
<1>1. ASSUME NEW l \in exact PROVE l = i
  <2>1. PoolEntry(v.pools[i]) /\ PoolEntry(v.pools[l]) /\ PoolKey(v.pools[l], l) = PoolKey(v.pools[i], i)
    BY DEF PoolsIn, PoolIn
  <2>2. /\ v.pools[i].tells = {} => v.pools[l].tells # {"name"} \/ v.pools[l].number = None
        /\ v.pools[l].tells = {} => v.pools[i].tells # {"name"} \/ v.pools[i].number = None
    BY DEF OneStyleOfPools
  <2>3. SamePool(v.pools[l], v.pools[i]) \/ l = i
    BY <2>1, <2>2, PoolKeyTells DEF SamePool
  <2> QED BY <2>3 DEF PoolsIn
<1>2. exact = {i}
  BY <1>1
<1>3. PoolAt(v, key) = Min(exact)
  BY <1>2, Zenon DEF PoolAt
<1>4. Min({i}) = i
  <2>1. {i} \in SUBSET Nat
    BY DEF PoolsIn
  <2> QED BY <2>1, MinIn
<1> QED BY <1>2, <1>3, <1>4

\* A key leads to a listed pool or to none, and one that names a pool to it.
LEMMA PoolAtNamed ==
  ASSUME NEW K, NEW v, PoolsIn(v.pools, K), NEW key, PoolAt(v, key) # 0
  PROVE  /\ PoolAt(v, key) \in DOMAIN v.pools
         /\ key[1] # "pool_" => v.pools[PoolAt(v, key)].pool = key[2]
<1> DEFINE exact == {l \in DOMAIN v.pools : PoolKey(v.pools[l], l) = key}
           named == {l \in DOMAIN v.pools : "name" \in v.pools[l].tells /\ key = NameKey(v.pools[l])}
           index == PoolIndex(key)
<1>0. exact \in SUBSET Nat /\ named \in SUBSET Nat /\ DOMAIN v.pools \in SUBSET Nat
  BY DEF PoolsIn
<1>1. CASE exact # {}
  <2>1. PoolAt(v, key) = Min(exact)
    BY <1>1, Zenon DEF PoolAt
  <2> DEFINE m == Min(exact)
  <2>2. m \in exact
    <3> HIDE DEF exact
    <3> QED BY <1>0, <1>1, MinIn
  <2> HIDE DEF m
  <2>3. PoolEntry(v.pools[m]) /\ PoolKey(v.pools[m], m) = key /\ m \in DOMAIN v.pools
    BY <2>2 DEF PoolsIn, PoolIn
  <2>4. key[1] # "pool_" => v.pools[m].pool = key[2]
    BY <2>3, PoolKeyTells
  <2> QED BY <2>1, <2>3, <2>4 DEF m
<1>2. CASE exact = {} /\ index \in DOMAIN v.pools
  <2>1. PoolAt(v, key) = index
    BY <1>2, Zenon DEF PoolAt
  <2>2. 0 \notin DOMAIN v.pools
    BY DEF PoolsIn
  <2>3. key[1] = "pool_"
    BY <1>2, <2>2 DEF PoolIndex
  <2> QED BY <1>2, <2>1, <2>3
<1>3. CASE exact = {} /\ index \notin DOMAIN v.pools /\ named # {}
  <2>1. PoolAt(v, key) = Min(named)
    BY <1>3, Zenon DEF PoolAt
  <2> DEFINE m == Min(named)
  <2>2. m \in named
    <3> HIDE DEF named
    <3> QED BY <1>0, <1>3, MinIn
  <2> HIDE DEF m
  <2>3. m \in DOMAIN v.pools /\ (key[1] # "pool_" => v.pools[m].pool = key[2])
    BY <2>2 DEF NameKey
  <2> QED BY <2>1, <2>3 DEF m
<1>4. CASE exact = {} /\ index \notin DOMAIN v.pools /\ named = {}
  <2>1. PoolAt(v, key) = 0
    BY <1>4, Zenon DEF PoolAt
  <2> QED BY <2>1
<1> QED BY <1>1, <1>2, <1>3, <1>4

LEMMA DriveKeyTells ==
  ASSUME NEW drive \in DriveRecord, NEW j
  PROVE  \/ "serial" \in drive.tells /\ DriveKey(drive, j) = <<"serial", drive.serial>>
         \/ /\ "serial" \notin drive.tells /\ "name" \in drive.tells
            /\ DriveKey(drive, j) = <<"drive_", drive.bay>>
         \/ drive.tells = {"bay"} /\ DriveKey(drive, j) = <<"bay", drive.bay>>
         \/ drive.tells = {} /\ DriveKey(drive, j) = <<"drive_", j>>
<1>1. drive.tells \subseteq {"serial", "name", "bay"}
  BY DEF DriveRecord
<1>2. CASE "serial" \in drive.tells
  <2>1. drive.tells # {"bay"} /\ drive.tells # {}
    BY <1>2
  <2> QED BY <1>2, <2>1 DEF DriveKey
<1>3. CASE "serial" \notin drive.tells /\ "name" \in drive.tells
  <2>1. drive.tells # {"bay"} /\ drive.tells # {}
    BY <1>3
  <2> QED BY <1>3, <2>1 DEF DriveKey
<1>4. CASE drive.tells = {"bay"}
  <2>1. "serial" \notin drive.tells /\ "name" \notin drive.tells /\ drive.tells # {}
    BY <1>4
  <2> QED BY <1>4, <2>1 DEF DriveKey
<1>5. CASE drive.tells = {}
  <2>1. "serial" \notin drive.tells /\ "name" \notin drive.tells /\ drive.tells # {"bay"}
    BY <1>5
  <2> QED BY <1>5, <2>1 DEF DriveKey
<1> QED BY <1>1, <1>2, <1>3, <1>4, <1>5

\* In a list of one style the key of a drive leads back to a record of it.
LEMMA DriveOfOwnKey ==
  ASSUME NEW K, NEW v, ViewIn(v, K), NEW i \in DOMAIN v.pools, NEW j \in DOMAIN v.drives[i],
         OneStyleOfPools(v.pools), OneStyle(v.drives[i])
  PROVE  LET seen == DriveOf(v, <<PoolKey(v.pools[i], i), DriveKey(v.drives[i][j], j)>>)
         IN  seen \in ToSet(v.drives[i]) /\ seen.serial = v.drives[i][j].serial
<1> DEFINE drives == v.drives[i]
           key == <<PoolKey(v.pools[i], i), DriveKey(drives[j], j)>>
           exact == {l \in DOMAIN drives : DriveKey(drives[l], l) = key[2]}
           m == Min(exact)
<1>1. drives \in Lists(K) /\ Family(K)
  BY ShownLists DEF ViewIn
<1>2. PoolAt(v, key[1]) = i /\ i # 0
  <2>1. PoolsIn(v.pools, K) /\ key[1] = PoolKey(v.pools[i], i)
    BY DEF ViewIn
  <2> HIDE DEF key
  <2>2. PoolAt(v, key[1]) = i
    BY <2>1, PoolAtOwnKey
  <2> QED BY <2>1, <2>2 DEF PoolsIn
<1>3. j \in exact /\ exact \in SUBSET Nat
  BY <1>1 DEF Lists
<1>4. DriveOf(v, key) = drives[m]
  BY <1>2, <1>3, Zenon DEF DriveOf
<1>5. m \in exact
  <2> HIDE DEF exact
  <2> QED BY <1>3, MinIn
<1> HIDE DEF m
<1>6. m \in DOMAIN drives /\ DriveKey(drives[m], m) = DriveKey(drives[j], j)
  BY <1>5
<1>7. drives[m] \in K /\ drives[j] \in K /\ drives[m] \in DriveRecord /\ drives[j] \in DriveRecord
  BY <1>1, <1>6 DEF Lists, Family
<1>8. drives[m].bay = drives[j].bay => drives[m].serial = drives[j].serial
  BY <1>1, <1>7 DEF Family, Same
<1>9. drives[m].tells = {} => "serial" \in drives[j].tells \/ "name" \notin drives[j].tells
  BY <1>6 DEF OneStyle
<1>10. drives[j].tells = {} => "serial" \in drives[m].tells \/ "name" \notin drives[m].tells
  BY <1>6 DEF OneStyle
<1> HIDE DEF drives
<1>11. drives[m].serial = drives[j].serial
  BY <1>6, <1>7, <1>8, <1>9, <1>10, DriveKeyTells
<1>12. drives[m] \in ToSet(drives)
  BY <1>6 DEF ToSet
<1> QED BY <1>4, <1>11, <1>12 DEF drives

\* What a key of a serial or a bay leads to is that drive.
LEMMA DriveOfNamed ==
  ASSUME NEW K, NEW v, ViewIn(v, K), NEW key, DriveOf(v, key) # None
  PROVE  /\ key[2][1] = "serial" => DriveOf(v, key).serial = key[2][2]
         /\ key[2][1] = "bay" => DriveOf(v, key).bay = key[2][2]
<1> DEFINE i == PoolAt(v, key[1])
           drives == IF i = 0 THEN <<>> ELSE v.drives[i]
           exact == {l \in DOMAIN drives : DriveKey(drives[l], l) = key[2]}
           m == Min(exact)
<1>1. drives \in Seq(K) /\ K \subseteq DriveRecord
  <2>1. CASE i = 0
    BY <2>1 DEF ViewIn, Family
  <2>2. CASE i # 0
    <3>1. i \in DOMAIN v.pools
      BY <2>2, PoolAtNamed DEF ViewIn
    <3>2. v.drives[i] \in Lists(K)
      BY <3>1, ShownLists
    <3> QED BY <2>2, <3>2 DEF ViewIn, Lists, Family
  <2> QED BY <2>1, <2>2
<1>2. CASE exact # {}
  <2>1. DriveOf(v, key) = drives[m]
    BY <1>2, Zenon DEF DriveOf
  <2>2. m \in exact
    <3>1. exact \in SUBSET Nat
      BY <1>1
    <3> HIDE DEF exact
    <3> QED BY <1>2, <3>1, MinIn
  <2> HIDE DEF m, drives
  <2>3. drives[m] \in DriveRecord /\ DriveKey(drives[m], m) = key[2]
    BY <1>1, <2>2
  <2>4. /\ key[2][1] = "serial" => drives[m].serial = key[2][2]
        /\ key[2][1] = "bay" => drives[m].bay = key[2][2]
    BY <2>3, DriveKeyTells
  <2> QED BY <2>1, <2>4
<1>3. CASE exact = {}
  <2>1. CASE key[2][1] = "serial" \/ key[2][1] = "bay"
    <3>1. LegacyIndex(key[2]) = 0
      BY <2>1 DEF LegacyIndex
    <3>2. 0 \notin DOMAIN drives
      BY <1>1
    <3>3. DriveOf(v, key) = None
      BY <1>3, <3>1, <3>2, Zenon DEF DriveOf
    <3> QED BY <3>3
  <2>2. CASE ~(key[2][1] = "serial" \/ key[2][1] = "bay")
    BY <2>2
  <2> QED BY <2>1, <2>2
<1> QED BY <1>2, <1>3

(***************************************************************************)
(* Sums.                                                                   *)
(***************************************************************************)

\* Figures that may not be told.
Figure == Nat \cup {None}

Part(value) == IF value = None THEN 0 ELSE value

LEMMA TotalOfFigures ==
  ASSUME NEW n \in Nat, NEW seq \in [1..n -> Figure]
  PROVE  /\ \E g : TotalTrace(g, Nat, n, seq)
         /\ Total(seq) \in Nat
<1>1. \A x \in Nat : \A k \in 1..n : AddKnown(x, seq[k]) \in Nat
  BY DEF AddKnown, Figure
<1>2. DOMAIN seq = 1..n /\ 0 \in Nat
  OBVIOUS
<1>3. PICK g : TotalTrace(g, Nat, n, seq)
  BY <1>1, <1>2, TotalSteps
<1>4. Total(seq) \in Nat
  BY <1>3 DEF TotalTrace
<1> QED BY <1>3, <1>4

\* The sums of the first k parts.
Sums(g, n, seq) ==
  /\ g[0] = 0 /\ g[n] = Total(seq)
  /\ \A k \in Nat : k + 1 <= n =>
       /\ g[k] \in Nat /\ Part(seq[k + 1]) \in Nat
       /\ g[k + 1] = g[k] + Part(seq[k + 1])

LEMMA TotalSums ==
  ASSUME NEW n \in Nat, NEW seq \in [1..n -> Figure]
  PROVE  \E g : Sums(g, n, seq)
<1>1. PICK g : TotalTrace(g, Nat, n, seq)
  BY TotalOfFigures
<1>2. g[0] = 0 /\ g[n] = Total(seq)
  BY <1>1 DEF TotalTrace
<1>3. ASSUME NEW k \in Nat, k + 1 <= n
      PROVE  g[k] \in Nat /\ Part(seq[k + 1]) \in Nat /\ g[k + 1] = g[k] + Part(seq[k + 1])
  <2>1. k <= n /\ k + 1 \in 1..n /\ (k + 1) - 1 = k /\ k \in 0..n
    BY <1>3
  <2>2. g[k] \in Nat /\ g[k + 1] = AddKnown(g[k], seq[k + 1])
    BY <1>1, <2>1 DEF TotalTrace
  <2>3. seq[k + 1] \in Figure
    BY <2>1
  <2> QED BY <2>2, <2>3 DEF AddKnown, Part, Figure
<1> QED BY <1>2, <1>3 DEF Sums

\* A sum is positive when some part of it is.
LEMMA TotalPositive ==
  ASSUME NEW n \in Nat, NEW seq \in [1..n -> Nat]
  PROVE  Total(seq) > 0 <=> \E i \in 1..n : seq[i] > 0
<1>1. seq \in [1..n -> Figure]
  BY DEF Figure
<1>2. PICK g : Sums(g, n, seq)
  BY <1>1, TotalSums
<1> DEFINE T == {k \in Nat : k <= n => (g[k] > 0 <=> \E i \in 1..k : seq[i] > 0)}
<1>3. 0 \in T
  BY <1>2 DEF Sums
<1>4. ASSUME NEW k \in Nat, k \in T PROVE k + 1 \in T
  <2> SUFFICES ASSUME k + 1 <= n PROVE g[k + 1] > 0 <=> \E i \in 1..(k + 1) : seq[i] > 0
    OBVIOUS
  <2>0. k <= n /\ k + 1 \in 1..n
    OBVIOUS
  <2>1. k <= n /\ k + 1 \in 1..n /\ g[k] \in Nat /\ g[k + 1] = g[k] + Part(seq[k + 1])
    BY <1>2, <2>0 DEF Sums
  <2>2. Part(seq[k + 1]) = seq[k + 1]
    <3>1. seq[k + 1] \in Nat
      BY <2>1
    <3> QED BY <3>1, NoneIsNoValue DEF Part
  <2>3. g[k] > 0 <=> \E i \in 1..k : seq[i] > 0
    BY <1>4, <2>1
  <2>4. \A i \in 1..(k + 1) : i = k + 1 \/ i \in 1..k
    OBVIOUS
  <2>5. k + 1 \in 1..(k + 1) /\ \A i \in 1..k : i \in 1..(k + 1)
    OBVIOUS
  <2>6. g[k + 1] > 0 <=> g[k] > 0 \/ seq[k + 1] > 0
    <3>1. seq[k + 1] \in Nat
      BY <2>1
    <3> QED BY <2>1, <2>2, <3>1
  <2> QED BY <2>3, <2>4, <2>5, <2>6
<1>5. n \in T
  <2> HIDE DEF T
  <2>1. Nat \subseteq T
    BY <1>3, <1>4, NatSetInduction
  <2> QED BY <2>1
<1>6. g[n] = Total(seq)
  BY <1>2 DEF Sums
<1> QED BY <1>5, <1>6

\* What fits part by part fits in sum.
LEMMA TotalsFit ==
  ASSUME NEW n \in Nat, NEW a \in [1..n -> Figure], NEW b \in [1..n -> Figure], NEW c \in [1..n -> Figure],
         \A i \in 1..n : Part(a[i]) + Part(b[i]) <= Part(c[i])
  PROVE  Total(a) + Total(b) <= Total(c)
<1>1. PICK ga : Sums(ga, n, a)
  BY TotalSums
<1>2. PICK gb : Sums(gb, n, b)
  BY TotalSums
<1>3. PICK gc : Sums(gc, n, c)
  BY TotalSums
<1> DEFINE T == {k \in Nat : k <= n => ga[k] + gb[k] <= gc[k]}
<1>4. 0 \in T
  BY <1>1, <1>2, <1>3 DEF Sums
<1>5. ASSUME NEW k \in Nat, k \in T PROVE k + 1 \in T
  <2> SUFFICES ASSUME k + 1 <= n PROVE ga[k + 1] + gb[k + 1] <= gc[k + 1]
    OBVIOUS
  <2>0. k <= n /\ k + 1 \in 1..n
    OBVIOUS
  <2> HIDE DEF T
  <2>1. ga[k] \in Nat /\ ga[k + 1] = ga[k] + Part(a[k + 1]) /\ Part(a[k + 1]) \in Nat
    BY <1>1 DEF Sums
  <2>2. gb[k] \in Nat /\ gb[k + 1] = gb[k] + Part(b[k + 1]) /\ Part(b[k + 1]) \in Nat
    BY <1>2 DEF Sums
  <2>3. gc[k] \in Nat /\ gc[k + 1] = gc[k] + Part(c[k + 1]) /\ Part(c[k + 1]) \in Nat
    BY <1>3 DEF Sums
  <2>4. ga[k] + gb[k] <= gc[k]
    BY <1>5, <2>0 DEF T
  <2>5. Part(a[k + 1]) + Part(b[k + 1]) <= Part(c[k + 1])
    BY <2>0
  <2> QED BY <2>1, <2>2, <2>3, <2>4, <2>5
<1>6. n \in T
  <2> HIDE DEF T
  <2>1. Nat \subseteq T
    BY <1>4, <1>5, NatSetInduction
  <2> QED BY <2>1
<1>7. ga[n] = Total(a) /\ gb[n] = Total(b) /\ gc[n] = Total(c)
  BY <1>1, <1>2, <1>3 DEF Sums
<1> QED BY <1>6, <1>7

\* The sum of the sizes of sets that have nothing in common is that of their union.
LEMMA TotalOfSizes ==
  ASSUME NEW n \in Nat, NEW parts,
         \A i \in 1..n : IsFiniteSet(parts[i]),
         \A i, j \in 1..n : parts[i] \cap parts[j] # {} => i = j
  PROVE  Total([i \in 1..n |-> Cardinality(parts[i])]) = Cardinality(UNION {parts[i] : i \in 1..n})
<1> DEFINE seq == [i \in 1..n |-> Cardinality(parts[i])]
           All(k) == UNION {parts[i] : i \in 1..k}
<1>1. seq \in [1..n -> Nat]
  BY FS_CardinalityType
<1>2. seq \in [1..n -> Figure]
  BY <1>1 DEF Figure
<1>0. \A i \in 1..n : seq[i] = Cardinality(parts[i])
  OBVIOUS
<1> HIDE DEF seq
<1>3. PICK g : Sums(g, n, seq)
  BY <1>2, TotalSums
<1> DEFINE T == {k \in Nat : k <= n => IsFiniteSet(All(k)) /\ g[k] = Cardinality(All(k))}
<1>4. 0 \in T
  <2>1. All(0) = {}
    OBVIOUS
  <2> HIDE DEF All
  <2>2. g[0] = 0
    BY <1>3 DEF Sums
  <2> QED BY <2>1, <2>2, FS_EmptySet
<1>5. ASSUME NEW k \in Nat, k \in T PROVE k + 1 \in T
  <2> SUFFICES ASSUME k + 1 <= n PROVE IsFiniteSet(All(k + 1)) /\ g[k + 1] = Cardinality(All(k + 1))
    <3> HIDE DEF All
    <3> QED OBVIOUS
  <2>0. k <= n /\ k + 1 \in 1..n
    OBVIOUS
  <2>1. /\ k <= n /\ k + 1 \in 1..n /\ g[k] \in Nat
        /\ g[k + 1] = g[k] + Part(seq[k + 1]) /\ Part(seq[k + 1]) \in Nat
    BY <1>3, <2>0 DEF Sums
  <2>2. Part(seq[k + 1]) = Cardinality(parts[k + 1])
    <3>1. seq[k + 1] \in Nat /\ seq[k + 1] = Cardinality(parts[k + 1])
      BY <1>0, <1>1, <2>1
    <3> QED BY <3>1, NoneIsNoValue DEF Part
  <2>3. All(k + 1) = All(k) \cup parts[k + 1]
    <3>1. \A i \in 1..(k + 1) : i = k + 1 \/ i \in 1..k
      OBVIOUS
    <3>2. k + 1 \in 1..(k + 1) /\ \A i \in 1..k : i \in 1..(k + 1)
      OBVIOUS
    <3> QED BY <3>1, <3>2
  <2>4. All(k) \cap parts[k + 1] = {}
    <3>1. \A i \in 1..k : i \in 1..n /\ i # k + 1
      BY <2>1
    <3> QED BY <2>1, <3>1
  <2>5. IsFiniteSet(All(k)) /\ g[k] = Cardinality(All(k)) /\ IsFiniteSet(parts[k + 1])
    <3> HIDE DEF All
    <3> QED BY <1>5, <2>1
  <2> HIDE DEF All
  <2>6. /\ IsFiniteSet(All(k) \cup parts[k + 1])
        /\ Cardinality(All(k) \cup parts[k + 1]) =
             Cardinality(All(k)) + Cardinality(parts[k + 1]) - Cardinality(All(k) \cap parts[k + 1])
    BY <2>5, FS_Union
  <2>7. Cardinality(All(k) \cap parts[k + 1]) = 0
    BY <2>4, FS_EmptySet
  <2>8. Cardinality(parts[k + 1]) \in Nat
    BY <2>1, <2>2
  <2>9. g[k + 1] = Cardinality(All(k)) + Cardinality(parts[k + 1]) /\ Cardinality(All(k)) \in Nat
    BY <2>1, <2>2, <2>5
  <2>10. Cardinality(All(k) \cup parts[k + 1]) = Cardinality(All(k)) + Cardinality(parts[k + 1])
    BY <2>6, <2>7, <2>8, <2>9
  <2> QED BY <2>3, <2>6, <2>9, <2>10
<1>6. n \in T
  <2> HIDE DEF T
  <2>1. Nat \subseteq T
    BY <1>4, <1>5, NatSetInduction
  <2> QED BY <2>1
<1>7. g[n] = Total(seq)
  BY <1>3 DEF Sums
<1> HIDE DEF All
<1>8. Total(seq) = Cardinality(All(n))
  BY <1>6, <1>7
<1> QED BY <1>8 DEF seq, All

(***************************************************************************)
(* The properties.                                                         *)
(***************************************************************************)

(* Only pools are taken for pools and only drives of a pool are listed      *)
(* under it, however few of the console's lists tell whose a drive is       *)
(* (storage_drives.py, _pool_drives).                                       *)
THEOREM DrivesOfPools == Spec => []MembersOnly
<1>1. StorageInv => MembersOnly
  <2> SUFFICES ASSUME StorageInv PROVE MembersOnly
    OBVIOUS
  <2>1. PICK K : ViewIn(view, K)
    BY ViewFacts
  <2> SUFFICES ASSUME NEW i \in DOMAIN view.pools
               PROVE  LET pool == view.pools[i]
                          told == Collected(pool, view.disks)
                          here == view.drives[i]
                      IN  /\ pool.pool \in Pool
                          /\ \A j \in DOMAIN here :
                               \/ here[j].home = pool.pool
                               \/ /\ Len(view.pools) = 1 /\ LacksMember(view.disks, pool)
                                  /\ Comparable(here[j], pool) = {}
                          /\ here # told =>
                               /\ Len(here) = pool.count
                               /\ \A j \in DOMAIN here :
                                    /\ ~ReferencesForeign(here[j], pool)
                                    /\ LooksNonMember(here[j]) =>
                                         \E k \in DOMAIN told :
                                           told[k].serial = here[j].serial /\ LooksNonMember(told[k])
                          /\ \A j \in DOMAIN here : SameSerial(here, here[j]) \subseteq {j}
    BY DEF MembersOnly
  <2> DEFINE pool == view.pools[i]
  <2>2. PoolIn(pool, K) /\ view.disks \in Lists(K) /\ Family(K) /\ pool.pool \in Pool
    BY <2>1 DEF ViewIn, PoolsIn, PoolIn, PoolEntry
  <2>3. view.drives[i] = PoolDrives(pool, view.pools, view.disks)
    BY <2>1 DEF ViewIn
  <2> HIDE DEF pool
  <2>4. LET here == view.drives[i]
            told == Collected(pool, view.disks)
        IN  /\ here \in Lists(K)
            /\ \A j \in DOMAIN here :
                 \/ here[j].home = pool.pool
                 \/ Len(view.pools) = 1 /\ LacksMember(view.disks, pool) /\ Comparable(here[j], pool) = {}
            /\ here # told =>
                 /\ Len(here) = pool.count
                 /\ \A j \in DOMAIN here :
                      ~ReferencesForeign(here[j], pool) /\ SpareOnlyIfKnown(here[j], told)
    BY <2>2, <2>3, PoolDrivesBelong
  <2> QED BY <2>2, <2>4 DEF pool, Lists, OnceEach, SpareOnlyIfKnown
<1> QED BY <1>1, StorageInvariant, PTL

(* Whatever the console lists, in whatever order, an entity whose key is    *)
(* the id or name of a pool, a serial or a bay shows that one's values,     *)
(* unless that name reads like a position; and in lists of one style every  *)
(* pool and drive has its entity (entities.py, _drive; storage_pools.py,    *)
(* _pool_from_key).                                                         *)
THEOREM OwnValues == Spec => []EntitiesShowTheirOwn
<1>1. StorageInv => EntitiesShowTheirOwn
  <2> SUFFICES ASSUME StorageInv PROVE EntitiesShowTheirOwn
    OBVIOUS
  <2> DEFINE shown == {<<PoolAt(view, key[1]), DriveOf(view, key)>> : key \in knownDrives}
  <2>1. PICK K : ViewIn(view, K)
    BY ViewFacts
  <2>2. PoolsIn(view.pools, K)
    BY <2>1 DEF ViewIn
  <2>3. ASSUME OneStyleOfPools(view.pools)
        PROVE  DOMAIN view.pools \subseteq {PoolAt(view, key) : key \in knownPools}
    <3> SUFFICES ASSUME NEW i \in DOMAIN view.pools
                 PROVE  \E key \in knownPools : PoolAt(view, key) = i
      OBVIOUS
    <3>1. PoolKey(view.pools[i], i) \in knownPools
      BY DEF StorageInv, PoolKeys
    <3>2. PoolAt(view, PoolKey(view.pools[i], i)) = i
      BY <2>2, <2>3, PoolAtOwnKey
    <3> QED BY <3>1, <3>2
  <2>4. ASSUME OneStyleOfPools(view.pools), NEW i \in DOMAIN view.pools, OneStyle(view.drives[i]),
               NEW drive \in ToSet(view.drives[i])
        PROVE  \E same \in ToSet(view.drives[i]) : same.serial = drive.serial /\ <<i, same>> \in shown
    <3>1. PICK j \in DOMAIN view.drives[i] : drive = view.drives[i][j]
      BY DEF ToSet
    <3> DEFINE key == <<PoolKey(view.pools[i], i), DriveKey(view.drives[i][j], j)>>
    <3>2. key \in knownDrives
      BY DEF StorageInv, DriveKeys
    <3>3. PoolAt(view, key[1]) = i
      BY <2>2, <2>4, PoolAtOwnKey
    <3>4. DriveOf(view, key) \in ToSet(view.drives[i]) /\ DriveOf(view, key).serial = drive.serial
      BY <2>1, <2>4, <3>1, DriveOfOwnKey
    <3> QED BY <3>2, <3>3, <3>4
  <2>5. ASSUME NEW key \in knownPools, key[1] # "pool_", PoolOf(view, key) # None
        PROVE  PoolOf(view, key).pool = key[2]
    <3>1. PoolAt(view, key) # 0 /\ PoolOf(view, key) = view.pools[PoolAt(view, key)]
      BY <2>5 DEF PoolOf
    <3> QED BY <2>2, <2>5, <3>1, PoolAtNamed
  <2>6. ASSUME NEW key \in knownDrives, DriveOf(view, key) # None
        PROVE  CASE key[2][1] = "serial" -> DriveOf(view, key).serial = key[2][2]
                 [] key[2][1] = "bay" -> DriveOf(view, key).bay = key[2][2]
                 [] OTHER -> TRUE
    BY <2>1, <2>6, DriveOfNamed
  <2> QED BY <2>3, <2>4, <2>5, <2>6, Zenon DEF EntitiesShowTheirOwn
<1> QED BY <1>1, StorageInvariant, PTL

\* A sum is known when some part of it is.
LEMMA SumOfFigures ==
  ASSUME NEW n \in Nat, NEW seq \in [1..n -> Figure]
  PROVE  /\ SumKnown(seq) \in Figure /\ Total(seq) \in Nat
         /\ Part(SumKnown(seq)) = Total(seq)
         /\ \A i \in 1..n : seq[i] # None => SumKnown(seq) # None
<1>1. Total(seq) \in Nat /\ Total(seq) # None
  BY TotalOfFigures, NoneIsNoValue
<1>2. CASE \A i \in 1..n : seq[i] = None
  <2> DEFINE zeros == [i \in 1..n |-> 0]
  <2>1. zeros \in [1..n -> Nat] /\ zeros \in [1..n -> Figure] /\ \A i \in 1..n : ~(zeros[i] > 0)
    BY DEF Figure
  <2>2. \A i \in 1..n : Part(seq[i]) + Part(zeros[i]) <= Part(zeros[i])
    BY <1>2, NoneIsNoValue DEF Part
  <2> HIDE DEF zeros
  <2>3. ~(Total(zeros) > 0) /\ Total(zeros) \in Nat
    BY <2>1, TotalPositive, TotalOfFigures
  <2>4. Total(seq) + Total(zeros) <= Total(zeros)
    BY <2>1, <2>2, TotalsFit
  <2>5. Total(seq) = 0
    BY <1>1, <2>3, <2>4
  <2>6. SumKnown(seq) = None
    BY <1>2 DEF SumKnown
  <2> QED BY <1>2, <2>5, <2>6 DEF Part, Figure
<1>3. CASE ~(\A i \in 1..n : seq[i] = None)
  <2>1. SumKnown(seq) = Total(seq)
    BY <1>3 DEF SumKnown
  <2> QED BY <1>1, <2>1 DEF Part, Figure
<1> QED BY <1>2, <1>3

(***************************************************************************)
(* Totals.                                                                 *)
(***************************************************************************)

LEMMA AggregateDegraded ==
  ASSUME NEW pools, DOMAIN pools \in SUBSET Nat
  PROVE  AggregateStatus(pools) = "degraded" <=> \E i \in DOMAIN pools : PoolStatus(pools[i]) = "degraded"
<1>1. CASE \E i \in Told(pools) : PoolStatus(pools[i]) = "degraded"
  <2>1. Told(pools) # {}
    BY <1>1
  <2>2. AggregateStatus(pools) = "degraded"
    BY <1>1, <2>1, Zenon DEF AggregateStatus
  <2> QED BY <1>1, <2>2 DEF Told
<1>2. CASE ~(\E i \in Told(pools) : PoolStatus(pools[i]) = "degraded")
  <2>1. ~(\E i \in DOMAIN pools : PoolStatus(pools[i]) = "degraded")
    BY <1>2, NoneIsNoValue DEF Told
  <2>2. CASE Told(pools) = {}
    <3>1. AggregateStatus(pools) = None
      BY <1>2, <2>2, Zenon DEF AggregateStatus
    <3> QED BY <2>1, <3>1, NoneIsNoValue
  <2>3. CASE Told(pools) # {}
    <3>1. AggregateStatus(pools) = PoolStatus(pools[Min(Told(pools))])
      BY <1>2, <2>3, Zenon DEF AggregateStatus
    <3>2. Told(pools) \in SUBSET Nat
      BY DEF Told
    <3>3. Min(Told(pools)) \in Told(pools)
      BY <2>3, <3>2, MinIn
    <3> QED BY <1>2, <2>1, <3>1, <3>3
  <2> QED BY <2>2, <2>3
<1> QED BY <1>1, <1>2

LEMMA AtRiskOfList ==
  ASSUME NEW K, NEW drives \in Seq(K)
  PROVE  /\ IsFiniteSet({j \in DOMAIN drives : DriveAtRisk(drives[j])})
         /\ AtRiskCount(drives) \in Nat
         /\ AtRiskCount(drives) > 0 <=> \E j \in DOMAIN drives : DriveAtRisk(drives[j])
<1> DEFINE risky == {j \in DOMAIN drives : DriveAtRisk(drives[j])}
<1>1. IsFiniteSet(risky)
  <2>1. IsFiniteSet(1..Len(drives))
    BY FS_Interval
  <2>2. risky \subseteq 1..Len(drives)
    OBVIOUS
  <2> HIDE DEF risky
  <2> QED BY <2>1, <2>2, FS_Subset
<1>2. AtRiskCount(drives) = Cardinality(risky)
  BY DEF AtRiskCount
<1>3. (\E j \in DOMAIN drives : DriveAtRisk(drives[j])) <=> risky # {}
  OBVIOUS
<1> HIDE DEF risky
<1>4. Cardinality(risky) \in Nat /\ (Cardinality(risky) = 0 <=> risky = {})
  BY <1>1, FS_CardinalityType, FS_EmptySet
<1>5. Cardinality(risky) > 0 <=> risky # {}
  BY <1>4
<1> QED BY <1>1, <1>2, <1>3, <1>4, <1>5 DEF risky

LEMMA AtRiskParts ==
  ASSUME NEW K, NEW v, ViewIn(v, K)
  PROVE  /\ Len(v.pools) \in Nat /\ DOMAIN v.pools = 1..Len(v.pools)
         /\ \A i \in DOMAIN v.pools :
              /\ AtRiskCount(v.drives[i]) \in Nat
              /\ AtRiskCount(v.drives[i]) > 0
                   <=> \E j \in DOMAIN v.drives[i] : DriveAtRisk(v.drives[i][j])
<1>1. Len(v.pools) \in Nat /\ DOMAIN v.pools = 1..Len(v.pools)
  BY DEF ViewIn, PoolsIn
<1>2. ASSUME NEW i \in DOMAIN v.pools
      PROVE  /\ AtRiskCount(v.drives[i]) \in Nat
             /\ AtRiskCount(v.drives[i]) > 0
                  <=> \E j \in DOMAIN v.drives[i] : DriveAtRisk(v.drives[i][j])
  <2>1. v.drives[i] \in Seq(K)
    BY ShownLists DEF Lists
  <2> QED BY <2>1, AtRiskOfList
<1> QED BY <1>1, <1>2

LEMMA ProblemOfPools ==
  ASSUME StorageInv, NEW K, ViewIn(view, K)
  PROVE  /\ (\E key \in knownPools : PoolProblem(view, key) = TRUE) => StorageProblem(view)
         /\ StorageProblem(view) /\ OneStyleOfPools(view.pools) =>
              \E key \in knownPools : PoolProblem(view, key) = TRUE
<1> DEFINE n == Len(view.pools)
           seq == [i \in DOMAIN view.pools |-> AtRiskCount(view.drives[i])]
<1>1. n \in Nat /\ DOMAIN view.pools = 1..n /\ PoolsIn(view.pools, K)
  BY AtRiskParts DEF ViewIn
<1>2. seq \in [1..n -> Nat] /\ \A i \in 1..n : seq[i] = AtRiskCount(view.drives[i])
  BY <1>1, AtRiskParts
<1>3. AtRiskDisks(view) = Total(seq)
  BY DEF AtRiskDisks
<1> HIDE DEF n, seq
<1>4. AtRiskDisks(view) > 0 <=> \E i \in 1..n : AtRiskCount(view.drives[i]) > 0
  BY <1>1, <1>2, <1>3, TotalPositive
<1>5. AggregateStatus(view.pools) = "degraded" <=> \E i \in 1..n : PoolStatus(view.pools[i]) = "degraded"
  <2>1. DOMAIN view.pools \in SUBSET Nat
    BY <1>1
  <2> QED BY <1>1, <2>1, AggregateDegraded
<1>6. StorageProblem(view) <=> \E i \in 1..n : PoolHasProblem(view, i)
  BY <1>4, <1>5 DEF StorageProblem, PoolHasProblem
<1>7. ASSUME OneStyleOfPools(view.pools), NEW i \in 1..n, PoolHasProblem(view, i)
      PROVE  \E key \in knownPools : PoolProblem(view, key) = TRUE
  <2> DEFINE key == PoolKey(view.pools[i], i)
  <2>1. key \in knownPools
    BY <1>1 DEF StorageInv, PoolKeys
  <2>2. PoolAt(view, key) = i
    BY <1>1, <1>7, PoolAtOwnKey
  <2> HIDE DEF key
  <2>3. PoolProblem(view, key) = PoolHasProblem(view, i) /\ i # 0
    BY <1>1, <2>2 DEF PoolProblem
  <2>4. PoolHasProblem(view, i) = TRUE
    BY <1>7 DEF PoolHasProblem
  <2> QED BY <2>1, <2>3, <2>4
<1>8. ASSUME NEW key \in knownPools, PoolProblem(view, key) = TRUE
      PROVE  \E i \in 1..n : PoolHasProblem(view, i)
  <2>1. PoolAt(view, key) # 0
    BY <1>8, NoneIsNoValue DEF PoolProblem
  <2>2. PoolAt(view, key) \in 1..n
    BY <1>1, <2>1, PoolAtNamed
  <2>3. PoolHasProblem(view, PoolAt(view, key)) = TRUE
    BY <1>8, <2>1 DEF PoolProblem
  <2> QED BY <2>2, <2>3
<1> QED BY <1>6, <1>7, <1>8

LEMMA LabelledAtRisk ==
  ASSUME NEW drive \in DriveRecord
  PROVE  /\ drive.score # None => (DriveAtRisk(drive) <=> DriveHealth(drive) = "at_risk")
         /\ DriveHealth(drive) = "at_risk" /\ drive.details # "bad" => DriveAtRisk(drive)
<1> DEFINE told == Fill(Fill(drive.health, drive.state), drive.details)
<1>1. /\ drive.score \in Nat \cup {None} /\ drive.health \in Word
      /\ drive.state \in Word /\ drive.details \in Word
  BY DEF DriveRecord
<1>2. CASE drive.score # None
  <2>1. DriveHealth(drive) = IF drive.score >= 5 THEN "optimal" ELSE "at_risk"
    BY <1>2, Zenon DEF DriveHealth
  <2>2. DriveAtRisk(drive) <=> drive.score < 5
    BY <1>2 DEF DriveAtRisk
  <2>3. drive.score \in Nat
    BY <1>1, <1>2
  <2>4. drive.score < 5 <=> ~(drive.score >= 5)
    BY <2>3
  <2>5. DriveAtRisk(drive) <=> DriveHealth(drive) = "at_risk"
    BY <2>1, <2>2, <2>4
  <2> QED BY <2>5
<1>3. CASE drive.score = None
  <2>1. told \in Word /\ (told = "bad" => "bad" \in {drive.health, drive.state, drive.details})
    BY <1>1 DEF Fill
  <2>2. DriveAtRisk(drive) <=> "bad" \in {drive.health, drive.state}
    BY <1>3 DEF DriveAtRisk
  <2>3. CASE told = "bad"
    BY <1>3, <2>1, <2>2, <2>3
  <2>4. CASE told = "good"
    <3>1. told # "bad"
      BY <2>4
    <3>2. DriveHealth(drive) = "optimal"
      BY <1>3, <2>4, <3>1, Zenon DEF DriveHealth
    <3> QED BY <1>3, <3>2
  <2>5. CASE told \notin {"good", "bad"}
    <3>1. DriveHealth(drive) = told
      <4>1. told # "good" /\ told # "bad"
        BY <2>5
      <4> QED BY <1>3, <4>1, Zenon DEF DriveHealth
    <3>2. told # "at_risk"
      <4> HIDE DEF told
      <4> QED BY <2>1, NoneIsNoValue DEF Word
    <3> QED BY <1>3, <3>1, <3>2
  <2> QED BY <2>3, <2>4, <2>5
<1> QED BY <1>2, <1>3

LEMMA PoolFigures ==
  ASSUME NEW pool, PoolEntry(pool)
  PROVE  /\ {PoolCapacity(pool), PoolUsage(pool), PoolAvailable(pool)} \subseteq Figure
         /\ Fit(pool.capacity, pool.used, pool.free)
            => /\ Fit(pool.capacity, PoolUsage(pool), PoolAvailable(pool))
               /\ PoolCapacity(pool) # None
               /\ Part(PoolUsage(pool)) + Part(PoolAvailable(pool)) <= Part(PoolCapacity(pool))
BY NoneIsNoValue DEF PoolEntry, PoolCapacity, PoolUsage, PoolAvailable, Known, LeftOf, Fit, Part, Figure

LEMMA SumsOfPools ==
  ASSUME NEW pools, Len(pools) \in Nat, DOMAIN pools = 1..Len(pools), \A i \in DOMAIN pools : PoolEntry(pools[i])
  PROVE  /\ Each(PoolCapacity, pools) \in [1..Len(pools) -> Figure]
         /\ Each(PoolUsage, pools) \in [1..Len(pools) -> Figure]
         /\ Each(PoolAvailable, pools) \in [1..Len(pools) -> Figure]
         /\ \A i \in DOMAIN pools : /\ Each(PoolCapacity, pools)[i] = PoolCapacity(pools[i])
                                    /\ Each(PoolUsage, pools)[i] = PoolUsage(pools[i])
                                    /\ Each(PoolAvailable, pools)[i] = PoolAvailable(pools[i])
<1>1. \A i \in DOMAIN pools : {PoolCapacity(pools[i]), PoolUsage(pools[i]), PoolAvailable(pools[i])} \subseteq Figure
  BY PoolFigures
<1> QED BY <1>1 DEF Each

LEMMA AggregateFigures ==
  ASSUME NEW pools, Len(pools) \in Nat, DOMAIN pools = 1..Len(pools), \A i \in DOMAIN pools : PoolEntry(pools[i]),
         NEW told, {told.capacity, told.used, told.free} \subseteq Figure
  PROVE  {AggregateCapacity(told, pools), AggregateUsage(told, pools), AggregateAvailable(told, pools)}
           \subseteq Figure
<1>1. /\ SumKnown(Each(PoolCapacity, pools)) \in Figure
      /\ SumKnown(Each(PoolUsage, pools)) \in Figure
      /\ SumKnown(Each(PoolAvailable, pools)) \in Figure
  BY SumsOfPools, SumOfFigures
<1>2. AggregateCapacity(told, pools) \in Figure /\ AggregateUsage(told, pools) \in Figure
  BY <1>1 DEF AggregateCapacity, AggregateUsage
<1>3. Known(AggregateCapacity(told, pools), AggregateUsage(told, pools)) \in Figure
  BY <1>2, NoneIsNoValue DEF Known, LeftOf, Figure
<1> DEFINE summed == SumKnown(Each(PoolAvailable, pools))
<1>4. CASE told.free # None
  <2>1. AggregateAvailable(told, pools) = told.free
    BY <1>4, Zenon DEF AggregateAvailable
  <2> QED BY <1>2, <2>1
<1>5. CASE told.free = None /\ summed # None
  <2>1. AggregateAvailable(told, pools) = summed
    BY <1>5, Zenon DEF AggregateAvailable
  <2> QED BY <1>1, <1>2, <2>1
<1>6. CASE told.free = None /\ summed = None
  <2>1. AggregateAvailable(told, pools) = Known(AggregateCapacity(told, pools), AggregateUsage(told, pools))
    BY <1>6, Zenon DEF AggregateAvailable
  <2> QED BY <1>2, <1>3, <2>1
<1> QED BY <1>4, <1>5, <1>6

\* Where the parts of every pool fit, the totals worked out do.
LEMMA AggregatesFit ==
  ASSUME NEW pools, Len(pools) \in Nat, DOMAIN pools = 1..Len(pools), \A i \in DOMAIN pools : PoolEntry(pools[i]),
         \A i \in DOMAIN pools : Fit(pools[i].capacity, pools[i].used, pools[i].free), pools # <<>>,
         NEW told, told.capacity = None, told.used = None, told.free = None
  PROVE  Fit(AggregateCapacity(told, pools), AggregateUsage(told, pools), AggregateAvailable(told, pools))
<1> DEFINE n == Len(pools)
           caps == Each(PoolCapacity, pools)
           uses == Each(PoolUsage, pools)
           rest == Each(PoolAvailable, pools)
           total == AggregateCapacity(told, pools)
           used == AggregateUsage(told, pools)
           free == AggregateAvailable(told, pools)
<1>1. /\ n \in Nat /\ caps \in [1..n -> Figure] /\ uses \in [1..n -> Figure] /\ rest \in [1..n -> Figure]
      /\ \A i \in 1..n : Part(uses[i]) + Part(rest[i]) <= Part(caps[i]) /\ caps[i] # None
  <2>1. /\ n \in Nat /\ caps \in [1..n -> Figure] /\ uses \in [1..n -> Figure] /\ rest \in [1..n -> Figure]
        /\ \A i \in 1..n : /\ caps[i] = PoolCapacity(pools[i]) /\ uses[i] = PoolUsage(pools[i])
                           /\ rest[i] = PoolAvailable(pools[i])
    BY SumsOfPools
  <2> HIDE DEF n, caps, uses, rest, total, used, free
  <2>2. ASSUME NEW i \in 1..n
        PROVE  Part(uses[i]) + Part(rest[i]) <= Part(caps[i]) /\ caps[i] # None
    <3>1. PoolEntry(pools[i]) /\ Fit(pools[i].capacity, pools[i].used, pools[i].free)
      BY DEF n
    <3>2. /\ PoolCapacity(pools[i]) # None
          /\ Part(PoolUsage(pools[i])) + Part(PoolAvailable(pools[i])) <= Part(PoolCapacity(pools[i]))
      BY <3>1, PoolFigures
    <3> QED BY <2>1, <3>2
  <2> QED BY <2>1, <2>2
<1>2. 1 \in 1..n
  <2>1. n # 0
    OBVIOUS
  <2> QED BY <2>1
<1>3. total = SumKnown(caps) /\ used = SumKnown(uses)
  BY DEF AggregateCapacity, AggregateUsage
<1>4. free = IF SumKnown(rest) # None THEN SumKnown(rest) ELSE Known(total, used)
  <2>1. CASE SumKnown(rest) # None
    BY <2>1, Zenon DEF AggregateAvailable
  <2>2. CASE SumKnown(rest) = None
    BY <2>2, Zenon DEF AggregateAvailable
  <2> QED BY <2>1, <2>2
<1> HIDE DEF n, caps, uses, rest, total, used, free
<1>5. total \in Figure /\ Total(caps) \in Nat /\ Part(total) = Total(caps) /\ total # None
  BY <1>1, <1>2, <1>3, SumOfFigures
<1>6. used \in Figure /\ Total(uses) \in Nat /\ Part(used) = Total(uses)
  BY <1>1, <1>3, SumOfFigures
<1>7. SumKnown(rest) \in Figure /\ Total(rest) \in Nat /\ Part(SumKnown(rest)) = Total(rest)
  BY <1>1, SumOfFigures
<1>8. Total(uses) + Total(rest) <= Total(caps)
  BY <1>1, TotalsFit
<1>9. Part(used) + Part(free) <= Part(total)
  <2>1. CASE SumKnown(rest) # None
    BY <1>4, <1>5, <1>6, <1>7, <1>8, <2>1
  <2>2. CASE SumKnown(rest) = None
    <3>1. free = Known(total, used)
      BY <1>4, <2>2
    <3>2. Part(used) <= Part(total)
      BY <1>5, <1>6, <1>7, <1>8
    <3> QED BY <1>5, <1>6, <3>1, <3>2, NoneIsNoValue DEF Known, LeftOf, Part, Figure
  <2> QED BY <2>1, <2>2
<1>10. Fit(total, used, free)
  BY <1>5, <1>9 DEF Fit, Part
<1> QED BY <1>10 DEF total, used, free

\* Each failing drive of a view is counted once.
LEMMA AtRiskOnce ==
  ASSUME NEW K, NEW v, ViewIn(v, K),
         \A i \in DOMAIN v.pools : \A j \in DOMAIN v.drives[i] : "serial" \in v.drives[i][j].tells
  PROVE  AtRiskDisks(v) =
           Cardinality(UNION {{v.drives[i][j].serial : j \in {l \in DOMAIN v.drives[i] : DriveAtRisk(v.drives[i][l])}} :
                              i \in DOMAIN v.pools})
<1> DEFINE n == Len(v.pools)
           risky(i) == {l \in DOMAIN v.drives[i] : DriveAtRisk(v.drives[i][l])}
           parts == [i \in 1..n |-> {v.drives[i][j].serial : j \in risky(i)}]
<1>1. n \in Nat /\ DOMAIN v.pools = 1..n
  BY AtRiskParts
<1>2. Family(K) /\ \A i, j \in DOMAIN v.pools : v.pools[i].pool = v.pools[j].pool => i = j
  BY DEF ViewIn, PoolsIn, SamePool
<1>3. ASSUME NEW i \in 1..n
      PROVE  IsFiniteSet(parts[i]) /\ Cardinality(parts[i]) = AtRiskCount(v.drives[i])
  <2> DEFINE serial == [j \in risky(i) |-> v.drives[i][j].serial]
  <2>1. v.drives[i] \in Lists(K) /\ v.drives[i] \in Seq(K)
    BY <1>1, ShownLists DEF Lists
  <2>2. IsFiniteSet(risky(i)) /\ AtRiskCount(v.drives[i]) = Cardinality(risky(i))
    BY <2>1, AtRiskOfList DEF AtRiskCount
  <2>3. serial \in Surjection(risky(i), parts[i])
    BY DEF Surjection
  <2>4. ASSUME NEW j \in risky(i), NEW l \in risky(i), v.drives[i][j].serial = v.drives[i][l].serial
        PROVE  j = l
    BY <1>1, <2>1, <2>4 DEF Lists, OnceEach, SameSerial
  <2>5. serial \in Injection(risky(i), parts[i])
    BY <2>3, <2>4 DEF Injection, Surjection, IsInjective
  <2> HIDE DEF risky, serial, parts
  <2> QED BY <2>2, <2>3, <2>5, FS_Surjection
<1>4. ASSUME NEW i \in 1..n, NEW l \in 1..n, parts[i] \cap parts[l] # {}
      PROVE  i = l
  <2>1. PICK a \in DOMAIN v.drives[i], b \in DOMAIN v.drives[l] : v.drives[i][a].serial = v.drives[l][b].serial
    BY <1>4
  <2>2. v.drives[i] \in Lists(K) /\ (v.drives[i][a].home = v.pools[i].pool \/ Len(v.pools) = 1)
    BY <1>1, ShownLists
  <2>3. v.drives[l] \in Lists(K) /\ (v.drives[l][b].home = v.pools[l].pool \/ Len(v.pools) = 1)
    BY <1>1, ShownLists
  <2>4. v.drives[i][a] \in K /\ v.drives[l][b] \in K
    BY <2>2, <2>3 DEF Lists
  <2>5. v.drives[i][a].home = v.drives[l][b].home
    BY <1>2, <2>1, <2>4 DEF Family, Same
  <2> HIDE DEF parts
  <2> QED BY <1>1, <1>2, <2>2, <2>3, <2>5
<1>5. AtRiskDisks(v) = Total([i \in 1..n |-> Cardinality(parts[i])])
  <2> HIDE DEF parts
  <2>1. [i \in DOMAIN v.pools |-> AtRiskCount(v.drives[i])] = [i \in 1..n |-> Cardinality(parts[i])]
    BY <1>1, <1>3
  <2> QED BY <2>1 DEF AtRiskDisks
<1>6. UNION {parts[i] : i \in 1..n} =
        UNION {{v.drives[i][j].serial : j \in {l \in DOMAIN v.drives[i] : DriveAtRisk(v.drives[i][l])}} :
               i \in DOMAIN v.pools}
  <2> DEFINE S(i) == {v.drives[i][j].serial : j \in {l \in DOMAIN v.drives[i] : DriveAtRisk(v.drives[i][l])}}
  <2>1. \A i \in 1..n : parts[i] = S(i)
    OBVIOUS
  <2> HIDE DEF parts, S
  <2>2. {parts[i] : i \in 1..n} = {S(i) : i \in DOMAIN v.pools}
    BY <1>1, <2>1
  <2> QED BY <2>2 DEF S
<1> HIDE DEF parts
<1>7. Total([i \in 1..n |-> Cardinality(parts[i])]) = Cardinality(UNION {parts[i] : i \in 1..n})
  BY <1>1, <1>3, <1>4, TotalOfSizes
<1> QED BY <1>5, <1>6, <1>7

(* Whatever the console lists, its problem is on when some pool's is, each  *)
(* failing drive is counted once, and the figures worked out from the told  *)
(* ones fit where those do (storage_view.py, storage_capacity.py).          *)
THEOREM TotalsOfPools == Spec => []TotalsAgree
<1>1. StorageInv => TotalsAgree
  <2> SUFFICES ASSUME StorageInv PROVE TotalsAgree
    OBVIOUS
  <2> DEFINE pools == view.pools
             told == view.told
             drives == UNION {ToSet(view.drives[i]) : i \in DOMAIN pools}
             AllFit == \A i \in DOMAIN pools : Fit(pools[i].capacity, pools[i].used, pools[i].free)
             total == AggregateCapacity(told, pools)
             used == AggregateUsage(told, pools)
             free == AggregateAvailable(told, pools)
  <2>1. PICK K : ViewIn(view, K)
    BY ViewFacts
  <2>2. /\ Len(pools) \in Nat /\ DOMAIN pools = 1..Len(pools)
        /\ \A i \in DOMAIN pools : PoolEntry(pools[i])
        /\ {told.capacity, told.used, told.free} \subseteq Figure
    BY <2>1 DEF ViewIn, PoolsIn, PoolIn, Figure
  <2>3. /\ (\E key \in knownPools : PoolProblem(view, key) = TRUE) => StorageProblem(view)
        /\ StorageProblem(view) /\ OneStyleOfPools(pools) =>
             \E key \in knownPools : PoolProblem(view, key) = TRUE
    BY <2>1, ProblemOfPools
  <2>4. ASSUME NEW drive \in drives
        PROVE  /\ drive.score # None => (DriveAtRisk(drive) <=> DriveHealth(drive) = "at_risk")
               /\ DriveHealth(drive) = "at_risk" /\ drive.details # "bad" => DriveAtRisk(drive)
    <3>1. PICK i \in DOMAIN pools : drive \in ToSet(view.drives[i])
      OBVIOUS
    <3>2. view.drives[i] \in Lists(K) /\ K \subseteq DriveRecord
      BY <2>1, ShownLists DEF ViewIn, Family
    <3>3. drive \in DriveRecord
      BY <3>1, <3>2 DEF ToSet, Lists
    <3> QED BY <3>3, LabelledAtRisk
  <2>5. ASSUME \A drive \in drives : "serial" \in drive.tells
        PROVE  AtRiskDisks(view) = Cardinality({drive.serial : drive \in {x \in drives : DriveAtRisk(x)}})
    <3> DEFINE Serials == UNION {{view.drives[i][j].serial :
                                    j \in {l \in DOMAIN view.drives[i] : DriveAtRisk(view.drives[i][l])}} :
                                  i \in DOMAIN pools}
    <3>1. \A i \in DOMAIN view.pools : \A j \in DOMAIN view.drives[i] : "serial" \in view.drives[i][j].tells
      BY <2>5 DEF ToSet
    <3>2. AtRiskDisks(view) = Cardinality(Serials)
      BY <2>1, <3>1, AtRiskOnce
    <3>3. Serials = {drive.serial : drive \in {x \in drives : DriveAtRisk(x)}}
      BY DEF ToSet
    <3> QED BY <3>2, <3>3
  <2>6. {total, used, free} \subseteq Figure
    BY <2>2, AggregateFigures
  <2>7. \A value \in {total, used, free} : value # None => value >= 0
    <3> HIDE DEF total, used, free
    <3>1. \A value \in Figure : value # None => value \in Nat
      BY DEF Figure
    <3> QED BY <2>6, <3>1
  <2>8. \A i \in DOMAIN pools : LET pool == pools[i] IN
          Fit(pool.capacity, pool.used, pool.free) => Fit(pool.capacity, PoolUsage(pool), PoolAvailable(pool))
    BY <2>2, PoolFigures
  <2>9. ASSUME AllFit, pools # <<>>, told = [capacity |-> None, used |-> None, free |-> None]
        PROVE  Fit(total, used, free)
    <3>1. told.capacity = None /\ told.used = None /\ told.free = None
      BY <2>9
    <3> QED BY <2>2, <2>9, <3>1, AggregatesFit
  <2> QED BY <2>3, <2>4, <2>5, <2>7, <2>8, <2>9 DEF TotalsAgree
<1> QED BY <1>1, StorageInvariant, PTL

=============================================================================
