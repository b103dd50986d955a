------------------------------ MODULE MCStorage ------------------------------
(* Two pools and three drives.  What a drive list says does not depend on  *)
(* earlier payloads, and what an entity shows depends on one earlier       *)
(* payload, for its key, and on the one of the moment: one refresh after   *)
(* the first is enough.                                                    *)
EXTENDS StorageEntities, TLC

CONSTANTS p, q, d, e, f

NoFigures == [capacity |-> None, used |-> None, free |-> None]

\* The console: the order of its disks, the pool of each, the pools it lists,
\* its spares, the failing drives, the disks it lists under their pools and in
\* a list of all, which of their fields it tells in either, what it tells of its
\* pools, and how often it lists its disks.
Console(orders, homes, listings, spares, seen, shown, own, all, refs, ids, counts, repeats) ==
  [order : orders, home : homes, listing : listings, spare : spares, failing : {{}},
   seen : seen, shown : shown, own : own, all : all, refs : refs, ids : ids,
   count : counts, repeat : repeats, told : {NoFigures},
   figures : {[i \in 1..2 |-> NoFigures]}, status : {<<"healthy", None>>}]

Record(x, drive, tells, refs) ==
  [serial |-> drive, bay |-> CHOOSE i \in DOMAIN x.order : x.order[i] = drive,
   home |-> x.home[drive], tells |-> tells,
   refs |-> IF x.home[drive] = None THEN {} ELSE refs,
   spare |-> IF drive = f THEN f \in x.spare ELSE None,
   score |-> IF drive # d THEN None ELSE IF d \in x.failing THEN 4 ELSE 5,
   health |-> IF drive = e THEN None ELSE "good",
   state |-> IF drive \in x.failing \cup {d} THEN "bad"
             ELSE IF drive = e /\ e \in x.spare THEN "unassigned" ELSE None,
   details |-> IF drive = e THEN "bad" ELSE None, blank |-> {}, blankRefs |-> {},
   keys |-> {"identity", "driveIdentity", "status", "amount"}]

\* Below the raid groups: the group, which is no drive, and each drive twice.
Raid(drives) ==
  <<[serial |-> None, bay |-> 0, tells |-> {}, refs |-> {"id"}, score |-> None, health |-> "good",
     blank |-> {}, blankRefs |-> {}]>>
  \o drives \o drives

\* An entry with the serial it tells and every other field blank.
Blanked(drive) ==
  [drive EXCEPT !.tells = @ \cap {"serial"}, !.refs = {}, !.spare = None, !.score = None,
                !.health = None, !.state = None, !.details = None,
                !.blank = {"name", "bay"} \cup Fields, !.blankRefs = {"id"}]

MCPayload(x) ==
  LET records(drives, tells, refs) ==
        [i \in DOMAIN drives |-> Record(x, drives[i], tells, refs)]
      members(pool) == SelectSeq(x.order, LAMBDA y : x.home[y] = pool /\ y \notin x.spare)
      list(pool) == records(SelectSeq(members(pool), LAMBDA y : y \in x.seen), x.own, {})
      global == records(SelectSeq(x.order, LAMBDA y : y \in x.shown), x.all, x.refs)
      again == CASE x.repeat = "never" -> <<>>
                 [] x.repeat = "same"  -> <<global>>
                 [] x.repeat = "blank" -> <<[i \in DOMAIN global |-> Blanked(global[i])]>>
      pool(i) == [pool |-> x.listing[i], tells |-> x.ids.tells[x.listing[i]],
                  number |-> x.ids.number[x.listing[i]],
                  count |-> IF x.count THEN Len(members(x.listing[i])) ELSE 0,
                  drives |-> IF x.seen = Drive THEN list(x.listing[i]) ELSE <<>>,
                  nested |-> IF x.own # {"bay"} THEN list(x.listing[i]) ELSE <<>>,
                  raid |-> Raid(list(x.listing[i])),
                  keys |-> IF x.ids.tells[x.listing[i]] = {} THEN {"raid"} ELSE {"identity", "status"},
                  capacity |-> x.figures[i].capacity, used |-> x.figures[i].used,
                  free |-> x.figures[i].free, status |-> x.status[i]]
      listed == [i \in DOMAIN x.listing |-> pool(i)]
  IN  [pools |-> IF x.count THEN listed ELSE <<>>,
       volumes |-> IF \A y \in Pool : x.ids.tells[y] = {} THEN <<>> ELSE listed,
       data |-> global \o listed,
       disks |-> <<global>> \o again,
       told |-> x.told]

NoNumber == [y \in Pool |-> None]

\* What is told of the pools: the same of each, none of them numbered.
Alike(tells) == {[tells |-> [y \in Pool |-> told], number |-> NoNumber] : told \in tells}

\* Pools named "Pool 1" and "Pool 2", or one of them named like a position.
Numbered ==
  {[tells |-> [y \in Pool |-> {"name"}], number |-> [y \in Pool |-> IF y = p THEN 1 ELSE 2]]}
  \cup {[tells |-> [y \in Pool |-> IF y = p THEN told ELSE {"name"}],
         number |-> [y \in Pool |-> IF y = p THEN None ELSE n]] : told \in {{}, {"id"}}, n \in {0, 1}}

\* Everything that decides whose a drive is.
Lists ==
  LET homes    == {[y \in Drive |-> IF y = d THEN p ELSE IF y = e THEN h2 ELSE h3] :
                     h2 \in {p, q}, h3 \in {p, q, None}}
      listings == {<<p>>, <<p, q>>}
      spares   == {{}, {e}, {f}}
  IN  Console({<<d, e, f>>}, homes, listings, spares, {{}, {d}, Drive}, {{}, {d, e}, Drive},
              {{"serial"}, {"bay"}}, {{}, {"serial"}, {"bay"}},
              {{}, {"id"}, {"name"}}, Alike({{}, {"id"}, {"name"}}), {TRUE}, {"never"})
      \cup Console({<<d, e, f>>}, homes, listings, spares, {{}, {d}}, {Drive}, {{"serial"}}, {{"serial"}},
                   {{"id"}, {"name"}}, Alike({{"id"}}), {TRUE}, {"blank"})

Orders == {<<d, e, f>>, <<e, d, f>>, <<f, e>>}

Home == [y \in Drive |-> IF y = f THEN q ELSE p]

\* Everything that decides a key or a position: disks under their pools, or
\* in one list that names the pool of each.
Keys(orders, listings, repeats) ==
  LET tells == {{}, {"serial"}, {"name"}, {"bay"}}
      ids   == Alike({{}, {"id"}, {"name"}, {"id", "name"}})
  IN  Console(orders, {Home}, listings, {{}}, {Drive}, {{}}, tells, {{}}, {{}}, ids, {FALSE}, {"never"})
      \cup Console(orders, {Home}, listings, {{}}, {{}}, {Drive}, {{}}, tells, {{"name"}}, Alike({{"name"}}),
                   {FALSE}, repeats)
      \cup Console(orders, {Home}, listings, {{}}, {Drive}, {{}}, {{"serial"}}, {{}}, {{}}, Numbered,
                   {FALSE}, {"never"})

\* Everything that the totals are worked out from.
Figures ==
  LET amounts == [capacity : {None, 4}, used : {None, 1, 5}, free : {None, 2}]
  IN  [order : {<<d, e, f>>}, home : {Home}, listing : {<<p, q>>}, spare : {{}},
       failing : {{}, {d}, {e}, {f}}, seen : {{d}}, shown : {Drive}, own : {{"serial"}},
       all : {{"serial"}}, refs : {{"id"}}, ids : Alike({{"id"}}), count : {TRUE}, repeat : {"never"},
       told : {NoFigures, [NoFigures EXCEPT !.capacity = 8, !.used = 9]},
       figures : {<<a, b>> : a \in amounts, b \in amounts},
       status : {None, "healthy"} \X {"degraded", "expanding"}]

Repeats == {"never", "same", "blank"}

MCFirst == Lists \cup Keys(Orders, {<<q>>, <<p, q>>, <<q, p>>}, Repeats) \cup Figures
MCLater == Keys({<<f, e>>}, {<<q>>, <<q, p>>}, {"never"})

\* A console that lists its disks twice, and nothing else of interest.
MCDuplicates ==
  Console(Orders, {Home}, {<<p, q>>}, {{}}, {{}}, {Drive}, {{}}, {{"serial"}}, {{}, {"id"}}, Alike({{"id"}}),
          {FALSE}, Repeats)
=============================================================================
