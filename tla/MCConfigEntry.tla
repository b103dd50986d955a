---------------------------- MODULE MCConfigEntry ----------------------------
EXTENDS ConfigEntry, TLC
\* Small instance of ConfigEntry for TLC: two consoles at two addresses, one
\* that tells its id in the system metadata, and one that has none there.

CONSTANTS a, b, h1, h2

MCTells == [c \in Console |-> IF c = a THEN {"system", "account"}
                                   ELSE {"account", "mac", "host"}]

MCInit ==
  /\ Init
  /\ at = [h \in Host |-> IF h = h1 THEN a ELSE b]
  /\ \E p \in Password : accepts = [c \in Console |-> p]
  /\ \A s \in Stored : entry[s].mac # None

MCSpec == MCInit /\ [][Next]_vars

Alike == Permutations(Flow) \cup Permutations(Password)
=============================================================================
