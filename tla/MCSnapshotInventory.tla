------------------------- MODULE MCSnapshotInventory -------------------------
(* Small instances of SnapshotInventory: two shared drives and a My Drive. *)
EXTENDS SnapshotInventory

KeyOrder2 == <<"shared_a", "shared_b">>
KeyOrder3 == <<"mydrive_m", "shared_a", "shared_b">>

MCKey2 == Range(KeyOrder2)
MCKey3 == Range(KeyOrder3)
MCType == {"mydrive", "shared"}
MCTypeOf == [k \in Key |-> IF k = "mydrive_m" THEN "mydrive" ELSE "shared"]
MCRank == [k \in Key |-> CHOOSE i \in 1..3 : KeyOrder3[i] = k]
MCRefusing == {"mydrive_m"}
MCRefusingPeer == {"shared_b"}
MCFailures == {"permission", "unsupported", "retry"}
MCStalled == {"shared_a"}
=============================================================================
