----------------------------- MODULE MCApiSession -----------------------------
(* The poll's reads beside a task that acts. *)
EXTENDS ApiSession

MCKinds ==
  [c \in Caller |-> IF c = "poll" THEN {"read"}
                                  ELSE {"power", "update", "create"}]
=============================================================================
