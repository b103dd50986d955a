----------------------------- MODULE ActionCalls ------------------------------
(***************************************************************************)
(* What the client promises its callers about reads and actions: however   *)
(* often a call logs in, repeats its request or falls back to another      *)
(* endpoint, its action is carried out in one step at most, the one in     *)
(* which the call returns, and how it returned tells what became of the    *)
(* action.                                                                 *)
(***************************************************************************)
EXTENDS Naturals

CONSTANTS
  Caller,   \* tasks
  Kinds     \* the kinds of calls each task makes

VARIABLES
  phase,    \* "idle" or "open", per caller
  kind,     \* of the call under way, or the last one
  done,     \* how often that call's action was carried out
  outcome   \* how the last call of each caller ended

callVars == <<phase, kind, done, outcome>>

\* How a call of some kind may end: "failed" is an error that does not tell
\* what the NAS has done.  An update that is needless returns normally, as one
\* that was carried out does.
Endings(k) ==
  {"ok", "auth", "failed", "cancelled"}
    \cup (IF k = "update" THEN {"needless"} ELSE {})
    \cup (IF k \in {"update", "backup", "create"} THEN {"unsupported"} ELSE {})

\* The endings after which an action was not carried out.  An update or a
\* backup run is called unsupported also after an answer that does not tell.
NotDone(k) == {"auth", "needless"} \cup (IF k = "create" THEN {"unsupported"} ELSE {})

\* How often the action of a call that ends this way was carried out.
Times(k, ending) ==
  CASE k = "read" \/ ending \in NotDone(k) -> {0}
    [] k # "read" /\ ending = "ok"         -> {1}
    [] OTHER                               -> {0, 1}

CallsInit ==
  /\ phase = [c \in Caller |-> "idle"]
  /\ kind = [c \in Caller |-> "read"]
  /\ done = [c \in Caller |-> 0]
  /\ outcome = [c \in Caller |-> "none"]

Begin(c, k) ==
  /\ phase[c] = "idle"
  /\ kind' = [kind EXCEPT ![c] = k]
  /\ done' = [done EXCEPT ![c] = 0]

Call(c) ==
  \E k \in Kinds[c] :
    /\ Begin(c, k)
    /\ phase' = [phase EXCEPT ![c] = "open"]
    /\ outcome' = [outcome EXCEPT ![c] = "none"]

\* A power action known to be forbidden is refused at once.
Forbid(c) ==
  /\ "power" \in Kinds[c]
  /\ Begin(c, "power")
  /\ outcome' = [outcome EXCEPT ![c] = "auth"]
  /\ UNCHANGED phase

Return(c) ==
  /\ phase[c] = "open"
  /\ phase' = [phase EXCEPT ![c] = "idle"]
  /\ \E ending \in Endings(kind[c]) :
       /\ outcome' = [outcome EXCEPT ![c] = ending]
       /\ \E n \in Times(kind[c], ending) : done' = [done EXCEPT ![c] = @ + n]
  /\ UNCHANGED kind

CallsNext == \E c \in Caller : Call(c) \/ Forbid(c) \/ Return(c)

CallsSpec == CallsInit /\ [][CallsNext]_callVars
=============================================================================
