---------------------------- MODULE SettingsStore ----------------------------
(***************************************************************************)
(* What the client promises its callers about snapshot settings: however   *)
(* calls overlap, each takes effect at most once, in one step, on the      *)
(* document the NAS stores at that moment.  A call that returns normally   *)
(* took effect; a refused one did not; after a connection error or a       *)
(* cancellation the caller knows neither.                                  *)
(***************************************************************************)
EXTENDS SnapshotDocument

CONSTANTS
  Caller,   \* tasks that change settings: entities and services
  Target,   \* snapshot targets
  Updates,  \* the updates they ask for
  Initial   \* documents the NAS may hold at the start

ASSUME StoreAssumption ==
  /\ Updates \subseteq Update
  /\ Initial \subseteq Document
  /\ Target # {} /\ Updates # {}

VARIABLES
  stored,   \* the document of each target on the NAS
  phase,    \* "idle" or "open", per caller
  request,  \* the call of each caller: its target and its update
  outcome   \* how the last call of each caller ended

storeVars == <<stored, phase, request, outcome>>

Refused == {"auth", "unsupported", "unexpected"}
Unknown == {"connect", "cancelled"}
Outcome == {"ok"} \cup Refused \cup Unknown
Request == [target : Target, update : Updates]
AnyRequest == CHOOSE r \in Request : TRUE   \* of a caller that is idle

StoreInit ==
  /\ stored \in [Target -> Initial]
  /\ phase = [c \in Caller |-> "idle"]
  /\ request = [c \in Caller |-> AnyRequest]
  /\ outcome = [c \in Caller |-> "none"]

\* The documents a change can leave: the written one, or none at all when
\* the NAS accepts the removal.
Changed(d, u) ==
  {WriteBody(Read(d), u)} \cup IF DeleteRequired(u) THEN {Removed} ELSE {}

Call(c) ==
  /\ phase[c] = "idle"
  /\ phase' = [phase EXCEPT ![c] = "open"]
  /\ \E r \in Request : request' = [request EXCEPT ![c] = r]
  /\ outcome' = [outcome EXCEPT ![c] = "none"]
  /\ UNCHANGED stored

Return(c) ==
  /\ phase[c] = "open"
  /\ phase' = [phase EXCEPT ![c] = "idle"]
  /\ \E o \in Outcome :
       /\ outcome' = [outcome EXCEPT ![c] = o]
       /\ LET t == request[c].target
              applied == \E d \in Changed(stored[t], request[c].update) :
                           stored' = [stored EXCEPT ![t] = d]
          IN  \/ o \notin Refused /\ applied
              \/ o # "ok" /\ UNCHANGED stored
  /\ request' = [request EXCEPT ![c] = AnyRequest]

StoreNext == \E c \in Caller : Call(c) \/ Return(c)

StoreSpec == StoreInit /\ [][StoreNext]_storeVars

-----------------------------------------------------------------------------
(* What a caller can read back.                                            *)

Returned(c) == outcome[c] = "none" /\ outcome'[c] = "ok"

\* Every field the update asks for is in what is read afterwards, and the day
\* it asks for is the one shown; a day is readable only while the schedule has
\* its kind.
Shows(after, u) ==
  /\ u.enabled # Keep => after.enabled = u.enabled
  /\ u.limit # Keep => after.limit = u.limit
  /\ u.frequency # Keep => after.frequency = u.frequency
  /\ u.time # Keep => after.time = u.time
  /\ u.weekdays # Keep /\ u.frequency = "Weekly"
       => WeekdayShown(after) = u.weekdays
  /\ u.monthdays # Keep /\ u.frequency = "Monthly"
       => MonthdayShown(after) = u.monthdays

\* No other field differs from what was read before.
KeepsTheRest(before, after, u) ==
  /\ u.enabled = Keep => after.enabled = before.enabled
  /\ u.limit = Keep => after.limit = before.limit
  /\ u.time = Keep => after.time = before.time
  /\ u.frequency = Keep =>
       /\ after.frequency = before.frequency
       /\ after.running = before.running
       /\ before.frequency = "Weekly" /\ u.weekdays = Keep
            => after.weekdays = WeekdayShown(before)
       /\ before.frequency = "Monthly" /\ u.monthdays = Keep
            => after.monthdays = MonthdayShown(before)

\* A schedule is not started unless the call asks for one.
StartsNothing(before, after, u) ==
  u.frequency = Keep /\ after.running => before.running

\* A change that was reported as made reads back as it was requested,
\* whichever document it was merged into.
RequestedFieldsStick ==
  [][\A c \in Caller :
       Returned(c) => Shows(Read(stored'[request[c].target]),
                            request[c].update)]_storeVars

\* A write of the full document disturbs nothing else, unless the call
\* removed the setting.  Of a document that is not plain only this is
\* promised: its schedule is not started on the side.
OtherFieldsKept ==
  [][\A c \in Caller :
       Returned(c) =>
         LET t == request[c].target
             u == request[c].update
             before == Read(stored[t])
             after == Read(stored'[t])
         IN  /\ StartsNothing(before, after, u)
             /\ Plain(stored[t]) /\ ~DeleteRequired(u)
                  => KeepsTheRest(before, after, u)]_storeVars

\* However a setting was stored, what the client writes is plain: the next
\* change disturbs nothing.
WrittenIsPlain ==
  [][\A t \in Target :
       stored'[t] # stored[t] /\ stored'[t] # Removed => Plain(stored'[t])
    ]_storeVars
=============================================================================
