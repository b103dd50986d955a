--------------------------- MODULE SnapshotSettings ---------------------------
(***************************************************************************)
(* How the client changes a snapshot setting (api_snapshot.py).  The NAS   *)
(* takes whole documents only, so a call reads the settings again under a  *)
(* lock, merges the requested change into what it read and writes it all   *)
(* back: DELETE first when the setting is to go, then PUT, each on the     *)
(* paths the firmware may have.  Only an answer of 404 or 405 moves on to  *)
(* the next attempt, only a refused session starts over, once.             *)
(*                                                                         *)
(* The NAS is modelled at the moment it answers.  A write that ends in an  *)
(* error or a cancellation may have been carried out or not, but never     *)
(* after the client gave up, and nobody else edits the settings between a  *)
(* call's read and its write.                                              *)
(***************************************************************************)
EXTENDS SnapshotDocument, Sequences

CONSTANTS
  Caller, Target, Updates, Initial,   \* as in SettingsStore
  NoOne,    \* nobody holds the lock
  Type,     \* "shared", "mydrive"
  TypeOf,   \* the type of each target
  Routes    \* how many write paths each target has

ASSUME SettingsAssumption ==
  /\ Updates \subseteq Update /\ Updates # {}
  /\ Initial \subseteq Document
  /\ Target # {}
  /\ NoOne \notin Caller
  /\ TypeOf \in [Target -> Type]
  /\ Routes \in [Target -> {1, 2}]

VARIABLES
  stored,          \* the document of each target on the NAS
  call,            \* how far each caller's call has come
  request,         \* its target and its update
  outcome,         \* how the last call of each caller ended
  owner,           \* of _snapshot_settings_lock
  line,            \* the waiters of the lock
  polling,         \* the coordinator's own settings read is under way
  readSupported,   \* _snapshot_settings_read_supported is not False
  writeSupported   \* the same for writes, per type

vars == <<stored, call, request, outcome, owner, line, polling,
          readSupported, writeSupported>>

Stage == {"idle", "queued", "login", "read", "relogin", "write"}
Inside == {"login", "read", "relogin", "write"}

Store == INSTANCE SettingsStore
  WITH phase <- [c \in Caller |->
                   IF call[c].stage = "idle" THEN "idle" ELSE "open"]

\* The locals of a call; copy is the target as it was read again.
NoCopy == Read(Removed)
Idle == [stage |-> "idle", copy |-> NoCopy, attempt |-> 1, relogged |-> FALSE]

Stop(c) == [call EXCEPT ![c] = Idle]
At(c, s, again) ==
  [call EXCEPT ![c] = [stage |-> s, copy |-> call[c].copy,
                       attempt |-> call[c].attempt, relogged |-> again]]

MyTarget(c) == request[c].target
MyUpdate(c) == request[c].update
MyType(c) == TypeOf[MyTarget(c)]

\* The methods of a request's writes in order, one entry per attempt.
Attempts(r) ==
  LET deletes == IF DeleteRequired(r.update) THEN Routes[r.target] ELSE 0
  IN  [i \in 1..(deletes + Routes[r.target]) |->
         IF i <= deletes THEN "DELETE" ELSE "PUT"]

\* The document on the NAS once it accepts the current attempt.
Effect(c) ==
  IF Attempts(request[c])[call[c].attempt] = "DELETE" THEN Removed
  ELSE WriteBody(call[c].copy, MyUpdate(c))

Init ==
  /\ stored \in [Target -> Initial]
  /\ call = [c \in Caller |-> Idle]
  /\ request = [c \in Caller |-> Store!AnyRequest]
  /\ outcome = [c \in Caller |-> "none"]
  /\ owner = NoOne
  /\ line = <<>>
  /\ polling = FALSE
  /\ readSupported = TRUE
  /\ writeSupported = [ty \in Type |-> TRUE]

-----------------------------------------------------------------------------
(* Entering and leaving.                                                   *)

Ended(c, o) ==
  /\ call' = Stop(c)
  /\ outcome' = [outcome EXCEPT ![c] = o]
  /\ request' = [request EXCEPT ![c] = Store!AnyRequest]

\* "async with" frees the lock however the call ends.
OwnerAfterSuccess(o) == IF o = "ok" THEN NoOne ELSE owner
OwnerAfter(o) == NoOne

Finish(c, o) ==
  /\ Ended(c, o)
  /\ owner' = OwnerAfter(o)
  /\ UNCHANGED line

GoOn(c, state) ==
  /\ call' = state
  /\ owner' = c
  /\ UNCHANGED <<request, outcome>>

Call(c) ==
  /\ call[c].stage = "idle"
  /\ call' = [call EXCEPT ![c] = [Idle EXCEPT !.stage = "queued"]]
  /\ \E r \in Store!Request : request' = [request EXCEPT ![c] = r]
  /\ outcome' = [outcome EXCEPT ![c] = "none"]
  /\ line' = Append(line, c)
  /\ UNCHANGED <<stored, owner, polling, readSupported, writeSupported>>

\* No read is sent once the endpoint is known to be missing: the list is
\* empty and the target is not in it.
BeginRead(c, again) ==
  \/ readSupported /\ GoOn(c, At(c, "read", again))
  \/ /\ ~readSupported
     /\ Ended(c, "unexpected")
     /\ owner' = OwnerAfter("unexpected")

BeginWrite(c, copy, again) ==
  \/ /\ writeSupported[MyType(c)]
     /\ GoOn(c, [call EXCEPT ![c] = [stage |-> "write", copy |-> copy,
                                     attempt |-> 1, relogged |-> again]])
  \/ /\ ~writeSupported[MyType(c)]
     /\ Ended(c, "unsupported")
     /\ owner' = OwnerAfter("unsupported")

\* The lock is free and it is this waiter's turn.
AnyTurn(c) == call[c].stage = "queued" /\ line # <<>> /\ c = Head(line)
MyTurn(c) ==
  /\ call[c].stage = "queued"
  /\ owner = NoOne
  /\ line # <<>> /\ c = Head(line)

\* The session the client shares with its other requests may be gone.
Enter(c) ==
  /\ MyTurn(c)
  /\ line' = Tail(line)
  /\ GoOn(c, At(c, "login", FALSE)) \/ BeginRead(c, FALSE)
  /\ UNCHANGED <<stored, polling, readSupported, writeSupported>>

LoggedIn(c) ==
  /\ \/ call[c].stage = "login" /\ BeginRead(c, call[c].relogged)
     \/ call[c].stage = "relogin" /\ BeginWrite(c, call[c].copy, TRUE)
  /\ UNCHANGED <<stored, line, polling, readSupported, writeSupported>>

LoginFailed(c) ==
  /\ call[c].stage \in {"login", "relogin"}
  /\ \E o \in {"auth", "connect"} : Finish(c, o)
  /\ UNCHANGED <<stored, polling, readSupported, writeSupported>>

-----------------------------------------------------------------------------
(* The read's answer.                                                      *)

ReadListed(c) ==
  /\ call[c].stage = "read"
  /\ BeginWrite(c, Read(stored[MyTarget(c)]), FALSE)
  /\ readSupported' = TRUE
  /\ UNCHANGED <<stored, line, polling, writeSupported>>

\* A valid list without the target, or a malformed one.
ReadUnusable(c) ==
  /\ call[c].stage = "read"
  /\ Finish(c, "unexpected")
  /\ readSupported' = TRUE \/ UNCHANGED readSupported
  /\ UNCHANGED <<stored, polling, writeSupported>>

ReadUnavailable(c) ==
  /\ call[c].stage = "read"
  /\ Finish(c, "unexpected")
  /\ readSupported' = FALSE
  /\ UNCHANGED <<stored, polling, writeSupported>>

ReadFailed(c) ==
  /\ call[c].stage = "read"
  /\ Finish(c, "connect")
  /\ UNCHANGED <<stored, polling, readSupported, writeSupported>>

\* HTTP 401 or 403: log in again, once.
ReadRefused(c) ==
  /\ call[c].stage = "read"
  /\ \/ /\ ~call[c].relogged
        /\ GoOn(c, At(c, "login", TRUE))
        /\ UNCHANGED line
     \/ call[c].relogged /\ Finish(c, "auth")
  /\ UNCHANGED <<stored, polling, readSupported, writeSupported>>

-----------------------------------------------------------------------------
(* The answer to the current write attempt.                                *)

Apply(c) == stored' = [stored EXCEPT ![MyTarget(c)] = Effect(c)]

WriteAccepted(c) ==
  /\ call[c].stage = "write"
  /\ Apply(c)
  /\ writeSupported' = [writeSupported EXCEPT ![MyType(c)] = TRUE]
  /\ Finish(c, "ok")
  /\ UNCHANGED <<polling, readSupported>>

OneAttemptTooMany(c) == call[c].attempt <= Len(Attempts(request[c]))
MoreAttempts(c) == call[c].attempt < Len(Attempts(request[c]))

\* HTTP 404 or 405.
WriteUnavailable(c) ==
  /\ call[c].stage = "write"
  /\ \/ /\ MoreAttempts(c)
        /\ GoOn(c, [call EXCEPT ![c].attempt = @ + 1])
        /\ UNCHANGED <<line, writeSupported>>
     \/ /\ ~MoreAttempts(c)
        /\ writeSupported' = [writeSupported EXCEPT ![MyType(c)] = FALSE]
        /\ Finish(c, "unsupported")
  /\ UNCHANGED <<stored, polling, readSupported>>

\* Any other answer, a timeout or a lost connection ends the call: the NAS
\* may have carried the write out.
ReturnAfterFailure(c) == Finish(c, "ok")
AfterFailure(c) == Finish(c, "connect")

WriteFailed(c) ==
  /\ call[c].stage = "write"
  /\ Apply(c) \/ UNCHANGED stored
  /\ AfterFailure(c)
  /\ UNCHANGED <<polling, readSupported, writeSupported>>

\* HTTP 401 or 403: log in again, once, and start over with the same copy.
WriteRefused(c) ==
  /\ call[c].stage = "write"
  /\ \/ /\ ~call[c].relogged
        /\ GoOn(c, At(c, "relogin", TRUE))
        /\ UNCHANGED line
     \/ call[c].relogged /\ Finish(c, "auth")
  /\ UNCHANGED <<stored, polling, readSupported, writeSupported>>

-----------------------------------------------------------------------------
(* The caller's task is cancelled at one of its awaits.                    *)

Without(s, i) == SubSeq(s, 1, i - 1) \o SubSeq(s, i + 1, Len(s))

CancelledWaiting(c) ==
  /\ call[c].stage = "queued"
  /\ \E i \in 1..Len(line) : line[i] = c /\ line' = Without(line, i)
  /\ Ended(c, "cancelled")
  /\ UNCHANGED <<stored, owner, polling, readSupported, writeSupported>>

CancelledInside(c) ==
  /\ call[c].stage \in Inside
  /\ UNCHANGED stored \/ (call[c].stage = "write" /\ Apply(c))
  /\ Finish(c, "cancelled")
  /\ UNCHANGED <<polling, readSupported, writeSupported>>

-----------------------------------------------------------------------------
(* The coordinator and the services read the settings outside the lock and *)
(* share the capability flag.                                              *)

PollStart ==
  /\ ~polling /\ readSupported
  /\ polling' = TRUE
  /\ UNCHANGED <<stored, call, request, outcome, owner, line, readSupported,
                 writeSupported>>

PollEnd ==
  /\ polling
  /\ polling' = FALSE
  /\ readSupported' \in {TRUE, FALSE, readSupported}
  /\ UNCHANGED <<stored, call, request, outcome, owner, line, writeSupported>>

-----------------------------------------------------------------------------
Answered(c) ==
  \/ LoggedIn(c) \/ LoginFailed(c)
  \/ ReadListed(c) \/ ReadUnusable(c) \/ ReadUnavailable(c)
  \/ ReadFailed(c) \/ ReadRefused(c)
  \/ WriteAccepted(c) \/ WriteUnavailable(c) \/ WriteFailed(c)
  \/ WriteRefused(c)

Next ==
  \/ \E c \in Caller :
       Call(c) \/ Enter(c) \/ Answered(c)
         \/ CancelledWaiting(c) \/ CancelledInside(c)
  \/ PollStart \/ PollEnd

Spec == Init /\ [][Next]_vars

\* A free lock wakes its first waiter, and every request is answered or
\* times out.
Fairness ==
  \A c \in Caller : WF_vars(Enter(c)) /\ WF_vars(Answered(c))

FairSpec == Spec /\ Fairness

-----------------------------------------------------------------------------
(* Properties.                                                             *)

Request == [target : Target, update : Updates]
CallState == [stage : Stage, copy : Presented, attempt : 1..4,
              relogged : BOOLEAN]

TypeOK ==
  /\ stored \in [Target -> Document]
  /\ call \in [Caller -> CallState]
  /\ \A c \in Caller : call[c].attempt \in 1..Len(Attempts(request[c]))
  /\ request \in [Caller -> Request]
  /\ outcome \in [Caller -> Store!Outcome \cup {"none"}]
  /\ owner \in Caller \cup {NoOne}
  /\ line \in Seq(Caller)
  /\ polling \in BOOLEAN
  /\ readSupported \in BOOLEAN
  /\ writeSupported \in [Type -> BOOLEAN]

\* Whoever is about to write holds the document as it is on the NAS at that
\* moment: no other call can have changed it since it was read, whatever
\* re-logins, fallbacks, failures and cancellations lie between.
CopyIsCurrent ==
  \A c \in Caller :
    call[c].stage \in {"relogin", "write"} =>
      call[c].copy = Read(stored[MyTarget(c)])

\* Overlapping calls look to their callers as if each took effect at most
\* once and at one moment, on the document of that moment.
ImplementsStore == Store!StoreSpec

\* Every call ends: no failure, cancellation or refused session leaves the
\* lock taken.
EveryCallEnds ==
  \A c \in Caller : call[c].stage # "idle" ~> call[c].stage = "idle"
=============================================================================
