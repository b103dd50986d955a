------------------------------ MODULE ApiSession ------------------------------
(***************************************************************************)
(* The login the client's requests share (api_auth.py, api_transport.py),  *)
(* and the calls that use it: the storage read of a poll, power actions,   *)
(* updates, backup runs and snapshot creation (api_storage.py,             *)
(* api_system.py, api_updates.py, api_backup.py, api_snapshot.py).  Any    *)
(* number of tasks call, none waits for another: each that finds the flag  *)
(* down or its request refused logs in by itself, once per refusal, and    *)
(* the last login answer to come in is the one everybody uses.             *)
(*                                                                         *)
(* A session is known only as live or dead, the cross-site request token   *)
(* is left out, and a request is modelled when the NAS acts on it: one     *)
(* that was given up is not carried out later.                             *)
(*                                                                         *)
(* Of the NAS it is assumed that a login it accepts carries a TOKEN cookie *)
(* and that one it refuses or fails carries none: the client keeps what    *)
(* cookie it has when an answer brings no other, takes one from any answer *)
(* and raises the flag without looking at it.                              *)
(***************************************************************************)
EXTENDS Naturals

CONSTANTS
  Caller,   \* tasks
  Kinds,    \* the kinds of calls each task makes
  Paths     \* how many endpoints a snapshot can be created through

Actions == {"power", "update", "backup", "create"}
Kind == Actions \cup {"read"}

ASSUME SessionAssumption ==
  /\ Kinds \in [Caller -> SUBSET Kind]
  /\ Paths \in Nat \ {0}

VARIABLES
  apiKey,         \* the entry uses an API key: there are no sessions
  kicks,          \* a login on the NAS ends the account's other sessions
  credentials,    \* the NAS accepts the password or key
  granted,        \* ... and lets the account act; reading it always may
  authenticated,  \* _authenticated
  token,          \* _token_cookie: "none", or whether its session lives
  hint,           \* poweroff_permission_hint: "none", "yes" or "no"
  call,           \* how far each task's call has come
  effects,        \* history: how often a call's action was carried out
  excused,        \* history: a call may end in InvalidAuth
  outcome         \* how the last call of each task ended

nasVars == <<apiKey, kicks, credentials, granted>>
clientVars == <<authenticated, token, hint>>
vars == <<nasVars, clientVars, call, effects, excused, outcome>>

\* The awaits of a call: the console root and the login request, the login's
\* answer on its way, its body, the request itself, the metadata of a read.
Login == {"root", "login", "granted", "body"}
Stage == {"idle", "request", "metadata"} \cup Login
\* "failed" is CannotConnect or UnexpectedResponse.
Outcome == {"ok", "needless", "auth", "unsupported", "failed", "cancelled"}

Idle == [kind |-> "read", stage |-> "idle", again |-> FALSE, path |-> 1,
         sid |-> "dead", role |-> "none"]

Init ==
  /\ apiKey \in BOOLEAN /\ kicks \in BOOLEAN
  /\ credentials \in BOOLEAN /\ granted \in BOOLEAN
  /\ authenticated = apiKey /\ token = "none" /\ hint = "none"
  /\ call = [c \in Caller |-> Idle]
  /\ effects = [c \in Caller |-> 0]
  /\ excused = [c \in Caller |-> FALSE]
  /\ outcome = [c \in Caller |-> "none"]

-----------------------------------------------------------------------------
(* The steps of a call.                                                    *)

Ended(c, o) ==
  /\ call' = [call EXCEPT ![c] = [Idle EXCEPT !.kind = call[c].kind]]
  /\ outcome' = [outcome EXCEPT ![c] = o]

GoOn(c, state) ==
  /\ call' = [call EXCEPT ![c] = state]
  /\ outcome' = [outcome EXCEPT ![c] = "none"]

Excuse(S) == excused' = [c \in Caller |-> excused[c] \/ c \in S]

\* A request goes out with the cookie of this moment.
Requesting(kind, again, path) ==
  [Idle EXCEPT !.kind = kind, !.stage = "request", !.again = again,
               !.path = path, !.sid = IF token = "live" THEN "live" ELSE "dead"]

\* A power action is not even sent when the last login's answer said that the
\* account may not.
Proceed(c, kind, again, permission) ==
  IF kind = "power" /\ permission = "no"
  THEN /\ call' = [call EXCEPT ![c] = [Idle EXCEPT !.kind = kind]]
       /\ outcome' = [outcome EXCEPT ![c] = "auth"]
  ELSE GoOn(c, Requesting(kind, again, 1))

LoggingIn(kind, again) ==
  [Idle EXCEPT !.kind = kind, !.stage = "root", !.again = again]

Call(c) ==
  /\ call[c].stage = "idle"
  /\ \E kind \in Kinds[c] :
       IF authenticated \/ apiKey THEN Proceed(c, kind, FALSE, hint)
                                  ELSE GoOn(c, LoggingIn(kind, FALSE))
  /\ authenticated' = (authenticated \/ apiKey)
  /\ effects' = [effects EXCEPT ![c] = 0]
  /\ excused' = [excused EXCEPT ![c] = outcome'[c] = "auth"]
  /\ UNCHANGED <<nasVars, token, hint>>

-----------------------------------------------------------------------------
(* Logging in.                                                             *)

Dead(sid) == IF sid = "live" THEN "dead" ELSE sid
AllDead == [c \in Caller |-> [call[c] EXCEPT !.sid = Dead(@)]]
Underway == {c \in Caller : call[c].stage # "idle"}

\* The console root is fetched for its token; any answer will do.
RootAnswered(c) ==
  /\ call[c].stage = "root"
  /\ call' = [call EXCEPT ![c].stage = "login"]
  /\ UNCHANGED <<nasVars, clientVars, effects, excused, outcome>>

\* The NAS opens a session; its answer is on the way.
LoginGranted(c) ==
  /\ call[c].stage = "login" /\ credentials
  /\ \E role \in {"none", IF granted THEN "yes" ELSE "no"} :
       LET others == IF kicks THEN AllDead ELSE call
       IN  call' = [others EXCEPT ![c].stage = "granted", ![c].sid = "live",
                                  ![c].role = role]
  /\ token' = IF kicks THEN Dead(token) ELSE token
  /\ IF kicks THEN Excuse(Underway \ {c}) ELSE UNCHANGED excused
  /\ UNCHANGED <<nasVars, authenticated, hint, effects, outcome>>

CookieKept(c) == token
CookieAfterLogin(c) == call[c].sid

\* The cookie is taken from the answer's headers.  A late answer may carry a
\* session that has died meanwhile: then tasks that have just logged in, and
\* will not do so again, find themselves with it.
LoginCaptured(c) ==
  /\ call[c].stage = "granted"
  /\ token' = CookieAfterLogin(c)
  /\ call' = [call EXCEPT ![c].stage = "body"]
  /\ IF call[c].sid = "dead" THEN Excuse({d \in Underway : call[d].again})
                             ELSE UNCHANGED excused
  /\ UNCHANGED <<nasVars, authenticated, hint, effects, outcome>>

LoginDone(c) ==
  /\ call[c].stage = "body"
  /\ authenticated' = TRUE
  /\ hint' = call[c].role
  /\ Proceed(c, call[c].kind, call[c].again, call[c].role)
  /\ Excuse({d \in {c} : outcome'[d] = "auth"})
  /\ UNCHANGED <<nasVars, token, effects>>

LoginRefused(c) ==
  /\ call[c].stage = "login" /\ ~credentials
  /\ Ended(c, "auth")
  /\ Excuse({c})
  /\ UNCHANGED <<nasVars, clientVars, effects>>

\* An error status, a redirect, a lost connection or a timeout.
LoginFailed(c) ==
  /\ call[c].stage \in Login
  /\ Ended(c, "failed")
  /\ UNCHANGED <<nasVars, clientVars, effects, excused>>

-----------------------------------------------------------------------------
(* The answer to the request.                                              *)

Known(c) == IF apiKey THEN credentials ELSE call[c].sid = "live"
Denied(c) == call[c].kind \in Actions /\ ~granted
Heard(c) == call[c].stage = "request" /\ Known(c) /\ ~Denied(c)

CarriedOut(c) ==
  effects' = [effects EXCEPT ![c] = IF @ < 2 THEN @ + 1 ELSE 2]

Accepted(c) ==
  /\ Heard(c) /\ call[c].kind \in Actions
  /\ CarriedOut(c)
  /\ Ended(c, "ok")
  /\ UNCHANGED <<nasVars, clientVars, excused>>

StorageAnswered(c) ==
  /\ Heard(c) /\ call[c].kind = "read"
  /\ call' = [call EXCEPT ![c].stage = "metadata"]
  /\ UNCHANGED <<nasVars, clientVars, effects, excused, outcome>>

\* System and network metadata: whatever comes back, the read has succeeded.
MetadataAnswered(c) ==
  /\ call[c].stage = "metadata"
  /\ Ended(c, "ok")
  /\ UNCHANGED <<nasVars, clientVars, effects, excused>>

\* HTTP 409: there is nothing to update.
NothingNew(c) ==
  /\ Heard(c) /\ call[c].kind = "update"
  /\ Ended(c, "needless")
  /\ UNCHANGED <<nasVars, clientVars, effects, excused>>

NoRetry(c) == FALSE
MayRetry(c) == ~call[c].again

\* HTTP 401 or 403: log in again and repeat the call, once.
Refused(c) ==
  /\ call[c].stage = "request" /\ ~(Known(c) /\ ~Denied(c))
  /\ Excuse({d \in {c} : Denied(c) \/ apiKey})
  /\ \/ /\ MayRetry(c)
        /\ authenticated' = apiKey
        /\ GoOn(c, IF apiKey THEN Requesting(call[c].kind, TRUE, 1)
                             ELSE LoggingIn(call[c].kind, TRUE))
     \/ /\ ~MayRetry(c)
        /\ Ended(c, "auth")
        /\ UNCHANGED authenticated
  /\ UNCHANGED <<nasVars, token, hint, effects>>

OnePathTooMany(c) == call[c].kind = "create" /\ call[c].path <= Paths
MorePaths(c) == call[c].kind = "create" /\ call[c].path < Paths

\* HTTP 404 or 405: a snapshot is tried through the next endpoint.
Unavailable(c) ==
  /\ Heard(c)
  /\ \/ MorePaths(c)
        /\ GoOn(c, Requesting("create", call[c].again, call[c].path + 1))
     \/ /\ ~MorePaths(c)
        /\ Ended(c, IF call[c].kind \in {"read", "power"} THEN "failed"
                    ELSE "unsupported")
  /\ UNCHANGED <<nasVars, clientVars, effects, excused>>

\* Any other answer, one too long to read, a timeout or a lost connection: the
\* action may have been carried out.
RepeatAfterFailure(c) ==
  IF MayRetry(c) THEN GoOn(c, Requesting(call[c].kind, TRUE, 1))
                 ELSE Ended(c, "failed")
AfterFailure(c) ==
  Ended(c, IF call[c].kind \in {"update", "backup"} THEN "unsupported" ELSE "failed")

Failed(c) ==
  /\ call[c].stage = "request"
  /\ \/ Heard(c) /\ call[c].kind \in Actions /\ CarriedOut(c)
     \/ UNCHANGED effects
  /\ AfterFailure(c) \/ Ended(c, "failed")
  /\ UNCHANGED <<nasVars, clientVars, excused>>

\* The task is cancelled at any of its awaits.
Cancelled(c) ==
  /\ call[c].stage # "idle"
  /\ \/ Heard(c) /\ call[c].kind \in Actions /\ CarriedOut(c)
     \/ UNCHANGED effects
  /\ Ended(c, "cancelled")
  /\ UNCHANGED <<nasVars, clientVars, excused>>

-----------------------------------------------------------------------------
(* The NAS.                                                                *)

\* All sessions end: the console restarts, or they were too old.
Expire ==
  /\ ~apiKey
  /\ token' = Dead(token)
  /\ call' = AllDead
  /\ Excuse(Underway)
  /\ UNCHANGED <<nasVars, authenticated, hint, effects, outcome>>

CredentialsChange ==
  /\ credentials' = ~credentials
  /\ UNCHANGED <<apiKey, kicks, granted, clientVars, call, effects, excused,
                 outcome>>

RoleChanges ==
  /\ granted' = ~granted
  /\ UNCHANGED <<apiKey, kicks, credentials, clientVars, call, effects,
                 excused, outcome>>

-----------------------------------------------------------------------------
LoginAnswered(c) ==
  RootAnswered(c) \/ LoginGranted(c) \/ LoginCaptured(c) \/ LoginDone(c)
    \/ LoginRefused(c) \/ LoginFailed(c)
Answered(c) ==
  Accepted(c) \/ StorageAnswered(c) \/ MetadataAnswered(c) \/ NothingNew(c)
    \/ Refused(c) \/ Unavailable(c) \/ Failed(c)

Next ==
  \/ \E c \in Caller :
       Call(c) \/ LoginAnswered(c) \/ Answered(c) \/ Cancelled(c)
  \/ Expire \/ CredentialsChange \/ RoleChanges

Spec == Init /\ [][Next]_vars

\* Every request is answered or times out.
Fairness == \A c \in Caller : WF_vars(LoginAnswered(c) \/ Answered(c))

FairSpec == Spec /\ Fairness

-----------------------------------------------------------------------------
(* Properties.                                                             *)

CallState ==
  [kind : Kind, stage : Stage, again : BOOLEAN, path : 1..Paths,
   sid : {"live", "dead"}, role : {"none", "yes", "no"}]

TypeOK ==
  /\ apiKey \in BOOLEAN /\ kicks \in BOOLEAN
  /\ credentials \in BOOLEAN /\ granted \in BOOLEAN
  /\ authenticated \in BOOLEAN
  /\ token \in {"none", "live", "dead"}
  /\ hint \in {"none", "yes", "no"}
  /\ call \in [Caller -> CallState]
  /\ effects \in [Caller -> 0..2]
  /\ excused \in [Caller -> BOOLEAN]
  /\ outcome \in [Caller -> Outcome \cup {"none"}]

\* However often a call logs in, is refused, falls back to another endpoint
\* or fails, its action is carried out at most once; it has been when the
\* call returns, and it has not when InvalidAuth says it was refused.
ActionsOnce ==
  \A c \in Caller :
    /\ effects[c] <= 1
    /\ outcome[c] = "ok" => effects[c] = 1 \/ call[c].kind = "read"
    /\ outcome[c] \in {"auth", "needless"} => effects[c] = 0

Calls == INSTANCE ActionCalls
  WITH phase <- [c \in Caller |-> IF call[c].stage = "idle" THEN "idle" ELSE "open"],
       kind  <- [c \in Caller |-> call[c].kind],
       done  <- effects

\* Whatever requests, logins and repetitions a call is made of, its caller
\* sees one that acts once at most, as it returns, and whose ending tells
\* what became of the action.
ImplementsCalls == Calls!CallsSpec

\* InvalidAuth stops the polling and asks the user for new credentials.  One
\* login of its own is enough for a call to get through: it ends that way
\* only if the NAS refused the credentials or the action, or if sessions died
\* under it, by expiring or with a late login answer of another task.
AuthIsEarned ==
  \A c \in Caller : outcome[c] = "auth" => excused[c]

\* No request of a session user goes out before a login was answered: a
\* login that failed or was cancelled halfway does not count as one.
RequestsCarrySession ==
  authenticated \/ (\E c \in Caller : call[c].stage = "request")
    => apiKey \/ token # "none"

\* The NAS accepts the credentials, lets the account act and keeps sessions.
GoodTimes ==
  /\ ~kicks
  /\ <>[](credentials /\ granted)
  /\ <>[][~Expire]_vars

\* In good times calls stop ending in InvalidAuth, but for power actions:
\* what the last login said of the account is believed until the next login.
SessionRecovers ==
  GoodTimes =>
    <>[][\A c \in Caller :
           outcome[c] # "auth" /\ outcome'[c] = "auth"
             => call'[c].kind = "power" /\ hint' = "no"]_vars
=============================================================================
