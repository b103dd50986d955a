--------------------------- MODULE ApiSessionProofs ---------------------------
(***************************************************************************)
(* Proofs about the shared login, for any tasks, kinds of calls and number *)
(* of endpoints: its types, that no call's action is carried out twice,    *)
(* that InvalidAuth is earned, that requests carry a session, and that     *)
(* calls are to their callers what ActionCalls says.                       *)
(***************************************************************************)
EXTENDS ApiSession, TLAPS

\* A call under way has had no effect and no outcome: whatever a request
\* achieves ends its call.
NothingYet ==
  \A c \in Caller :
    call[c].stage # "idle" => effects[c] = 0 /\ outcome[c] = "none"

OnlyReadsHaveMetadata ==
  \A c \in Caller : call[c].stage = "metadata" => call[c].kind = "read"

\* Users of an API key never log in, and count as logged in.
KeysDoNotLogIn ==
  apiKey => \A c \in Caller : call[c].stage \notin Login

CookieBeforeBody ==
  \A c \in Caller : call[c].stage = "body" => token # "none"

\* The second login of a call holds, unless the call is excused.
SecondLoginHolds ==
  \A c \in Caller :
    call[c].again /\ ~excused[c] /\ ~apiKey =>
      /\ call[c].stage \in {"granted", "request"} => call[c].sid = "live"
      /\ call[c].stage \in {"body", "request"} => token = "live"

Effects == NothingYet /\ OnlyReadsHaveMetadata /\ ActionsOnce

Sessions ==
  /\ KeysDoNotLogIn
  /\ CookieBeforeBody
  /\ RequestsCarrySession
  /\ SecondLoginHolds
  /\ AuthIsEarned

IInv == TypeOK /\ Effects /\ Sessions

-----------------------------------------------------------------------------
(* Types.                                                                  *)

LEMMA KindsAreKinds == ASSUME NEW c \in Caller PROVE Kinds[c] \subseteq Kind
BY SessionAssumption

LEMMA FirstPath == 1 \in 1..Paths
BY SessionAssumption

LEMMA CallsWellTyped ==
  ASSUME NEW kind \in Kind, NEW again \in BOOLEAN, NEW path \in 1..Paths
  PROVE  /\ Requesting(kind, again, path) \in CallState
         /\ LoggingIn(kind, again) \in CallState
         /\ [Idle EXCEPT !.kind = kind] \in CallState
BY FirstPath DEF Requesting, LoggingIn, Idle, CallState, Stage, Login

LEMMA ProceedKeepsType ==
  ASSUME TypeOK, NEW c \in Caller, NEW kind \in Kind, NEW again \in BOOLEAN,
         NEW permission, Proceed(c, kind, again, permission)
  PROVE  /\ call' \in [Caller -> CallState]
         /\ outcome' \in [Caller -> Outcome \cup {"none"}]
<1> DEFINE local == [Idle EXCEPT !.kind = kind]
           sent == Requesting(kind, again, 1)
<1>1. local \in CallState /\ sent \in CallState
  BY FirstPath, CallsWellTyped
<1>2. \/ call' = [call EXCEPT ![c] = local]
         /\ outcome' = [outcome EXCEPT ![c] = "auth"]
      \/ call' = [call EXCEPT ![c] = sent]
         /\ outcome' = [outcome EXCEPT ![c] = "none"]
  BY DEF Proceed, GoOn
<1> HIDE DEF local, sent
<1> QED
  BY <1>1, <1>2 DEF TypeOK, Outcome

LEMMA EndedKeepsType ==
  ASSUME TypeOK, NEW c \in Caller, NEW o \in Outcome, Ended(c, o)
  PROVE  /\ call' \in [Caller -> CallState]
         /\ outcome' \in [Caller -> Outcome \cup {"none"}]
<1>1. call[c].kind \in Kind
  BY DEF TypeOK, CallState
<1> QED
  BY <1>1, FirstPath, CallsWellTyped DEF TypeOK, Ended

LEMMA GoOnKeepsType ==
  ASSUME TypeOK, NEW c \in Caller, NEW state \in CallState, GoOn(c, state)
  PROVE  /\ call' \in [Caller -> CallState]
         /\ outcome' \in [Caller -> Outcome \cup {"none"}]
BY DEF TypeOK, GoOn

LEMMA DeadSessions ==
  ASSUME TypeOK
  PROVE  /\ AllDead \in [Caller -> CallState]
         /\ \A c \in Caller : /\ AllDead[c].kind = call[c].kind
                              /\ AllDead[c].again = call[c].again
                              /\ AllDead[c].stage = call[c].stage
         /\ Dead(token) \in {"none", "dead"}
BY DEF TypeOK, AllDead, Dead, CallState

\* The other tasks' calls are left alone; a step of c is typed by its own.
LEMMA TypeStep == TypeOK /\ [Next]_vars => TypeOK'
<1> SUFFICES ASSUME TypeOK, [Next]_vars PROVE TypeOK'
  OBVIOUS
<1> USE DEF nasVars, clientVars
<1>1. ASSUME NEW c \in Caller, Call(c) PROVE TypeOK'
  <2>1. PICK kind \in Kind :
          \/ Proceed(c, kind, FALSE, hint)
          \/ GoOn(c, LoggingIn(kind, FALSE))
    BY <1>1, KindsAreKinds DEF Call
  <2>2. /\ call' \in [Caller -> CallState]
        /\ outcome' \in [Caller -> Outcome \cup {"none"}]
    BY <2>1, ProceedKeepsType, GoOnKeepsType, CallsWellTyped, FirstPath
  <2>3. excused' \in [Caller -> BOOLEAN]
    BY <1>1 DEF TypeOK, Call
  <2>4. effects' \in [Caller -> 0..2] /\ authenticated' \in BOOLEAN
    BY <1>1 DEF TypeOK, Call
  <2> QED
    BY <1>1, <2>2, <2>3, <2>4 DEF TypeOK, Call
<1>2. ASSUME NEW c \in Caller, LoginAnswered(c) PROVE TypeOK'
  <2>1. CASE RootAnswered(c)
    BY <2>1 DEF TypeOK, RootAnswered, CallState, Stage, Login
  <2>2. CASE LoginGranted(c)
    <3>1. PICK role \in {"none", "yes", "no"} :
            call' = [(IF kicks THEN AllDead ELSE call)
                       EXCEPT ![c].stage = "granted", ![c].sid = "live",
                              ![c].role = role]
      BY <2>2 DEF LoginGranted
    <3>2. PICK others \in [Caller -> CallState] :
            call' = [others EXCEPT ![c].stage = "granted", ![c].sid = "live",
                                   ![c].role = role]
      BY <3>1, DeadSessions DEF TypeOK
    <3>3. [others[c] EXCEPT !.stage = "granted", !.sid = "live", !.role = role]
            \in CallState
      BY <3>2 DEF CallState, Stage, Login
    <3>4. call' \in [Caller -> CallState]
      BY <3>2, <3>3
    <3>5. excused' \in [Caller -> BOOLEAN]
      BY <2>2 DEF TypeOK, LoginGranted, Excuse
    <3>6. token' \in {"none", "live", "dead"}
      BY <2>2, DeadSessions DEF TypeOK, LoginGranted
    <3> QED
      BY <2>2, <3>4, <3>5, <3>6 DEF TypeOK, LoginGranted
  <2>3. CASE LoginCaptured(c)
    <3>1. call' \in [Caller -> CallState]
      BY <2>3 DEF TypeOK, LoginCaptured, CallState, Stage, Login
    <3>2. token' \in {"live", "dead"}
      BY <2>3 DEF TypeOK, LoginCaptured, CookieAfterLogin, CallState
    <3>3. excused' \in [Caller -> BOOLEAN]
      BY <2>3 DEF TypeOK, LoginCaptured, Excuse
    <3> QED
      BY <2>3, <3>1, <3>2, <3>3 DEF TypeOK, LoginCaptured
  <2>4. CASE LoginDone(c)
    <3>1. /\ call[c].kind \in Kind /\ call[c].again \in BOOLEAN
          /\ call[c].role \in {"none", "yes", "no"}
      BY DEF TypeOK, CallState
    <3>2. /\ call' \in [Caller -> CallState]
          /\ outcome' \in [Caller -> Outcome \cup {"none"}]
      BY <2>4, <3>1, ProceedKeepsType DEF LoginDone
    <3> QED
      BY <2>4, <3>1, <3>2 DEF TypeOK, LoginDone, Excuse
  <2>5. CASE LoginRefused(c) \/ LoginFailed(c)
    <3>1. /\ call' \in [Caller -> CallState]
          /\ outcome' \in [Caller -> Outcome \cup {"none"}]
      BY <2>5, EndedKeepsType DEF LoginRefused, LoginFailed, Outcome
    <3> QED
      BY <2>5, <3>1 DEF TypeOK, LoginRefused, LoginFailed, Excuse
  <2> QED
    BY <1>2, <2>1, <2>2, <2>3, <2>4, <2>5 DEF LoginAnswered
<1>3. ASSUME NEW c \in Caller, Answered(c) PROVE TypeOK'
  <2>0. /\ call[c].kind \in Kind /\ call[c].again \in BOOLEAN
        /\ call[c].path \in 1..Paths
    BY DEF TypeOK, CallState
  <2>1. CASE Accepted(c) \/ MetadataAnswered(c) \/ NothingNew(c)
    <3>1. /\ call' \in [Caller -> CallState]
          /\ outcome' \in [Caller -> Outcome \cup {"none"}]
      BY <2>1, EndedKeepsType
         DEF Accepted, MetadataAnswered, NothingNew, Outcome
    <3> QED
      BY <2>1, <3>1
         DEF TypeOK, Accepted, MetadataAnswered, NothingNew, CarriedOut
  <2>2. CASE StorageAnswered(c)
    BY <2>2 DEF TypeOK, StorageAnswered, CallState, Stage
  <2>3. CASE Refused(c)
    <3>1. \/ GoOn(c, Requesting(call[c].kind, TRUE, 1))
          \/ GoOn(c, LoggingIn(call[c].kind, TRUE))
          \/ Ended(c, "auth")
      BY <2>3 DEF Refused
    <3>2. /\ call' \in [Caller -> CallState]
          /\ outcome' \in [Caller -> Outcome \cup {"none"}]
      BY <2>0, <3>1, CallsWellTyped, FirstPath, GoOnKeepsType, EndedKeepsType
         DEF Outcome
    <3> QED
      BY <2>3, <3>2 DEF TypeOK, Refused, Excuse
  <2>4. CASE Unavailable(c)
    <3>1. ASSUME MorePaths(c),
                 GoOn(c, Requesting("create", call[c].again, call[c].path + 1))
          PROVE  /\ call' \in [Caller -> CallState]
                 /\ outcome' \in [Caller -> Outcome \cup {"none"}]
      <4>1. call[c].path + 1 \in 1..Paths /\ "create" \in Kind
        BY <2>0, <3>1, SessionAssumption DEF MorePaths, Kind, Actions
      <4> QED
        BY <2>0, <3>1, <4>1, CallsWellTyped, GoOnKeepsType
    <3>2. ASSUME NEW o \in Outcome, Ended(c, o)
          PROVE  /\ call' \in [Caller -> CallState]
                 /\ outcome' \in [Caller -> Outcome \cup {"none"}]
      BY <3>2, EndedKeepsType
    <3>3. /\ call' \in [Caller -> CallState]
          /\ outcome' \in [Caller -> Outcome \cup {"none"}]
      BY <2>4, <3>1, <3>2 DEF Unavailable, Outcome
    <3> QED
      BY <2>4, <3>3 DEF TypeOK, Unavailable
  <2>5. CASE Failed(c)
    <3>1. PICK o \in Outcome : Ended(c, o)
      BY <2>5 DEF Failed, AfterFailure, Outcome
    <3>2. /\ call' \in [Caller -> CallState]
          /\ outcome' \in [Caller -> Outcome \cup {"none"}]
      BY <3>1, EndedKeepsType
    <3> QED
      BY <2>5, <3>2 DEF TypeOK, Failed, CarriedOut
  <2> QED
    BY <1>3, <2>1, <2>2, <2>3, <2>4, <2>5 DEF Answered
<1>4. ASSUME NEW c \in Caller, Cancelled(c) PROVE TypeOK'
  <2>1. /\ call' \in [Caller -> CallState]
        /\ outcome' \in [Caller -> Outcome \cup {"none"}]
    BY <1>4, EndedKeepsType DEF Cancelled, Outcome
  <2> QED
    BY <1>4, <2>1 DEF TypeOK, Cancelled, CarriedOut
<1>5. CASE Expire
  BY <1>5, DeadSessions DEF TypeOK, Expire, Excuse
<1>6. CASE CredentialsChange \/ RoleChanges
  BY <1>6 DEF TypeOK, CredentialsChange, RoleChanges
<1>7. CASE UNCHANGED vars
  BY <1>7 DEF TypeOK, vars
<1> QED
  BY <1>1, <1>2, <1>3, <1>4, <1>5, <1>6, <1>7 DEF Next

-----------------------------------------------------------------------------
(* What a step does to the task's own call, and that it is the only one.   *)

OthersKept(c) ==
  \A d \in Caller \ {c} : call'[d] = call[d] /\ outcome'[d] = outcome[d]

LEMMA EndedAt ==
  ASSUME TypeOK, NEW c \in Caller, NEW o, Ended(c, o)
  PROVE  /\ call'[c].stage = "idle" /\ call'[c].kind = call[c].kind
         /\ ~call'[c].again
         /\ outcome'[c] = o
         /\ OthersKept(c)
BY DEF TypeOK, Ended, Idle, OthersKept

LEMMA GoOnAt ==
  ASSUME TypeOK, NEW c \in Caller, NEW state, GoOn(c, state)
  PROVE  call'[c] = state /\ outcome'[c] = "none" /\ OthersKept(c)
BY DEF TypeOK, GoOn, OthersKept

\* A login that ends the others' sessions leaves their calls where they are.
LEMMA GrantedAt ==
  ASSUME TypeOK, NEW c \in Caller, LoginGranted(c)
  PROVE  /\ call[c].stage = "login" /\ call'[c].stage = "granted"
         /\ call'[c].sid = "live"
         /\ \A d \in Caller : /\ call'[d].kind = call[d].kind
                              /\ call'[d].again = call[d].again
         /\ \A d \in Caller \ {c} :
              /\ call'[d].stage = call[d].stage
              /\ ~kicks => call'[d] = call[d]
<1> DEFINE others == IF kicks THEN AllDead ELSE call
<1>1. PICK role \in {"none", "yes", "no"} :
        call' = [others EXCEPT ![c].stage = "granted", ![c].sid = "live",
                               ![c].role = role]
  BY DEF LoginGranted
<1>2. /\ others \in [Caller -> CallState]
      /\ \A d \in Caller : /\ others[d].kind = call[d].kind
                           /\ others[d].again = call[d].again
                           /\ others[d].stage = call[d].stage
                           /\ ~kicks => others[d] = call[d]
  BY DeadSessions DEF TypeOK, CallState
<1> HIDE DEF others
<1> QED
  BY <1>1, <1>2 DEF LoginGranted, CallState

LEMMA ProceedAt ==
  ASSUME TypeOK, NEW c \in Caller, NEW kind, NEW again, NEW permission,
         Proceed(c, kind, again, permission)
  PROVE  /\ \/ /\ call'[c].stage = "idle" /\ ~call'[c].again
               /\ outcome'[c] = "auth"
            \/ /\ call'[c].stage = "request" /\ call'[c].again = again
               /\ token = "live" => call'[c].sid = "live"
               /\ outcome'[c] = "none"
         /\ OthersKept(c)
<1>1. CASE kind = "power" /\ permission = "no"
  BY <1>1 DEF TypeOK, Proceed, Idle, OthersKept
<1>2. CASE ~(kind = "power" /\ permission = "no")
  <2> DEFINE request == Requesting(kind, again, 1)
  <2>1. /\ request.stage = "request" /\ request.again = again
        /\ token = "live" => request.sid = "live"
        /\ GoOn(c, request)
    BY <1>2 DEF Proceed, Requesting, Idle
  <2> HIDE DEF request
  <2> QED
    BY <2>1, GoOnAt
<1> QED
  BY <1>1, <1>2

-----------------------------------------------------------------------------
(* Actions are carried out once.                                           *)

LEMMA EffectsStep ==
  TypeOK /\ Effects /\ [Next]_vars => Effects'
<1> SUFFICES ASSUME TypeOK, Effects, [Next]_vars
             PROVE  Effects'
  OBVIOUS
<1> USE DEF nasVars, clientVars, Effects, NothingYet, OnlyReadsHaveMetadata,
            ActionsOnce
<1>1. ASSUME NEW c \in Caller, Call(c) PROVE Effects'
  <2>1. /\ OthersKept(c)
        /\ \/ call'[c].stage # "metadata" /\ outcome'[c] = "none"
           \/ call'[c].stage = "idle" /\ outcome'[c] = "auth"
    <3>1. PICK kind \in Kinds[c] : \/ Proceed(c, kind, FALSE, hint)
                                  \/ GoOn(c, LoggingIn(kind, FALSE))
      BY <1>1 DEF Call
    <3>2. CASE Proceed(c, kind, FALSE, hint)
      BY <3>2, ProceedAt
    <3>3. CASE GoOn(c, LoggingIn(kind, FALSE))
      <4> DEFINE login == LoggingIn(kind, FALSE)
      <4>1. login.stage = "root" /\ GoOn(c, login)
        BY <3>3 DEF LoggingIn, Idle
      <4> HIDE DEF login
      <4> QED
        BY <4>1, GoOnAt
    <3> QED
      BY <3>1, <3>2, <3>3
  <2>2. /\ effects'[c] = 0
        /\ \A d \in Caller \ {c} : effects'[d] = effects[d]
    BY <1>1 DEF TypeOK, Call
  <2> QED
    BY <2>1, <2>2 DEF OthersKept
<1>2. ASSUME NEW c \in Caller, LoginAnswered(c)
      PROVE  Effects'
  <2>1. CASE RootAnswered(c) \/ LoginCaptured(c)
    <3>1. /\ call[c].stage # "idle" /\ call'[c].stage # "metadata"
          /\ \A d \in Caller : call'[d].kind = call[d].kind
          /\ \A d \in Caller \ {c} : call'[d].stage = call[d].stage
      BY <2>1 DEF TypeOK, CallState, RootAnswered, LoginCaptured
    <3> QED
      BY <2>1, <3>1 DEF RootAnswered, LoginCaptured
  <2>2. CASE LoginGranted(c)
    <3>1. /\ call[c].stage # "idle" /\ call'[c].stage # "metadata"
          /\ \A d \in Caller : call'[d].kind = call[d].kind
          /\ \A d \in Caller \ {c} : call'[d].stage = call[d].stage
      BY <2>2, GrantedAt
    <3>2. effects' = effects /\ outcome' = outcome
      BY <2>2 DEF LoginGranted
    <3>3. effects[c] = 0 /\ outcome[c] = "none"
      BY <3>1
    <3> QED
      BY <3>1, <3>2, <3>3
  <2>3. CASE LoginDone(c)
    <3>1. /\ OthersKept(c)
          /\ \/ call'[c].stage # "metadata" /\ outcome'[c] = "none"
             \/ call'[c].stage = "idle" /\ outcome'[c] = "auth"
      BY <2>3, ProceedAt DEF LoginDone
    <3>2. effects[c] = 0 /\ effects' = effects
      BY <2>3 DEF LoginDone
    <3> QED
      BY <3>1, <3>2 DEF OthersKept
  <2>4. CASE LoginRefused(c) \/ LoginFailed(c)
    <3>1. effects[c] = 0 /\ effects' = effects
      BY <2>4 DEF LoginRefused, LoginFailed, Login
    <3>2. PICK o \in {"auth", "failed"} : Ended(c, o)
      BY <2>4 DEF LoginRefused, LoginFailed
    <3> QED
      BY <3>1, <3>2, EndedAt DEF OthersKept
  <2> QED
    BY <1>2, <2>1, <2>2, <2>3, <2>4 DEF LoginAnswered
<1>3. ASSUME NEW c \in Caller, Answered(c) \/ Cancelled(c)
      PROVE  Effects'
  <2>0. effects[c] = 0 /\ call[c].kind \in Kind
    BY <1>3 DEF Answered, Accepted, StorageAnswered, MetadataAnswered,
      NothingNew, Refused, Unavailable, Failed, Cancelled, Heard, TypeOK,
      CallState
  <2>1. CASE Accepted(c)
    <3>1. /\ effects'[c] = 1
          /\ \A d \in Caller \ {c} : effects'[d] = effects[d]
      BY <2>0, <2>1 DEF TypeOK, Accepted, CarriedOut
    <3> QED
      BY <2>1, <3>1, EndedAt DEF Accepted, OthersKept
  <2>2. CASE StorageAnswered(c)
    <3>1. /\ call[c].stage # "idle"
          /\ \A d \in Caller : call'[d].kind = call[d].kind
          /\ \A d \in Caller \ {c} : call'[d].stage = call[d].stage
      BY <2>2 DEF TypeOK, CallState, StorageAnswered, Heard
    <3> QED
      BY <2>2, <3>1 DEF StorageAnswered
  <2>3. CASE MetadataAnswered(c) \/ NothingNew(c)
    <3>1. /\ effects' = effects
          /\ \/ call[c].kind = "read" /\ Ended(c, "ok")
             \/ Ended(c, "needless")
      BY <2>3 DEF MetadataAnswered, NothingNew
    <3> QED
      BY <2>0, <3>1, EndedAt DEF OthersKept
  <2>4. CASE Refused(c)
    <3>1. /\ effects' = effects
          /\ \/ GoOn(c, Requesting(call[c].kind, TRUE, 1))
             \/ GoOn(c, LoggingIn(call[c].kind, TRUE))
             \/ Ended(c, "auth")
      BY <2>4 DEF Refused
    <3> DEFINE request == Requesting(call[c].kind, TRUE, 1)
               login == LoggingIn(call[c].kind, TRUE)
    <3>2. request.stage = "request" /\ login.stage = "root"
      BY DEF Requesting, LoggingIn, Idle
    <3>3. \/ GoOn(c, request) \/ GoOn(c, login) \/ Ended(c, "auth")
      BY <3>1
    <3> HIDE DEF request, login
    <3>4. \/ /\ OthersKept(c) /\ outcome'[c] = "none"
             /\ call'[c].stage \in {"request", "root"}
          \/ Ended(c, "auth")
      BY <3>2, <3>3, GoOnAt
    <3> QED
      BY <2>0, <3>1, <3>4, EndedAt DEF OthersKept
  <2>5. CASE Unavailable(c)
    <3>1. /\ effects' = effects
          /\ \/ GoOn(c, Requesting("create", call[c].again, call[c].path + 1))
             \/ \E o \in {"failed", "unsupported"} : Ended(c, o)
      BY <2>5 DEF Unavailable
    <3>2. CASE GoOn(c, Requesting("create", call[c].again, call[c].path + 1))
      <4> DEFINE request == Requesting("create", call[c].again, call[c].path + 1)
      <4>1. request.stage = "request"
        BY DEF Requesting, Idle
      <4> HIDE DEF request
      <4> QED
        BY <2>0, <3>1, <3>2, <4>1, GoOnAt DEF OthersKept, request
    <3>3. ASSUME NEW o \in {"failed", "unsupported"}, Ended(c, o)
          PROVE  Effects'
      BY <2>0, <3>1, <3>3, EndedAt DEF OthersKept
    <3> QED
      BY <3>1, <3>2, <3>3
  <2>6. CASE Failed(c) \/ Cancelled(c)
    <3>1. /\ effects'[c] <= 1
          /\ \A d \in Caller \ {c} : effects'[d] = effects[d]
      BY <2>0, <2>6 DEF TypeOK, Failed, Cancelled, CarriedOut
    <3>2. PICK o \in {"failed", "unsupported", "cancelled"} :
                 Ended(c, o)
      BY <2>6 DEF Failed, Cancelled, AfterFailure
    <3> QED
      BY <3>1, <3>2, EndedAt DEF OthersKept
  <2> QED
    BY <1>3, <2>1, <2>2, <2>3, <2>4, <2>5, <2>6 DEF Answered
<1>4. CASE Expire
  <2>1. \A d \in Caller : /\ call'[d].stage = call[d].stage
                          /\ call'[d].kind = call[d].kind
    BY <1>4, DeadSessions DEF TypeOK, CallState, Expire
  <2> QED
    BY <1>4, <2>1 DEF Expire
<1>5. CASE CredentialsChange \/ RoleChanges
  BY <1>5 DEF CredentialsChange, RoleChanges
<1>6. CASE UNCHANGED vars
  BY <1>6 DEF vars
<1> QED
  BY <1>1, <1>2, <1>3, <1>4, <1>5, <1>6 DEF Next

-----------------------------------------------------------------------------
(* Sessions.                                                               *)

\* What is to show of a step that leaves the cookie and the others alone.
LEMMA OwnStep ==
  ASSUME Sessions, NEW c \in Caller, OthersKept(c),
         apiKey' = apiKey, token' = token,
         authenticated' => authenticated \/ apiKey \/ token # "none",
         \A d \in Caller \ {c} : excused[d] => excused'[d],
         apiKey => call'[c].stage \notin Login,
         call'[c].stage = "body" => token # "none",
         call'[c].stage = "request" => apiKey \/ token # "none",
         call'[c].again /\ ~excused'[c] /\ ~apiKey =>
           /\ call'[c].stage \in {"granted", "request"}
                => call'[c].sid = "live"
           /\ call'[c].stage \in {"body", "request"} => token = "live",
         outcome'[c] = "auth" => excused'[c]
  PROVE  Sessions'
<1>1. KeysDoNotLogIn' /\ CookieBeforeBody'
  BY DEF Sessions, OthersKept, KeysDoNotLogIn, CookieBeforeBody
<1>2. RequestsCarrySession'
  BY DEF Sessions, OthersKept, RequestsCarrySession
<1>3. SecondLoginHolds'
  BY DEF Sessions, OthersKept, SecondLoginHolds
<1>4. AuthIsEarned'
  BY DEF Sessions, OthersKept, AuthIsEarned
<1> QED
  BY <1>1, <1>2, <1>3, <1>4 DEF Sessions

LEMMA EndedStep ==
  ASSUME TypeOK, Sessions, NEW c \in Caller, NEW o, Ended(c, o),
         apiKey' = apiKey, token' = token, authenticated' = authenticated,
         \A d \in Caller : excused[d] => excused'[d],
         o = "auth" => excused'[c]
  PROVE  Sessions'
<1>1. /\ call'[c].stage = "idle" /\ outcome'[c] = o /\ OthersKept(c)
  BY EndedAt
<1> QED
  BY <1>1, OwnStep DEF Login

LEMMA SessionStep == TypeOK /\ Sessions /\ [Next]_vars => Sessions'
<1> SUFFICES ASSUME TypeOK, Sessions, [Next]_vars PROVE Sessions'
  OBVIOUS
<1> USE DEF nasVars, clientVars
<1>1. ASSUME NEW c \in Caller, Call(c) PROVE Sessions'
  <2>1. PICK kind \in Kinds[c] :
          IF authenticated \/ apiKey THEN Proceed(c, kind, FALSE, hint)
                                     ELSE GoOn(c, LoggingIn(kind, FALSE))
    BY <1>1 DEF Call
  <2>2. /\ excused'[c] <=> outcome'[c] = "auth"
        /\ \A d \in Caller \ {c} : excused'[d] = excused[d]
    BY <1>1 DEF TypeOK, Call
  <2>3. CASE authenticated \/ apiKey
    <3>1. /\ OthersKept(c) /\ ~call'[c].again
          /\ call'[c].stage \in {"idle", "request"}
      <4> DEFINE first == FALSE
      <4>1. Proceed(c, kind, first, hint)
        BY <2>1, <2>3
      <4>2. ~first
        OBVIOUS
      <4> HIDE DEF first
      <4> QED
        BY <4>1, <4>2, ProceedAt
    <3> QED
      BY <1>1, <2>2, <2>3, <3>1, OwnStep
         DEF Call, Login, Sessions, RequestsCarrySession
  <2>4. CASE ~(authenticated \/ apiKey)
    <3> DEFINE login == LoggingIn(kind, FALSE)
    <3>1. login.stage = "root" /\ ~login.again /\ GoOn(c, login)
      BY <2>1, <2>4 DEF LoggingIn, Idle
    <3> HIDE DEF login
    <3>2. /\ OthersKept(c) /\ ~call'[c].again /\ call'[c].stage = "root"
          /\ outcome'[c] = "none"
      BY <3>1, GoOnAt
    <3> QED
      BY <1>1, <2>2, <2>4, <3>2, OwnStep DEF Call
  <2> QED
    BY <2>3, <2>4
<1>2. ASSUME NEW c \in Caller, LoginAnswered(c) PROVE Sessions'
  <2>1. CASE RootAnswered(c)
    <3>1. /\ call[c].stage \in Login
          /\ OthersKept(c) /\ call'[c].stage = "login"
          /\ outcome' = outcome /\ excused' = excused
      BY <2>1 DEF TypeOK, CallState, RootAnswered, OthersKept, Login
    <3> QED
      BY <2>1, <3>1, OwnStep
         DEF RootAnswered, Sessions, KeysDoNotLogIn, RequestsCarrySession,
             AuthIsEarned
  <2>2. CASE LoginGranted(c)
    <3>1. /\ call[c].stage = "login"
          /\ call'[c].stage = "granted" /\ call'[c].sid = "live"
          /\ \A d \in Caller \ {c} : call'[d].stage = call[d].stage
      BY <2>2, GrantedAt
    <3>2. /\ apiKey' <=> apiKey
          /\ authenticated' <=> authenticated
          /\ outcome' = outcome
      BY <2>2 DEF LoginGranted
    <3>t. token # "none" => token' # "none"
      BY <2>2 DEF LoginGranted, Dead
    <3>e. \A d \in Caller : excused[d] => excused'[d]
      BY <2>2 DEF LoginGranted, Excuse
    <3>3. KeysDoNotLogIn' /\ CookieBeforeBody' /\ AuthIsEarned'
      BY <3>1, <3>2, <3>t, <3>e DEF Sessions, KeysDoNotLogIn,
        CookieBeforeBody, AuthIsEarned, Login
    <3>4. RequestsCarrySession'
      BY <3>1, <3>2, <3>t DEF Sessions, RequestsCarrySession
    <3>5. SecondLoginHolds'
      <4>1. CASE kicks
        <5>1. \A d \in Caller \ {c} : call[d].stage # "idle" => excused'[d]
          BY <2>2, <4>1 DEF LoginGranted, Excuse, Underway
        <5> QED
          BY <3>1, <5>1 DEF SecondLoginHolds
      <4>2. CASE ~kicks
        <5>1. /\ token' = token
              /\ \A d \in Caller \ {c} : call'[d] = call[d]
          BY <2>2, <4>2, GrantedAt DEF LoginGranted
        <5> QED
          BY <3>1, <3>2, <3>e, <5>1 DEF Sessions, SecondLoginHolds
      <4> QED
        BY <4>1, <4>2
    <3> QED
      BY <3>3, <3>4, <3>5 DEF Sessions
  <2>3. CASE LoginCaptured(c)
    <3>1. /\ call[c].stage = "granted" /\ call'[c].stage = "body"
          /\ call'[c].again = call[c].again
          /\ \A d \in Caller \ {c} : call'[d] = call[d]
      BY <2>3 DEF TypeOK, CallState, LoginCaptured
    <3>2. /\ apiKey' = apiKey /\ authenticated' = authenticated
          /\ outcome' = outcome
          /\ token' = call[c].sid /\ token' \in {"live", "dead"}
          /\ \A d \in Caller : excused[d] => excused'[d]
          /\ \A d \in Caller :
               token' = "dead" /\ call[d].again /\ call[d].stage # "idle"
                 => excused'[d]
      BY <2>3 DEF TypeOK, CallState, LoginCaptured, CookieAfterLogin, Excuse,
                  Underway
    <3>3. KeysDoNotLogIn' /\ CookieBeforeBody' /\ AuthIsEarned'
      BY <3>1, <3>2 DEF Sessions, KeysDoNotLogIn, CookieBeforeBody,
        AuthIsEarned, Login
    <3>4. RequestsCarrySession'
      BY <3>2 DEF RequestsCarrySession
    <3>5. SecondLoginHolds'
      BY <3>1, <3>2 DEF Sessions, SecondLoginHolds
    <3> QED
      BY <3>3, <3>4, <3>5 DEF Sessions
  <2>4. CASE LoginDone(c)
    <3>1. /\ call[c].stage = "body" /\ token # "none" /\ ~apiKey
          /\ call[c].again /\ ~excused[c] => token = "live"
      BY <2>4 DEF LoginDone, Sessions, KeysDoNotLogIn, CookieBeforeBody,
                  SecondLoginHolds, Login
    <3>2. /\ OthersKept(c)
          /\ \/ /\ call'[c].stage = "idle" /\ ~call'[c].again
                /\ outcome'[c] = "auth"
             \/ /\ call'[c].stage = "request"
                /\ call'[c].again = call[c].again
                /\ token = "live" => call'[c].sid = "live"
                /\ outcome'[c] = "none"
      BY <2>4, ProceedAt DEF LoginDone
    <3>3. /\ \A d \in Caller : excused[d] => excused'[d]
          /\ outcome'[c] = "auth" => excused'[c]
      BY <2>4 DEF LoginDone, Excuse
    <3>4. apiKey' = apiKey /\ token' = token
      BY <2>4 DEF LoginDone
    <3> QED
      BY <3>1, <3>2, <3>3, <3>4, OwnStep DEF Login
  <2>5. CASE LoginRefused(c) \/ LoginFailed(c)
    <3>1. \A d \in Caller : excused[d] => excused'[d]
      BY <2>5 DEF LoginRefused, LoginFailed, Excuse
    <3>2. \/ Ended(c, "auth") /\ excused'[c]
          \/ Ended(c, "failed")
      BY <2>5 DEF LoginRefused, LoginFailed, Excuse
    <3> QED
      BY <2>5, <3>1, <3>2, EndedStep DEF LoginRefused, LoginFailed
  <2> QED
    BY <1>2, <2>1, <2>2, <2>3, <2>4, <2>5 DEF LoginAnswered
<1>3. ASSUME NEW c \in Caller, Answered(c) PROVE Sessions'
  <2>1. CASE Accepted(c) \/ MetadataAnswered(c) \/ NothingNew(c)
    <3>1. Ended(c, "ok") \/ Ended(c, "needless")
      BY <2>1 DEF Accepted, MetadataAnswered, NothingNew
    <3> QED
      BY <2>1, <3>1, EndedStep DEF Accepted, MetadataAnswered, NothingNew
  <2>2. CASE StorageAnswered(c)
    <3>1. /\ OthersKept(c) /\ call'[c].stage = "metadata"
          /\ outcome' = outcome /\ excused' = excused
      BY <2>2 DEF TypeOK, CallState, StorageAnswered, OthersKept
    <3> QED
      BY <2>2, <3>1, OwnStep
         DEF StorageAnswered, Sessions, RequestsCarrySession, AuthIsEarned,
             Login
  <2>3. CASE Refused(c)
    <3>1. /\ apiKey' = apiKey /\ token' = token
          /\ call[c].stage = "request"
          /\ \A d \in Caller : excused[d] => excused'[d]
          /\ Denied(c) \/ apiKey => excused'[c]
      BY <2>3 DEF Refused, Excuse
    <3>2. CASE ~MayRetry(c)
      <4>1. ~apiKey /\ ~excused[c] => Known(c)
        BY <3>1, <3>2 DEF MayRetry, Known, Sessions, SecondLoginHolds
      <4>2. excused'[c]
        BY <2>3, <3>1, <4>1 DEF Refused
      <4>3. Ended(c, "auth") /\ authenticated' = authenticated
        BY <2>3, <3>2 DEF Refused
      <4> QED
        BY <3>1, <4>2, <4>3, EndedStep
    <3>3. CASE MayRetry(c) /\ apiKey
      <4> DEFINE request == Requesting(call[c].kind, TRUE, 1)
      <4>1. request.stage = "request" /\ GoOn(c, request)
        BY <2>3, <3>3 DEF Refused, Requesting, Idle
      <4> HIDE DEF request
      <4>2. /\ call'[c].stage = "request" /\ outcome'[c] = "none"
            /\ OthersKept(c)
        BY <4>1, GoOnAt
      <4> QED
        BY <3>1, <3>3, <4>2, OwnStep DEF Login
    <3>4. CASE MayRetry(c) /\ ~apiKey
      <4> DEFINE login == LoggingIn(call[c].kind, TRUE)
      <4>1. login.stage = "root" /\ GoOn(c, login) /\ ~authenticated'
        BY <2>3, <3>4 DEF Refused, LoggingIn, Idle
      <4> HIDE DEF login
      <4>2. /\ call'[c].stage = "root" /\ outcome'[c] = "none"
            /\ OthersKept(c)
        BY <4>1, GoOnAt
      <4> QED
        BY <3>1, <3>4, <4>1, <4>2, OwnStep
    <3> QED
      BY <3>2, <3>3, <3>4
  <2>4. CASE Unavailable(c)
    <3>1. /\ apiKey' = apiKey /\ token' = token
          /\ authenticated' = authenticated /\ excused' = excused
          /\ call[c].stage = "request"
      BY <2>4 DEF Unavailable, Heard
    <3>2. ASSUME NEW o \in {"failed", "unsupported"}, Ended(c, o)
          PROVE  Sessions'
      BY <3>1, <3>2, EndedStep
    <3>3. CASE GoOn(c, Requesting("create", call[c].again, call[c].path + 1))
      <4> DEFINE request == Requesting("create", call[c].again, call[c].path + 1)
      <4>1. /\ request.stage = "request" /\ request.again = call[c].again
            /\ token = "live" => request.sid = "live"
            /\ GoOn(c, request)
        BY <3>3 DEF Requesting, Idle
      <4> HIDE DEF request
      <4>2. /\ call'[c].stage = "request" /\ outcome'[c] = "none"
            /\ call'[c].again = call[c].again
            /\ token = "live" => call'[c].sid = "live"
            /\ OthersKept(c)
        BY <4>1, GoOnAt
      <4>3. /\ apiKey \/ token # "none"
            /\ call[c].again /\ ~excused[c] /\ ~apiKey => token = "live"
        BY <3>1 DEF Sessions, RequestsCarrySession, SecondLoginHolds
      <4> QED
        BY <3>1, <4>2, <4>3, OwnStep DEF Login
    <3> QED
      BY <2>4, <3>2, <3>3 DEF Unavailable
  <2>5. CASE Failed(c)
    <3>1. PICK o \in {"failed", "unsupported"} : Ended(c, o)
      BY <2>5 DEF Failed, AfterFailure
    <3> QED
      BY <2>5, <3>1, EndedStep DEF Failed
  <2> QED
    BY <1>3, <2>1, <2>2, <2>3, <2>4, <2>5 DEF Answered
<1>4. ASSUME NEW c \in Caller, Cancelled(c) PROVE Sessions'
  BY <1>4, EndedStep DEF Cancelled
<1>5. CASE Expire
  <2>1. \A d \in Caller : call'[d].stage = call[d].stage
    BY <1>5, DeadSessions DEF Expire
  <2>2. /\ apiKey' <=> apiKey
        /\ authenticated' <=> authenticated
        /\ outcome' = outcome
    BY <1>5 DEF Expire
  <2>3. token # "none" => token' # "none"
    BY <1>5 DEF Expire, Dead
  <2>4. \A d \in Caller : excused[d] \/ call[d].stage # "idle" => excused'[d]
    BY <1>5 DEF Expire, Excuse, Underway
  <2>5. KeysDoNotLogIn' /\ CookieBeforeBody' /\ AuthIsEarned'
    BY <2>1, <2>2, <2>3, <2>4 DEF Sessions, KeysDoNotLogIn,
      CookieBeforeBody, AuthIsEarned, Login
  <2>6. RequestsCarrySession'
    BY <2>1, <2>2, <2>3 DEF Sessions, RequestsCarrySession
  <2>7. SecondLoginHolds'
    BY <2>1, <2>4 DEF SecondLoginHolds
  <2> QED
    BY <2>5, <2>6, <2>7 DEF Sessions
<1>6. CASE CredentialsChange \/ RoleChanges
  BY <1>6 DEF CredentialsChange, RoleChanges, Sessions, KeysDoNotLogIn,
    CookieBeforeBody, AuthIsEarned, RequestsCarrySession, SecondLoginHolds
<1>7. CASE UNCHANGED vars
  BY <1>7 DEF vars, Sessions, KeysDoNotLogIn, CookieBeforeBody, AuthIsEarned,
    RequestsCarrySession, SecondLoginHolds
<1> QED
  BY <1>1, <1>2, <1>3, <1>4, <1>5, <1>6, <1>7 DEF Next

-----------------------------------------------------------------------------
(* The theorems.                                                           *)

LEMMA InitEstablishes == Init => IInv
<1> SUFFICES ASSUME Init PROVE IInv
  OBVIOUS
<1> USE DEF Init
<1>1. TypeOK
  <2>1. Idle \in CallState
    BY FirstPath DEF Idle, CallState, Kind, Actions, Stage, Login
  <2> QED
    BY <2>1 DEF TypeOK
<1>2. \A c \in Caller : call[c].stage = "idle" /\ ~call[c].again
  BY DEF Idle
<1>3. Effects
  BY <1>2 DEF Effects, NothingYet, OnlyReadsHaveMetadata, ActionsOnce
<1>4. Sessions
  BY <1>2 DEF Sessions, KeysDoNotLogIn, CookieBeforeBody, AuthIsEarned,
    RequestsCarrySession, SecondLoginHolds, Login
<1> QED
  BY <1>1, <1>3, <1>4 DEF IInv

LEMMA InvariantHolds == Spec => []IInv
<1>1. IInv /\ [Next]_vars => IInv'
  BY TypeStep, EffectsStep, SessionStep DEF IInv
<1> QED
  BY <1>1, InitEstablishes, PTL DEF Spec

\* The client, the calls and the NAS's sessions keep their types.
THEOREM TypeCorrect == Spec => []TypeOK
<1>1. IInv => TypeOK
  BY DEF IInv
<1> QED
  BY <1>1, InvariantHolds, PTL

\* No call's action is carried out twice, however its requests are refused,
\* repeated after a login, led to another endpoint, lost or cancelled.
THEOREM ActionsAreDoneOnce == Spec => []ActionsOnce
<1>1. IInv => ActionsOnce
  BY DEF IInv, Effects
<1> QED
  BY <1>1, InvariantHolds, PTL

\* A call ends in InvalidAuth only for a reason: a refusal that is not about
\* sessions, or a session that died under it.
THEOREM InvalidAuthIsEarned == Spec => []AuthIsEarned
<1>1. IInv => AuthIsEarned
  BY DEF IInv, Sessions
<1> QED
  BY <1>1, InvariantHolds, PTL

\* The client takes itself to be logged in, and sends requests, only with a
\* cookie from an answered login.
THEOREM SessionsAreCarried == Spec => []RequestsCarrySession
<1>1. IInv => RequestsCarrySession
  BY DEF IInv, Sessions
<1> QED
  BY <1>1, InvariantHolds, PTL
-----------------------------------------------------------------------------
(* A call implements the promise made to its caller.                       *)

\* A step inside a call, or of the NAS, is not seen by any caller.
LEMMA UnseenStep ==
  ASSUME effects' = effects, outcome' = outcome,
         \A d \in Caller : /\ call'[d].kind = call[d].kind
                           /\ call'[d].stage = "idle" <=> call[d].stage = "idle"
  PROVE  UNCHANGED Calls!callVars
BY DEF Calls!callVars

LEMMA OwnUnseenStep ==
  ASSUME TypeOK, NothingYet, NEW c \in Caller, call[c].stage # "idle",
         NEW state, GoOn(c, state),
         state.stage # "idle", state.kind = call[c].kind, effects' = effects
  PROVE  UNCHANGED Calls!callVars
<1>1. outcome' = outcome
  BY DEF TypeOK, NothingYet, GoOn
<1>2. \A d \in Caller : /\ call'[d].kind = call[d].kind
                        /\ call'[d].stage = "idle" <=> call[d].stage = "idle"
  BY DEF TypeOK, GoOn
<1> QED
  BY <1>1, <1>2, UnseenStep

LEMMA RequestOf ==
  ASSUME NEW kind, NEW again, NEW path
  PROVE  /\ Requesting(kind, again, path).kind = kind
         /\ Requesting(kind, again, path).stage = "request"
         /\ LoggingIn(kind, again).kind = kind
         /\ LoggingIn(kind, again).stage = "root"
BY DEF Requesting, LoggingIn, Idle

\* The end of a call is the return its caller sees.
LEMMA SeenReturn ==
  ASSUME TypeOK, NothingYet, NEW c \in Caller, call[c].stage # "idle",
         NEW o \in Calls!Endings(call[c].kind), Ended(c, o),
         NEW n \in Calls!Times(call[c].kind, o), n \in Nat,
         effects' = [effects EXCEPT ![c] = n]
  PROVE  Calls!CallsNext
<1> DEFINE seen(x)  == IF x.stage = "idle" THEN "idle" ELSE "open"
           phase    == [d \in Caller |-> seen(call[d])]
           kind     == [d \in Caller |-> call[d].kind]
           ended    == [Idle EXCEPT !.kind = call[c].kind]
<1>1. /\ call' = [call EXCEPT ![c] = ended]
      /\ outcome' = [outcome EXCEPT ![c] = o]
  BY DEF Ended
<1>2. ended.stage = "idle" /\ ended.kind = call[c].kind
  BY DEF Idle
<1> HIDE DEF ended
<1>3. /\ phase[c] = "open"
      /\ [d \in Caller |-> seen(call'[d])] = [phase EXCEPT ![c] = "idle"]
  BY <1>1, <1>2 DEF TypeOK
<1>4. [d \in Caller |-> call'[d].kind] = kind
  BY <1>1, <1>2 DEF TypeOK
<1>5. kind[c] = call[c].kind /\ effects[c] + n = n
  BY DEF NothingYet
<1>6. Calls!Return(c)
  BY <1>1, <1>3, <1>4, <1>5 DEF Calls!Return
<1> QED
  BY <1>6 DEF Calls!CallsNext

\* ... also when it leaves open whether the action was carried out.
LEMMA SeenFailure ==
  ASSUME TypeOK, NothingYet, NEW c \in Caller, call[c].stage # "idle",
         NEW o \in Calls!Endings(call[c].kind), Ended(c, o),
         Calls!Times(call[c].kind, o) = {0, 1} \/ call[c].kind = "read",
         \/ call[c].kind \in Actions /\ CarriedOut(c)
         \/ UNCHANGED effects
  PROVE  Calls!CallsNext
<1>1. CASE call[c].kind \in Actions /\ CarriedOut(c)
  <2>1. effects' = [effects EXCEPT ![c] = 1]
    <3>1. effects[c] = 0 /\ 0 < 2 /\ 0 + 1 = 1
      BY DEF NothingYet
    <3>2. effects' = [effects EXCEPT ![c] = IF effects[c] < 2 THEN effects[c] + 1 ELSE 2]
      BY <1>1 DEF CarriedOut
    <3>3. (IF effects[c] < 2 THEN effects[c] + 1 ELSE 2) = 1
      BY <3>1
    <3> QED
      BY <3>2, <3>3, Zenon
  <2>2. 1 \in Calls!Times(call[c].kind, o)
    BY <1>1 DEF Actions
  <2> QED
    BY <2>1, <2>2, SeenReturn
<1>2. CASE UNCHANGED effects
  <2>1. effects' = [effects EXCEPT ![c] = 0]
    BY <1>2 DEF NothingYet, TypeOK
  <2>2. 0 \in Calls!Times(call[c].kind, o)
    BY DEF Calls!Times
  <2> QED
    BY <2>1, <2>2, SeenReturn
<1> QED
  BY <1>1, <1>2

\* A call that ends without having acted.
LEMMA SeenRefusal ==
  ASSUME TypeOK, NothingYet, NEW c \in Caller, call[c].stage # "idle",
         NEW o \in Calls!Endings(call[c].kind), Ended(c, o),
         o # "ok" \/ call[c].kind = "read", UNCHANGED effects
  PROVE  Calls!CallsNext
<1>1. effects' = [effects EXCEPT ![c] = 0]
  BY DEF NothingYet, TypeOK
<1>2. 0 \in Calls!Times(call[c].kind, o)
  BY DEF Calls!Times
<1> QED
  BY <1>1, <1>2, SeenReturn

LEMMA CallSeen ==
  ASSUME TypeOK, NEW c \in Caller, Call(c)
  PROVE  Calls!CallsNext
<1> DEFINE seen(x)  == IF x.stage = "idle" THEN "idle" ELSE "open"
           phase    == [d \in Caller |-> seen(call[d])]
           kinds    == [d \in Caller |-> call[d].kind]
<1>1. PICK kind \in Kinds[c] : \/ Proceed(c, kind, FALSE, hint)
                              \/ GoOn(c, LoggingIn(kind, FALSE))
  BY DEF Call
<1>2. effects' = [effects EXCEPT ![c] = 0] /\ phase[c] = "idle" /\ phase[c] # "open"
  BY DEF Call
<1>3. ASSUME NEW state, GoOn(c, state), state.stage # "idle", state.kind = kind
      PROVE  Calls!Call(c)
  <2>1. /\ call' = [call EXCEPT ![c] = state]
        /\ outcome' = [outcome EXCEPT ![c] = "none"]
    BY <1>3 DEF GoOn
  <2>2. [d \in Caller |-> seen(call'[d])] = [phase EXCEPT ![c] = "open"]
    BY <1>3, <2>1 DEF TypeOK
  <2>3. [d \in Caller |-> call'[d].kind] = [kinds EXCEPT ![c] = kind]
    BY <1>3, <2>1 DEF TypeOK
  <2> QED
    BY <1>2, <2>1, <2>2, <2>3 DEF Calls!Call, Calls!Begin
<1>4. CASE Proceed(c, kind, FALSE, hint) /\ kind = "power" /\ hint = "no"
  <2> DEFINE ended == [Idle EXCEPT !.kind = kind]
  <2>1. /\ call' = [call EXCEPT ![c] = ended]
        /\ outcome' = [outcome EXCEPT ![c] = "auth"]
    BY <1>4 DEF Proceed
  <2>2. ended.stage = "idle" /\ ended.kind = "power"
    BY <1>4 DEF Idle
  <2> HIDE DEF ended
  <2>3. [d \in Caller |-> seen(call'[d])] = phase
    BY <1>2, <2>1, <2>2 DEF TypeOK
  <2>4. [d \in Caller |-> call'[d].kind] = [kinds EXCEPT ![c] = "power"]
    BY <2>1, <2>2 DEF TypeOK
  <2>5. Calls!Forbid(c)
    BY <1>2, <1>4, <2>1, <2>3, <2>4 DEF Calls!Forbid, Calls!Begin
  <2> QED
    BY <2>5 DEF Calls!CallsNext
<1>5. CASE \/ Proceed(c, kind, FALSE, hint) /\ ~(kind = "power" /\ hint = "no")
           \/ GoOn(c, LoggingIn(kind, FALSE))
  <2>1. PICK state \in {Requesting(kind, FALSE, 1), LoggingIn(kind, FALSE)} :
          GoOn(c, state)
    BY <1>5 DEF Proceed
  <2>2. state.stage # "idle" /\ state.kind = kind
    BY DEF Requesting, LoggingIn, Idle
  <2> QED
    BY <1>3, <2>1, <2>2 DEF Calls!CallsNext
<1> QED
  BY <1>1, <1>4, <1>5

LEMMA LoginSeen ==
  ASSUME IInv, NEW c \in Caller, LoginAnswered(c)
  PROVE  [Calls!CallsNext]_Calls!callVars
<1> USE DEF IInv, Effects, nasVars, clientVars
<1>1. CASE RootAnswered(c)
  BY <1>1, UnseenStep DEF RootAnswered, TypeOK
<1>2. CASE LoginGranted(c)
  <2>1. \A d \in Caller : /\ call'[d].kind = call[d].kind
                          /\ call'[d].stage = "idle" <=> call[d].stage = "idle"
    BY <1>2, GrantedAt
  <2> QED
    BY <1>2, <2>1, UnseenStep DEF LoginGranted
<1>3. CASE LoginCaptured(c)
  BY <1>3, UnseenStep DEF LoginCaptured, TypeOK
<1>4. CASE LoginDone(c)
  <2>1. call[c].stage = "body" /\ UNCHANGED effects
    BY <1>4 DEF LoginDone
  <2>2. CASE call[c].kind = "power" /\ call[c].role = "no"
    <3>1. Ended(c, "auth")
      BY <1>4, <2>2 DEF LoginDone, Proceed, Ended
    <3>2. "auth" \in Calls!Endings(call[c].kind)
      BY DEF Calls!Endings
    <3> QED
      BY <2>1, <3>1, <3>2, SeenRefusal
  <2>3. CASE ~(call[c].kind = "power" /\ call[c].role = "no")
    <3>1. GoOn(c, Requesting(call[c].kind, call[c].again, 1))
      BY <1>4, <2>3 DEF LoginDone, Proceed
    <3> QED
      BY <2>1, <3>1, RequestOf, OwnUnseenStep
  <2> QED
    BY <2>2, <2>3
<1>5. CASE LoginRefused(c)
  <2>1. "auth" \in Calls!Endings(call[c].kind)
    BY DEF Calls!Endings
  <2> QED
    BY <1>5, <2>1, SeenRefusal DEF LoginRefused
<1>6. CASE LoginFailed(c)
  <2>1. "failed" \in Calls!Endings(call[c].kind)
    BY DEF Calls!Endings
  <2> QED
    BY <1>6, <2>1, SeenRefusal DEF LoginFailed, Login
<1> QED
  BY <1>1, <1>2, <1>3, <1>4, <1>5, <1>6 DEF LoginAnswered

LEMMA AnswerSeen ==
  ASSUME IInv, NEW c \in Caller, Answered(c)
  PROVE  [Calls!CallsNext]_Calls!callVars
<1> USE DEF IInv, Effects, nasVars, clientVars, Heard
<1> DEFINE k == call[c].kind
<1>0. k \in Kind
  BY DEF TypeOK, CallState
<1>1. CASE Accepted(c)
  <2>1. "ok" \in Calls!Endings(k)
    BY DEF Calls!Endings
  <2>2. /\ effects[c] = 0 /\ k \in Actions /\ k # "read"
        /\ effects' = [effects EXCEPT ![c] = IF effects[c] < 2 THEN effects[c] + 1 ELSE 2]
    BY <1>1 DEF Accepted, CarriedOut, NothingYet, Actions
  <2>3. (IF effects[c] < 2 THEN effects[c] + 1 ELSE 2) = 1
    BY <2>2
  <2>4. effects' = [effects EXCEPT ![c] = 1]
    BY <2>2, <2>3, Zenon
  <2>5. 1 \in Calls!Times(k, "ok")
    BY <2>2 DEF Calls!Times, Calls!NotDone
  <2> QED
    BY <1>1, <2>1, <2>4, <2>5, SeenReturn DEF Accepted
<1>2. CASE StorageAnswered(c)
  BY <1>2, UnseenStep DEF StorageAnswered, TypeOK
<1>3. CASE MetadataAnswered(c)
  <2>1. "ok" \in Calls!Endings(k)
    BY DEF Calls!Endings
  <2>2. k = "read"
    BY <1>3 DEF MetadataAnswered, OnlyReadsHaveMetadata
  <2> QED
    BY <1>3, <2>1, <2>2, SeenRefusal DEF MetadataAnswered
<1>4. CASE NothingNew(c)
  <2>1. "needless" \in Calls!Endings(k)
    BY <1>4 DEF Calls!Endings, NothingNew
  <2> QED
    BY <1>4, <2>1, SeenRefusal DEF NothingNew
<1>5. CASE Refused(c)
  <2>1. call[c].stage = "request" /\ UNCHANGED effects
    BY <1>5 DEF Refused
  <2>2. "auth" \in Calls!Endings(k)
    BY DEF Calls!Endings
  <2>3. \/ GoOn(c, Requesting(k, TRUE, 1))
        \/ GoOn(c, LoggingIn(k, TRUE))
        \/ Ended(c, "auth")
    BY <1>5 DEF Refused
  <2>4. CASE GoOn(c, Requesting(k, TRUE, 1))
    <3>1. Requesting(k, TRUE, 1).stage # "idle" /\ Requesting(k, TRUE, 1).kind = k
      BY DEF Requesting, Idle
    <3> QED
      BY <2>1, <2>4, <3>1, OwnUnseenStep
  <2>5. CASE GoOn(c, LoggingIn(k, TRUE))
    <3>1. LoggingIn(k, TRUE).stage # "idle" /\ LoggingIn(k, TRUE).kind = k
      BY RequestOf
    <3> QED
      BY <2>1, <2>5, <3>1, OwnUnseenStep
  <2>6. CASE Ended(c, "auth")
    BY <2>1, <2>2, <2>6, SeenRefusal
  <2> QED
    BY <2>3, <2>4, <2>5, <2>6
<1>6. CASE Unavailable(c)
  <2>1. call[c].stage = "request" /\ UNCHANGED effects
    BY <1>6 DEF Unavailable
  <2>2. CASE MorePaths(c) /\ GoOn(c, Requesting("create", call[c].again, call[c].path + 1))
    <3>1. k = "create"
      BY <2>2 DEF MorePaths
    <3> QED
      BY <2>1, <2>2, <3>1, RequestOf, OwnUnseenStep
  <2>3. CASE k \in {"read", "power"} /\ Ended(c, "failed")
    <3>1. "failed" \in Calls!Endings(k)
      BY DEF Calls!Endings
    <3> QED
      BY <2>1, <2>3, <3>1, SeenRefusal
  <2>4. CASE k \notin {"read", "power"} /\ Ended(c, "unsupported")
    <3>1. "unsupported" \in Calls!Endings(k)
      BY <1>0, <2>4 DEF Calls!Endings, Kind, Actions
    <3> QED
      BY <2>1, <2>4, <3>1, SeenRefusal
  <2> QED
    BY <1>6, <2>2, <2>3, <2>4 DEF Unavailable
<1>7. CASE Failed(c)
  <2>1. /\ call[c].stage = "request"
        /\ (k \in Actions /\ CarriedOut(c)) \/ UNCHANGED effects
        /\ AfterFailure(c) \/ Ended(c, "failed")
    BY <1>7 DEF Failed
  <2>2. ASSUME NEW o \in {"failed", "unsupported"}, Ended(c, o),
               o = "unsupported" => k \in {"update", "backup"}
        PROVE  Calls!CallsNext
    <3>1. o \in Calls!Endings(k)
      BY <2>2 DEF Calls!Endings
    <3>2. Calls!Times(k, o) = {0, 1} \/ k = "read"
      BY <2>2 DEF Calls!Times, Calls!NotDone
    <3> QED
      BY <2>1, <2>2, <3>1, <3>2, SeenFailure
  <2>3. \/ Ended(c, "failed")
        \/ k \in {"update", "backup"} /\ Ended(c, "unsupported")
    BY <2>1 DEF AfterFailure
  <2> QED
    BY <2>2, <2>3
<1> QED
  BY <1>1, <1>2, <1>3, <1>4, <1>5, <1>6, <1>7 DEF Answered

LEMMA CancelSeen ==
  ASSUME IInv, NEW c \in Caller, Cancelled(c)
  PROVE  Calls!CallsNext
<1>1. "cancelled" \in Calls!Endings(call[c].kind)
  BY DEF Calls!Endings
<1>2. Calls!Times(call[c].kind, "cancelled") = {0, 1} \/ call[c].kind = "read"
  BY DEF Calls!Times, Calls!NotDone
<1>3. TypeOK /\ NothingYet
  BY DEF IInv, Effects
<1> QED
  BY <1>1, <1>2, <1>3, SeenFailure DEF Cancelled

LEMMA StepSeen == IInv /\ [Next]_vars => [Calls!CallsNext]_Calls!callVars
<1> SUFFICES ASSUME IInv, [Next]_vars PROVE [Calls!CallsNext]_Calls!callVars
  OBVIOUS
<1>0. TypeOK
  BY DEF IInv
<1>1. ASSUME NEW c \in Caller, Call(c) PROVE Calls!CallsNext
  BY <1>0, <1>1, CallSeen
<1>2. CASE Expire
  <2>1. \A d \in Caller : call'[d].kind = call[d].kind /\ call'[d].stage = call[d].stage
    BY <1>0, <1>2, DeadSessions DEF Expire
  <2> QED
    BY <1>2, <2>1, UnseenStep DEF Expire
<1>3. CASE CredentialsChange \/ RoleChanges
  BY <1>3, UnseenStep DEF CredentialsChange, RoleChanges
<1>4. CASE UNCHANGED vars
  BY <1>4, UnseenStep DEF vars
<1> QED
  BY <1>1, <1>2, <1>3, <1>4, LoginSeen, AnswerSeen, CancelSeen DEF Next

(* Logging in, being refused, repeating a request and falling back to       *)
(* another endpoint are not seen by a caller: its action is carried out     *)
(* once at most, in the step in which the call returns, and the ending      *)
(* tells what became of it (api_auth.py, api_system.py, api_updates.py,     *)
(* api_backup.py, api_snapshot.py).                                         *)
THEOREM CallsAreKept == Spec => ImplementsCalls
<1>1. Init => Calls!CallsInit
  BY DEF Init, Idle, Calls!CallsInit
<1>2. IInv /\ [Next]_vars => [Calls!CallsNext]_Calls!callVars
  BY StepSeen
<1> QED
  BY <1>1, <1>2, InvariantHolds, PTL DEF Spec, ImplementsCalls, Calls!CallsSpec
===============================================================================
