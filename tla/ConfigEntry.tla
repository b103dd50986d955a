----------------------------- MODULE ConfigEntry -----------------------------
(***************************************************************************)
(* A config entry's life: discovery, the flows that create and change it,  *)
(* setup, the update listener that reloads it, restarts (config_flow.py,   *)
(* config_flow_validation.py, config_flow_schema.py, entry_options.py,     *)
(* entry_reload.py, __init__.py).  Flows and the setup wait for the        *)
(* console, and meanwhile the entry, the console's address and its         *)
(* password change.                                                        *)
(*                                                                         *)
(* Home Assistant's part (flow manager, setup lock, listener tasks, retry  *)
(* timer) is modelled from how the integration uses it.  Of the options    *)
(* only Wake-on-LAN is kept: its MAC, or None while it is off.             *)
(***************************************************************************)
EXTENDS DiscoveryIdentity

CONSTANTS
  Entry,      \* places for entries, in the order they are listed
  Flow,       \* places for flows
  Password,
  Typed,      \* MACs users give for Wake-on-LAN
  Tells,      \* what a validation of each console may learn
  MaxEvents   \* bound on what users and the network do

ASSUME EntryAssumption ==
  /\ Entry \subseteq Nat /\ None \notin Entry \cup Password
  /\ Typed \subseteq Console
  /\ Tells \in [Console -> SUBSET Told]
  /\ MaxEvents \in Nat

VARIABLES
  at,         \* the console that answers at each address
  accepts,    \* the password each console accepts
  entry,      \* the stored entries
  life,       \* how far the setup of each has come
  runtime,    \* what the client of each was made from; the reload signature
  listening,  \* an update listener task is scheduled
  reloading,  \* async_reload waits for the setup lock
  flow,       \* the flows in progress
  events,     \* how much has happened (bound)
  vouched,    \* history: the console that last validated each entry's settings
  saved,      \* history: the settings the user last stored
  raced,      \* history: a flow wrote over settings stored since it began
  late        \* history: settings were stored during the first poll

worldVars == <<at, accepts>>
userVars == <<vouched, saved, raced>>
setupVars == <<life, runtime, reloading>>
vars == <<worldVars, entry, setupVars, listening, flow, events, userVars, late>>

NoEntry == [uid |-> None, host |-> None, password |-> None, wol |-> None,
            mac |-> None, aliases |-> {}]
NoRuntime == [host |-> None, password |-> None, wol |-> None,
              signature |-> None, online |-> FALSE]
NoFlow == [kind |-> "none", step |-> "form", entry |-> None,
           device |-> [host |-> None, mac |-> None], host |-> None,
           password |-> None, before |-> NoEntry, uid |-> None, mac |-> None,
           console |-> None]

Life == {"none", "due", "polling", "platforms", "loaded", "retry", "error"}
Stored == {s \in Entry : entry[s] # NoEntry}
Free == {f \in Flow : flow[f] = NoFlow}

\* The parts of an entry that matter to what runs: metadata does not.
Settings(e) == <<e.host, e.password, e.wol>>

\* async_update_entry: a registered listener gets a task if anything changed.
Update(s, e) ==
  /\ entry' = [entry EXCEPT ![s] = e]
  /\ listening' = [listening EXCEPT
       ![s] = @ \/ (e # entry[s] /\ life[s] \in {"platforms", "loaded"})]
  /\ late' = [late EXCEPT
       ![s] = @ \/ (Settings(e) # Settings(entry[s]) /\ life[s] = "polling")]

Keep == UNCHANGED <<entry, listening, late>>

Event == events < MaxEvents /\ events' = events + 1

\* An entry as one of the flows below leaves it.
Entries(c, h) ==
  {[uid |-> InfoUid(told, c, h), host |-> h, password |-> accepts[c],
    wol |-> wol, mac |-> mac, aliases |-> {h}] :
     told \in Tells[c], wol \in Typed \cup {None}, mac \in {None, c}}

\* Home Assistant starts, with one entry or none.
Init ==
  /\ at \in [Host -> MaybeConsole] /\ accepts \in [Console -> Password]
  /\ \A g, h \in Host : at[g] = at[h] /\ at[g] # None => g = h
  /\ \/ entry = [s \in Entry |-> NoEntry]
     \/ \E s \in Entry, h \in {g \in Host : at[g] # None} :
          \E e \in Entries(at[h], h) :
            /\ \A t \in Entry : s <= t
            /\ entry = [t \in Entry |-> IF t = s THEN e ELSE NoEntry]
  /\ life = [s \in Entry |-> IF entry[s] = NoEntry THEN "none" ELSE "due"]
  /\ runtime = [s \in Entry |-> NoRuntime]
  /\ listening = [s \in Entry |-> FALSE]
  /\ reloading = [s \in Entry |-> FALSE]
  /\ flow = [f \in Flow |-> NoFlow]
  /\ events = 0
  /\ vouched = [s \in Entry |->
       IF entry[s] = NoEntry THEN None ELSE at[entry[s].host]]
  /\ saved = [s \in Entry |-> Settings(entry[s])]
  /\ raced = [s \in Entry |-> FALSE]
  /\ late = [s \in Entry |-> FALSE]

-----------------------------------------------------------------------------
(* Setup, reload, restart.                                                 *)

\* Pending zeroconf flows of this entry are aborted, except those the user has
\* begun to fill in.
WithoutDuplicates(e) ==
  [f \in Flow |->
     IF /\ flow[f].kind = "zeroconf" /\ flow[f].step = "form"
        /\ FlowIsOf(e, flow[f].device)
     THEN NoFlow ELSE flow[f]]

\* A console answers at this address, and takes this password.
Answers(host, password) ==
  at[host] # None /\ accepts[at[host]] = password
Refuses(host, password) ==
  at[host] # None /\ accepts[at[host]] # password

\* An entry without a MAC takes the one Wake-on-LAN uses.
Backfilled(e) == [e EXCEPT !.mac = IF @ = None THEN e.wol ELSE @]

\* The client is made from the entry as it is now, a MAC is filled in from the
\* options, and the first poll goes out.
SetUp(s) ==
  /\ \/ life[s] \in {"due", "retry"}
     \/ reloading[s] /\ life[s] \in {"loaded", "error"}
  /\ LET e == Backfilled(entry[s]) IN
     /\ entry' = [entry EXCEPT ![s] = e]
     /\ flow' = WithoutDuplicates(e)
     /\ runtime' = [runtime EXCEPT
          ![s] = [NoRuntime EXCEPT !.host = e.host, !.password = e.password,
                                   !.wol = e.wol]]
  /\ life' = [life EXCEPT ![s] = "polling"]
  /\ reloading' = [reloading EXCEPT ![s] = FALSE]
  /\ late' = [late EXCEPT ![s] = FALSE]
  /\ UNCHANGED <<worldVars, listening, events, userVars>>

\* The setup goes on: identity metadata is recorded, the reload signature is
\* that of the entry as it is now, the listener is added.
GoOn(s, online, mac) ==
  /\ entry' = [entry EXCEPT ![s] = IF mac = None THEN @ ELSE Recorded(@, mac)]
  /\ runtime' = [runtime EXCEPT ![s].online = online,
                                ![s].signature = Settings(entry'[s])]
  /\ life' = [life EXCEPT ![s] = "platforms"]
  /\ UNCHANGED flow

\* A reauth flow for this entry, unless a flow of its already waits.
StartReauth(s) ==
  IF \E f \in Flow : flow[f].entry = s THEN UNCHANGED flow
  ELSE \E f \in Free :
         flow' = [flow EXCEPT ![f] = [NoFlow EXCEPT !.kind = "reauth", !.entry = s]]

GiveUp(s, state) ==
  /\ life' = [life EXCEPT ![s] = state]
  /\ runtime' = [runtime EXCEPT ![s] = NoRuntime]
  /\ UNCHANGED entry

FirstPoll(s) ==
  LET r == runtime[s] IN
  /\ life[s] = "polling"
  /\ \/ /\ Answers(r.host, r.password)
        /\ \E mac \in {None, at[r.host]} : GoOn(s, TRUE, mac)
     \/ Refuses(r.host, r.password) /\ StartReauth(s) /\ GiveUp(s, "error")
     \* no connection: with Wake-on-LAN the setup goes on
     \/ r.wol # None /\ GoOn(s, FALSE, None)
     \/ r.wol = None /\ GiveUp(s, "retry") /\ UNCHANGED flow
  /\ UNCHANGED <<worldVars, listening, reloading, events, userVars, late>>

PlatformsSetUp(s) ==
  /\ life[s] = "platforms"
  /\ \/ /\ life' = [life EXCEPT ![s] = "loaded"]
        /\ flow' = WithoutDuplicates(entry[s])
        /\ UNCHANGED <<entry, runtime>>
     \/ GiveUp(s, "error") /\ UNCHANGED flow
  /\ UNCHANGED <<worldVars, listening, reloading, events, userVars, late>>

\* The cleanups that follow 5, 15 and 30 seconds after the setup.
CleanUp(s) ==
  /\ life[s] = "loaded"
  /\ flow' = WithoutDuplicates(entry[s])
  /\ UNCHANGED <<worldVars, entry, setupVars, listening, events, userVars, late>>

Poll(s) ==
  LET r == runtime[s] IN
  /\ life[s] = "loaded"
  /\ \/ /\ Answers(r.host, r.password)
        /\ runtime' = [runtime EXCEPT ![s].online = TRUE] /\ UNCHANGED flow
     \/ Refuses(r.host, r.password) /\ StartReauth(s) /\ UNCHANGED runtime
     \/ runtime' = [runtime EXCEPT ![s].online = FALSE] /\ UNCHANGED flow
  /\ UNCHANGED <<worldVars, entry, life, reloading, listening, events, userVars,
                 late>>

SignatureOfAddress(s) ==
  /\ life[s] \in {"platforms", "loaded"}
  /\ runtime[s].signature[1] = entry[s].host

\* Only metadata changed, or an earlier task has seen the change.
SignatureKept(s) ==
  /\ life[s] \in {"platforms", "loaded"}
  /\ runtime[s].signature = Settings(entry[s])

\* The update listener: only what its signature covers asks for a reload.
Listener(s) ==
  /\ listening[s]
  /\ listening' = [listening EXCEPT ![s] = FALSE]
  /\ reloading' = [reloading EXCEPT ![s] = @ \/ ~SignatureKept(s)]
  /\ runtime' = IF life[s] \in {"platforms", "loaded"}
                THEN [runtime EXCEPT ![s].signature = Settings(entry[s])]
                ELSE runtime
  /\ UNCHANGED <<worldVars, entry, life, flow, events, userVars, late>>

EverythingDue(s) == "due"
AfterRestart(s) == IF s \in Stored THEN "due" ELSE "none"

\* Home Assistant restarts: what is stored stays.
Restart ==
  /\ Event
  /\ life' = [s \in Entry |-> AfterRestart(s)]
  /\ runtime' = [s \in Entry |-> NoRuntime]
  /\ listening' = [s \in Entry |-> FALSE]
  /\ reloading' = [s \in Entry |-> FALSE]
  /\ flow' = [f \in Flow |-> NoFlow]
  /\ UNCHANGED <<worldVars, entry, userVars, late>>

-----------------------------------------------------------------------------
(* Discovery.                                                              *)

\* The first entry a device matches takes its observation.
FirstMatch(s, d) ==
  /\ s \in Stored /\ Matches(entry[s], d)
  /\ \A t \in Stored : Matches(entry[t], d) => s <= t

Seen(s, d) == FirstMatch(s, d) /\ Update(s, Observed(entry[s], d)) /\ UNCHANGED flow

\* Also an announcement from before the console moved.
Announce(d) ==
  /\ Event
  /\ \/ \E s \in Entry : Seen(s, d)
     \/ /\ \A s \in Stored : ~Matches(entry[s], d)
        /\ \A f \in Flow : flow[f].uid # DiscoveryUid(d)
        /\ \E f \in Free :
             flow' = [flow EXCEPT ![f] =
               [NoFlow EXCEPT !.kind = "zeroconf", !.device = d,
                              !.uid = DiscoveryUid(d)]]
        /\ Keep
  /\ UNCHANGED <<worldVars, setupVars, userVars>>

\* What a scan finds is offered, but for the devices that are configured.
Offered == {d \in Device : \A s \in Stored : ~Matches(entry[s], d)}

\* The user adds a console: a scan finds a device, or the address is typed in.
Add ==
  /\ Event
  /\ \/ \E d \in Device, s \in Entry : Seen(s, d)
     \/ \E f \in Free, d \in Offered \cup {NoFlow.device} :
          /\ flow' = [flow EXCEPT ![f] = [NoFlow EXCEPT !.kind = "user", !.device = d]]
          /\ Keep
  /\ UNCHANGED <<worldVars, setupVars, userVars>>

-----------------------------------------------------------------------------
(* The flows that ask the console.                                         *)

Reconfigure(s) ==
  /\ Event
  /\ s \in Stored
  /\ \E f \in Free :
       flow' = [flow EXCEPT ![f] = [NoFlow EXCEPT !.kind = "reconfigure", !.entry = s]]
  /\ Keep /\ UNCHANGED <<worldVars, setupVars, userVars>>

\* The form is sent and validated.  Reauth keeps the address; a password left
\* blank is the stored one.  `before' is the entry as the form handler read it.
Submit(f) ==
  LET x == flow[f]
      old == IF x.entry = None THEN NoEntry ELSE entry[x.entry] IN
  /\ x.kind # "none" /\ x.step = "form"
  /\ \E h \in IF x.kind = "reauth" THEN {old.host}
              ELSE IF x.device.host # None THEN {x.device.host} ELSE Host,
        p \in IF x.kind = "reconfigure" THEN Password \cup {old.password}
              ELSE Password :
       flow' = [flow EXCEPT ![f].step = "validating", ![f].host = h,
                            ![f].password = p, ![f].before = old]
  /\ Keep /\ UNCHANGED <<worldVars, setupVars, events, userVars>>

Failed(f) ==
  /\ flow[f].step = "validating"
  /\ flow' = [flow EXCEPT ![f].step = "form", ![f].host = None,
                          ![f].password = None, ![f].before = NoEntry]
  /\ Keep /\ UNCHANGED <<worldVars, setupVars, events, userVars>>

Ended(f) == flow' = [flow EXCEPT ![f] = NoFlow]

ConfiguredFallback(told, c, h) == \E s \in Stored : IsFallback(entry[s], h)
Configured(told, c, h) ==
  \E s \in Stored : ValidatedDevice(entry[s], told, c, h)

\* A new console, unless an entry has one of its ids: on to the features form.
\* An announced MAC is preferred to the system's.
Validated(f, told, mac) ==
  LET x == flow[f]  c == at[x.host] IN
  /\ x.kind \in {"user", "zeroconf"}
  /\ IF Configured(told, c, x.host) THEN Ended(f)
     ELSE flow' = [flow EXCEPT
            ![f].step = "features", ![f].uid = InfoUid(told, c, x.host),
            ![f].mac = IF x.device.mac # None THEN x.device.mac ELSE mac,
            ![f].console = c]
  /\ Keep /\ UNCHANGED userVars

OldWithCredentials(e, x) == [x.before EXCEPT !.password = x.password]
WithCredentials(e, x) == [e EXCEPT !.password = x.password]

\* New credentials for the entry as it is now.
Reauthenticated(f, told) ==
  LET x == flow[f]  s == x.entry  e == entry[s] IN
  /\ x.kind = "reauth"
  /\ Ended(f)
  /\ IF UidMatches(e, told, at[x.host], x.host)
     THEN /\ Update(s, WithCredentials(e, x))
          /\ vouched' = [vouched EXCEPT ![s] = at[x.host]]
          /\ saved' = [saved EXCEPT ![s] = <<e.host, x.password, e.wol>>]
          /\ raced' = [raced EXCEPT ![s] = @ \/ e.host # x.before.host
                                             \/ e.password # x.before.password]
     ELSE Keep /\ UNCHANGED userVars

\* Everything the form handler had read is written back with the new address.
Merged(e, x) ==
  [e EXCEPT !.host = x.host, !.password = x.password, !.wol = x.before.wol,
            !.mac = IF x.before.mac # None THEN x.before.mac ELSE @,
            !.aliases = x.before.aliases]

Reconnected(f, told) ==
  LET x == flow[f]  s == x.entry  e == entry[s] IN
  /\ x.kind = "reconfigure"
  /\ IF ValidatedDevice(e, told, at[x.host], x.host)
     THEN /\ Ended(f)
          /\ Update(s, Merged(e, x))
          /\ vouched' = [vouched EXCEPT ![s] = at[x.host]]
          /\ saved' = [saved EXCEPT ![s] = <<x.host, x.password, e.wol>>]
          /\ raced' = [raced EXCEPT ![s] = @ \/ Settings(e) # Settings(x.before)]
     ELSE /\ flow' = [flow EXCEPT ![f].step = "form", ![f].host = None,
                                  ![f].password = None, ![f].before = NoEntry]
          /\ Keep /\ UNCHANGED userVars

\* The console answered, with as much about itself as was to be had.
Answered(f) ==
  LET x == flow[f] IN
  /\ x.step = "validating" /\ Answers(x.host, x.password)
  /\ \E told \in Tells[at[x.host]] :
       \/ \E mac \in {m \in {None, at[x.host]} : told \in {"host", "mac"} =>
                                                 (m = None <=> told = "host")} :
            Validated(f, told, mac)
       \/ Reauthenticated(f, told)
       \/ Reconnected(f, told)
  /\ UNCHANGED <<worldVars, setupVars, events>>

\* The entry is created; other flows for the same unique id are aborted.
Create(f, wol) ==
  LET x == flow[f] IN
  /\ x.step = "features"
  /\ \E s \in Entry \ Stored :
       /\ \A t \in Entry \ Stored : s <= t
       /\ entry' = [entry EXCEPT ![s] =
            [uid |-> x.uid, host |-> x.host, password |-> x.password, wol |-> wol,
             mac |-> x.mac,
             aliases |-> {x.host} \cup ({x.device.host} \ {None})]]
       /\ life' = [life EXCEPT ![s] = "due"]
       /\ vouched' = [vouched EXCEPT ![s] = x.console]
       /\ saved' = [saved EXCEPT ![s] = <<x.host, x.password, wol>>]
  /\ flow' = [g \in Flow |-> IF flow[g].uid = x.uid THEN NoFlow ELSE flow[g]]
  /\ UNCHANGED <<worldVars, runtime, reloading, listening, events, raced, late>>

Abandon(f) ==
  /\ flow[f].kind # "none" /\ flow[f].step # "validating"
  /\ Ended(f)
  /\ Keep /\ UNCHANGED <<worldVars, setupVars, events, userVars>>

-----------------------------------------------------------------------------
(* Options, and what the network does.                                     *)

\* Switching Wake-on-LAN off is refused while the console is offline: the
\* reload could not bring the entry back.
WouldStrand(s, wol) ==
  /\ wol = None
  /\ IF life[s] \in {"platforms", "loaded"} THEN ~runtime[s].online
     ELSE life[s] \in {"retry", "error"}

\* The features half of the reconfigure flow writes what the options flow does.
WithFeatures(e, wol) == [e EXCEPT !.wol = wol]

SaveFeatures(s, wol) ==
  /\ Event
  /\ s \in Stored /\ ~WouldStrand(s, wol)
  /\ Update(s, WithFeatures(entry[s], wol))
  /\ saved' = [saved EXCEPT ![s] = <<entry[s].host, entry[s].password, wol>>]
  /\ UNCHANGED <<worldVars, setupVars, flow, vouched, raced>>

Move(g, h) ==
  /\ Event /\ g # h
  /\ at' = [at EXCEPT ![g] = at[h], ![h] = at[g]]
  /\ Keep /\ UNCHANGED <<accepts, setupVars, flow, userVars>>

ChangePassword(c, p) ==
  /\ Event
  /\ accepts' = [accepts EXCEPT ![c] = p]
  /\ Keep /\ UNCHANGED <<at, setupVars, flow, userVars>>

Next ==
  \/ \E s \in Entry :
       \/ SetUp(s) \/ FirstPoll(s) \/ PlatformsSetUp(s) \/ CleanUp(s) \/ Poll(s)
       \/ Listener(s) \/ Reconfigure(s)
       \/ \E wol \in Typed \cup {None} : SaveFeatures(s, wol)
  \/ \E f \in Flow :
       \/ Submit(f) \/ Failed(f) \/ Answered(f) \/ Abandon(f)
       \/ \E wol \in Typed \cup {None} : Create(f, wol)
  \/ \E d \in Device : Announce(d)
  \/ \E g, h \in Host : Move(g, h)
  \/ \E c \in Console, p \in Password : ChangePassword(c, p)
  \/ Add \/ Restart

Spec == Init /\ [][Next]_vars

-----------------------------------------------------------------------------
(* Properties.                                                             *)

EntryType ==
  [uid : Uid, host : Host, password : Password, wol : MaybeConsole,
   mac : MaybeConsole, aliases : SUBSET Host] \cup {NoEntry}

FlowType ==
  [kind : {"none", "user", "zeroconf", "reauth", "reconfigure"},
   step : {"form", "validating", "features"}, entry : Entry \cup {None},
   device : Device \cup {NoFlow.device}, host : Host \cup {None},
   password : Password \cup {None}, before : EntryType,
   uid : Uid \cup {None}, mac : MaybeConsole, console : MaybeConsole]

\* Every variable holds the shape of value the code keeps in it.
TypeOK ==
  /\ at \in [Host -> MaybeConsole] /\ accepts \in [Console -> Password]
  /\ entry \in [Entry -> EntryType]
  /\ life \in [Entry -> Life]
  /\ \A s \in Entry : life[s] = "none" <=> entry[s] = NoEntry
  /\ listening \in [Entry -> BOOLEAN] /\ reloading \in [Entry -> BOOLEAN]
  /\ flow \in [Flow -> FlowType]
  /\ events \in 0..MaxEvents

\* A loaded entry runs with the settings that are stored, or is about to be
\* reloaded (_async_config_entry_updated: "Reload the config entry after
\* options or data changes").  Only what was stored while the first poll of
\* this very runtime was out is missed: the signature is taken after it.
RunsAsStored ==
  \A s \in Entry :
    life[s] = "loaded" /\ ~listening[s] /\ ~reloading[s] =>
      /\ runtime[s].signature = Settings(entry[s])
      /\ ~late[s] => Settings(runtime[s]) = Settings(entry[s])

\* No unique id is used twice, whatever discovery, flows that overlap and
\* moved addresses do (_any_unique_id_configured, set_unique_id): a console has
\* a second entry only if it told less, or more, about itself that time.
UniqueIds ==
  \A s, t \in Stored : s # t => entry[s].uid # entry[t].uid

\* Reauth and reconfigure never hand an entry to another console ("wrong
\* device"), unless its address is all it is known by.
StaysWithItsConsole ==
  \A s \in Stored :
    entry[s].uid[1] # "host" => vouched[s] = entry[s].uid[2]

\* What the user stored is what is stored: neither the metadata written by
\* discovery and setup nor another flow brings old settings back.  Only a flow
\* that was validating while another one changed them does: it writes back
\* what it had read before.
SavedSettingsStay ==
  \A s \in Stored : ~raced[s] => Settings(entry[s]) = saved[s]

=============================================================================
