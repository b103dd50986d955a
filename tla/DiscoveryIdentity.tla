-------------------------- MODULE DiscoveryIdentity --------------------------
(***************************************************************************)
(* How a console that was found on the network, or that answered a         *)
(* validation, is told from the consoles that have an entry                *)
(* (discovery_identity.py, config_flow_identity.py, config_flow.py).       *)
(*                                                                         *)
(* A console's MAC address is the console itself.  A unique id is a pair   *)
(* of what it was taken from and whose it is.  Everything is on one port.  *)
(* The metadata only diagnostics show (source, confidence, last seen,      *)
(* conflict codes) is left out, and with it the write throttle: a write    *)
(* that would change nothing else is no step.                              *)
(***************************************************************************)
EXTENDS Naturals, FiniteSets

CONSTANTS
  Console,  \* the devices
  Host,     \* the addresses
  None      \* nothing

ASSUME NoneAssumption == None \notin Console \cup Host

MaybeConsole == Console \cup {None}

\* What a validation can learn: an id from the system metadata, the id in the
\* login answer (the account's), only a MAC, or nothing but the address.
Told == {"system", "account", "mac", "host"}
Uid == ({"system", "account", "mac"} \X Console) \cup ({"host"} \X Host)

\* An announcement: an address, and perhaps a MAC.
Device == [host : Host, mac : MaybeConsole]

\* What the identity rules read of an entry.
HasIdentity(e) ==
  /\ e.uid \in Uid /\ e.host \in Host /\ e.aliases \in SUBSET Host
  /\ e.mac \in MaybeConsole /\ e.wol \in MaybeConsole

-----------------------------------------------------------------------------
(* Keys.                                                                   *)

EntryHosts(e) ==
  {e.host} \cup e.aliases \cup {h \in Host : e.uid = <<"host", h>>}

EntryMacs(e) ==
  ({e.mac, e.wol} \ {None}) \cup {c \in Console : e.uid = <<"mac", c>>}

\* The unique id a validation arrives at, and that of an announcement.
InfoUid(told, console, host) ==
  <<told, IF told = "host" THEN host ELSE console>>

DiscoveryUid(d) == IF d.mac # None THEN <<"mac", d.mac>> ELSE <<"host", d.host>>

-----------------------------------------------------------------------------
(* Announcements against entries.                                          *)

\* The entry knows its MAC and it is another: not this device, even at the
\* entry's address.
Conflicts(e, d) ==
  d.mac # None /\ EntryMacs(e) # {} /\ d.mac \notin EntryMacs(e)

Matches(e, d) ==
  /\ ~Conflicts(e, d)
  /\ \/ e.uid = DiscoveryUid(d)
     \/ d.host \in EntryHosts(e)
     \/ d.mac \in EntryMacs(e)

\* A trusted observation overwrites the MAC and adds to the addresses.
Observed(e, d) ==
  [e EXCEPT !.mac = IF d.mac # None THEN d.mac ELSE @,
            !.aliases = @ \cup {d.host, e.host}]

\* What a poll that read the system metadata records: no announcement's MAC
\* stands against it.
Recorded(e, console) ==
  [e EXCEPT !.mac = console, !.aliases = @ \cup {e.host}]

\* A pending discovery flow is taken for this entry's by MAC or by address.
FlowIsOf(e, d) ==
  d.mac \in EntryMacs(e) \/ d.host \in EntryHosts(e)

-----------------------------------------------------------------------------
(* Validations against entries.                                            *)

\* An old host:port id still names the entry at that address.
IsFallback(e, host) == e.uid = <<"host", host>> /\ e.host = host

AnyIdMatches(e, told, console, host) == e.uid[1] = told
UidMatches(e, told, console, host) == e.uid = InfoUid(told, console, host)

ValidatedDevice(e, told, console, host) ==
  UidMatches(e, told, console, host) \/ IsFallback(e, host)

=============================================================================
