---------------------------- MODULE AccessPoint ----------------------------
(***************************************************************************)
(* The wifi service of the firmware: chains of sudo commands that enable   *)
(* or disable the access point, or connect the box to a network.           *)
(*                                                                         *)
(* execWithJournalctlCallback() starts a command and waits for the event   *)
(* 'command-finished <command>', which is emitted when the journal says    *)
(* that a sudo session of that command line has been closed.  The event    *)
(* has the name of the command, not of the process: when two chains run    *)
(* the same command, the first of the two processes wakes both.            *)
(*                                                                         *)
(* A chain is started by the firmware itself (Boots, one for every start   *)
(* of its process, which pm2 repeats) or by a request to its server.       *)
(* Whether a command succeeds is never looked at; what it does to the      *)
(* device is Effect.                                                       *)
(***************************************************************************)
EXTENDS Naturals, Sequences, FiniteSets

CONSTANTS
  Boots,    \* chains started with the process, one for each start
  Requests, \* chains started by requests; a request stands for its network
  Preset,   \* the network the device was configured for before
  None,     \* no network, no chain
  MaxUnderWay \* bound on the commands under way when a chain starts

Chains   == Boots \cup Requests
Networks == Requests \cup {Preset}

ASSUME ChainsAssumption ==
  /\ Boots \cap Requests = {} /\ None \notin Chains /\ Preset \notin Chains \cup {None}

VARIABLES
  kind,    \* what each chain does
  at,      \* the step it is at: 0 not started, one beyond the last: ended
  told,    \* what the callback of a connection was told
  up,      \* is there a process of the firmware?
  running, \* processes <<chain, step>> that are under way
  device,  \* the state of the box
  last,    \* history: the last chain of each group
  overlap  \* history: groups whose last chain found another one under way

vars == <<kind, at, told, up, running, device, last, overlap>>

-----------------------------------------------------------------------------
Disabling == <<"stop dnsmasq", "stop hostapd", "disable hostapd", "iw del", "restart dhcpd">>
Connecting == <<"killall wpa_supplicant", "wpa_supplicant -B", "wpa_cli RECONFIGURE", "ifconfig up">>

(* Mutant: hostapd is started before its interface is added. *)
EnablingTooEarly ==
  <<"start hostapd", "iw add", "start dhcpcd", "enable hostapd", "unmask hostapd", "start dnsmasq">>

Enabling ==
  <<"iw add", "start dhcpcd", "enable hostapd", "unmask hostapd", "start hostapd", "start dnsmasq">>

(* Mutant: what runs is not killed first. *)
ProgramKeepsSupplicant ==
  [enable |-> Disabling \o Enabling, disable |-> Disabling,
   connect |-> <<"ifconfig up">> \o Tail(Connecting)]

Program ==
  [enable |-> Disabling \o Enabling, disable |-> Disabling, connect |-> Connecting]

Group(k) == IF k = "connect" THEN "wifi" ELSE "ap"

Steps(c)   == Program[kind[c]]
Command(p) == Steps(p[1])[p[2]]

InProgress(c) == at[c] \in 1 .. Len(Steps(c))
Ended(c)      == at[c] = Len(Steps(c)) + 1

\* Where a chain is whose process has ended before it.
Cut(c) == Len(Steps(c)) + 2

\* A process of group g is under way.
Busy(g) == \E p \in running : Group(kind[p[1]]) = g

(* What a command does to the device.  hostapd needs its interface and the
   file of an access point; a second wpa_supplicant gives up; the unit that is
   restarted is dhcpd, and dhcpcd was started before. *)
Effect(cmd, d) ==
  CASE cmd = "stop dnsmasq"   -> [d EXCEPT !.dnsmasq = FALSE]
    [] cmd = "stop hostapd"   -> [d EXCEPT !.hostapd = FALSE]
    [] cmd = "iw del"         -> [d EXCEPT !.iface = FALSE, !.hostapd = FALSE]
    [] cmd = "iw add"         -> [d EXCEPT !.iface = TRUE]
    [] cmd = "unmask hostapd" -> [d EXCEPT !.masked = FALSE]
    [] cmd = "start hostapd"  -> [d EXCEPT !.hostapd = d.iface /\ ~d.masked /\ d.files = "ap"]
    [] cmd = "start dnsmasq"  -> [d EXCEPT !.dnsmasq = TRUE]
    [] cmd = "killall wpa_supplicant" -> [d EXCEPT !.supplicant = None, !.link = FALSE]
    [] cmd = "wpa_supplicant -B" ->
         [d EXCEPT !.supplicant = IF @ = None THEN d.conf ELSE @]
    [] cmd = "wpa_cli RECONFIGURE" ->
         [d EXCEPT !.supplicant = IF @ = None THEN None ELSE d.conf,
                   !.link = @ /\ d.supplicant = d.conf]
    [] OTHER -> d

\* The device when the end of cmd is announced: it may have associated by then.
Outcomes(cmd, d) ==
  LET e == Effect(cmd, d)
  IN  IF e.supplicant = None THEN {e} ELSE {e, [e EXCEPT !.link = TRUE]}

-----------------------------------------------------------------------------
Init ==
  /\ kind = [c \in Chains |-> "disable"] /\ at = [c \in Chains |-> 0]
  /\ told = [c \in Chains |-> "nothing"]
  /\ up = FALSE /\ running = {}
  /\ \E dnsmasq, hostapd, masked, iface, link \in BOOLEAN, files \in {"ap", "client"} :
       /\ hostapd => iface /\ ~masked
       /\ device = [dnsmasq |-> dnsmasq, hostapd |-> hostapd, masked |-> masked,
                    iface |-> iface, files |-> files,
                    conf |-> Preset, supplicant |-> Preset, link |-> link]
  /\ last = [g \in {"ap", "wifi"} |-> None] /\ overlap = {}

\* Chain c starts to do k.
Begin(c, k) ==
  /\ at[c] = 0 /\ Cardinality(running) <= MaxUnderWay
  /\ kind' = [kind EXCEPT ![c] = k]
  /\ at' = [at EXCEPT ![c] = 1]
  /\ running' = running \cup {<<c, 1>>}
  /\ last' = [last EXCEPT ![Group(k)] = c]
  /\ overlap' = IF Busy(Group(k)) THEN overlap \cup {Group(k)} ELSE overlap \ {Group(k)}
  /\ UNCHANGED told

(* The process starts, for the first time or after an end of it.  It decides
   what to do by the link as it is. *)
Boot(b) ==
  /\ ~up /\ Begin(b, IF device.link THEN "disable" ELSE "enable")
  /\ up' = TRUE
  /\ device' = [device EXCEPT !.files = "client"]

(* The process ends, at any moment: nobody waits any longer for the commands
   that are under way.  Each of them goes on, or is killed with the process. *)
End ==
  /\ up /\ up' = FALSE
  /\ at' = [c \in Chains |-> IF InProgress(c) THEN Cut(c) ELSE at[c]]
  /\ running' \in SUBSET running
  /\ UNCHANGED <<kind, told, device, last, overlap>>

PutAccessPointDisable(r) ==
  /\ up /\ Begin(r, "disable") /\ UNCHANGED up
  /\ device' = [device EXCEPT !.files = "client"]

PostWifiConnect(r) ==
  /\ up /\ Begin(r, "connect") /\ UNCHANGED up
  /\ device' = [device EXCEPT !.conf = r]

(* The step after the one chain c is at, when the device is d:
   checkIfIsConnected() ends a connection early. *)
Following(c, d) ==
  IF kind[c] = "connect" /\ at[c] = 2 /\ d.link THEN Len(Connecting) + 1 ELSE at[c] + 1

\* The chains that listen to 'command-finished cmd'.
Listeners(cmd) == {c \in Chains : InProgress(c) /\ Steps(c)[at[c]] = cmd}

(* Mutant: a command that changes nothing closes no session. *)
HeardOnlyIfEffective(p) ==
  IF Effect(Command(p), device) = device THEN {} ELSE Listeners(Command(p))

\* The chains that the end of process p wakes.
Heard(p) == Listeners(Command(p))

(* Command p is done: its session is closed, the journal says so when the
   device is as in done, and every listener goes on with its next step, or calls
   its callback. *)
FinishAs(p, done) ==
  LET woken == Heard(p)
      ends  == {c \in woken : Following(c, done) > Len(Steps(c))}
      next  == {<<c, Following(c, done)>> : c \in woken \ ends}
  IN  /\ at' = [c \in Chains |-> IF c \in woken THEN Following(c, done) ELSE at[c]]
      /\ running' = (running \ {p}) \cup next
      /\ told' = [c \in Chains |->
                    IF c \in ends /\ kind[c] = "connect"
                      THEN IF done.link THEN "connected" ELSE "failed"
                      ELSE told[c]]
      /\ device' = IF \E c \in woken : kind[c] = "enable" /\ at[c] = Len(Disabling)
                     THEN [done EXCEPT !.files = "ap"] ELSE done
      /\ UNCHANGED <<kind, up, last, overlap>>

Finish(p) == \E done \in Outcomes(Command(p), device) : FinishAs(p, done)

(* The supplicant associates with its network, some time or never. *)
Associate ==
  /\ device.supplicant # None /\ ~device.link
  /\ device' = [device EXCEPT !.link = TRUE]
  /\ UNCHANGED <<kind, at, told, up, running, last, overlap>>

Next ==
  \/ \E b \in Boots : Boot(b)
  \/ End
  \/ \E r \in Requests : PutAccessPointDisable(r) \/ PostWifiConnect(r)
  \/ \E p \in running : Finish(p)
  \/ Associate

SafeSpec == Init /\ [][Next]_vars

(* Commands end.  There are finitely many of them, so it is enough that some
   command ends as long as any is under way. *)
Spec ==
  /\ SafeSpec
  /\ WF_vars(\E p \in running : Finish(p))

-----------------------------------------------------------------------------
(* Every variable keeps its type. *)
TypeOK ==
  /\ kind \in [Chains -> {"enable", "disable", "connect"}]
  /\ at \in [Chains -> Nat] /\ \A c \in Chains : at[c] <= Cut(c)
  /\ told \in [Chains -> {"nothing", "connected", "failed"}]
  /\ up \in BOOLEAN
  /\ running \subseteq Chains \X (1 .. Len(Program.enable))
  /\ device \in [dnsmasq : BOOLEAN, hostapd : BOOLEAN, masked : BOOLEAN, iface : BOOLEAN,
                 files : {"ap", "client"}, conf : Networks, supplicant : Networks \cup {None},
                 link : BOOLEAN]
  /\ last \in [{"ap", "wifi"} -> Chains \cup {None}] /\ overlap \subseteq {"ap", "wifi"}

(* A chain that waits for a command has started it and it is still under way:
   events that other chains cause cannot make it wait in vain. *)
NobodyWaitsInVain == \A c \in Chains : InProgress(c) => <<c, at[c]>> \in running

(* A chain of the access point that came to its end, and found no command of
   another one under way when it began, has made of the access point what it was
   to, whatever the state the one before had left it in: one that went well, or
   one whose process was ended after any of its commands. *)
SettledRight ==
  \A c \in Chains :
    last["ap"] = c /\ "ap" \notin overlap /\ Ended(c) =>
      LET on == kind[c] = "enable"
      IN  /\ device.hostapd = on /\ device.dnsmasq = on /\ device.iface = on
          /\ device.files = IF on THEN "ap" ELSE "client"

(* A connection that is reported is one to the network asked for, unless another
   request came in between. *)
ConnectedToOwn ==
  \A r \in Requests :
    last["wifi"] = r /\ "wifi" \notin overlap /\ told[r] = "connected" =>
      device.supplicant = r

(* Every chain that starts ends, unless the process does: as only so many
   start, in the end none is in progress. *)
EveryChainEnds == <>[](\A c \in Chains : ~InProgress(c))
=============================================================================
