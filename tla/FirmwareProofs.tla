--------------------------- MODULE FirmwareProofs ---------------------------
(***************************************************************************)
(* The wifi service, for every number of starts, requests and overlapping  *)
(* chains, and for commands that end in any order: no chain waits for an   *)
(* event that will not come; a connection that met no other is to its own  *)
(* network; and a chain of the access point that met no other leaves it as *)
(* it should be.  The first follows from the process that every waiting    *)
(* chain has under way.  The other two follow the device along the one     *)
(* chain of its group, whose processes are the only ones of their kind,    *)
(* for the two groups have no command in common.                           *)
(*                                                                         *)
(* The server, for every number and length of requests: it counts those it *)
(* has not answered, so that it ends as soon as none is left and not       *)
(* before; and the last post's file is empty until it is written whole.    *)
(***************************************************************************)
EXTENDS Firmware, SequenceTheorems, FiniteSetTheorems, TLAPS

(* The number of steps of each chain. *)
LEMMA Lengths ==
  /\ Len(Program.enable) = 11 /\ Len(Program.disable) = 5 /\ Len(Program.connect) = 4
  /\ Len(Disabling) = 5 /\ Len(Connecting) = 4
  BY DEF Program, Disabling, Enabling, Connecting

Kinds == {"enable", "disable", "connect"}

(* Every chain has steps, at most eleven. *)
LEMMA StepsLength ==
  ASSUME NEW c \in Chains, kind[c] \in Kinds
  PROVE  /\ Len(Steps(c)) \in 4 .. 11
         /\ kind[c] = "connect" => Len(Steps(c)) = 4
         /\ kind[c] = "enable" => Len(Steps(c)) = 11
         /\ kind[c] = "disable" => Len(Steps(c)) = 5
  <1>1. Program[kind[c]] \in {Program.enable, Program.disable, Program.connect}
    BY DEF Kinds
  <1> QED BY <1>1, Lengths DEF Steps, Kinds

-----------------------------------------------------------------------------
Device ==
  [dnsmasq : BOOLEAN, hostapd : BOOLEAN, masked : BOOLEAN, iface : BOOLEAN,
   files : {"ap", "client"}, conf : Networks, supplicant : Networks \cup {None}, link : BOOLEAN]

DeviceCommands ==
  {"stop dnsmasq", "stop hostapd", "iw del", "iw add", "unmask hostapd", "start hostapd",
   "start dnsmasq", "killall wpa_supplicant", "wpa_supplicant -B", "wpa_cli RECONFIGURE"}

(* Commands leave a device a device. *)
LEMMA EffectType ==
  ASSUME NEW cmd, NEW d \in Device
  PROVE  Effect(cmd, d) \in Device
  <1>1. CASE cmd = "stop dnsmasq"
    BY <1>1 DEF Effect, Device
  <1>2. CASE cmd = "stop hostapd"
    BY <1>2 DEF Effect, Device
  <1>3. CASE cmd = "iw del"
    BY <1>3 DEF Effect, Device
  <1>4. CASE cmd = "iw add"
    BY <1>4 DEF Effect, Device
  <1>5. CASE cmd = "unmask hostapd"
    BY <1>5 DEF Effect, Device
  <1>6. CASE cmd = "start hostapd"
    BY <1>6 DEF Effect, Device
  <1>7. CASE cmd = "start dnsmasq"
    BY <1>7 DEF Effect, Device
  <1>8. CASE cmd = "killall wpa_supplicant"
    BY <1>8 DEF Effect, Device
  <1>9. CASE cmd = "wpa_supplicant -B"
    BY <1>9 DEF Effect, Device
  <1>10. CASE cmd = "wpa_cli RECONFIGURE"
    BY <1>10 DEF Effect, Device
  <1>11. CASE cmd \notin DeviceCommands
    BY <1>11 DEF Effect, DeviceCommands
  <1> QED BY <1>1, <1>2, <1>3, <1>4, <1>5, <1>6, <1>7, <1>8, <1>9, <1>10, <1>11 DEF DeviceCommands

(* So does what happens until their end is announced; but for the link it is
   what the command does. *)
LEMMA OutcomeType ==
  ASSUME NEW cmd, NEW d \in Device, NEW done \in Outcomes(cmd, d)
  PROVE  /\ done \in Device
         /\ done = Effect(cmd, d) \/ done = [Effect(cmd, d) EXCEPT !.link = TRUE]
  <1>1. Effect(cmd, d) \in Device
    BY EffectType
  <1>2. done = Effect(cmd, d) \/ done = [Effect(cmd, d) EXCEPT !.link = TRUE]
    BY DEF Outcomes
  <1>3. [Effect(cmd, d) EXCEPT !.link = TRUE] \in Device
    BY <1>1 DEF Device
  <1> QED BY <1>1, <1>2, <1>3

-----------------------------------------------------------------------------
IInv == TypeOK /\ NobodyWaitsInVain

(* Before a chain has started nobody waits. *)
LEMMA Initially == Init => IInv
  <1> SUFFICES ASSUME Init PROVE IInv
    OBVIOUS
  <1>1. \A c \in Chains : Len(Steps(c)) \in 4 .. 11
    BY StepsLength DEF Init, Kinds
  <1>2. device \in Device
    BY DEF Init, Device, Networks
  <1>3. ASSUME NEW c \in Chains PROVE at[c] <= Cut(c) /\ ~InProgress(c)
    <2> DEFINE n == Len(Steps(c))
    <2>1. n \in 4 .. 11 /\ at[c] = 0 /\ Cut(c) = n + 2 /\ (InProgress(c) <=> at[c] \in 1 .. n)
      BY <1>1 DEF Init, Cut, InProgress
    <2> HIDE DEF n
    <2> QED BY <2>1
  <1>4. /\ kind \in [Chains -> {"enable", "disable", "connect"}] /\ at \in [Chains -> Nat]
        /\ told \in [Chains -> {"nothing", "connected", "failed"}]
        /\ up \in BOOLEAN /\ running = {} /\ overlap = {}
        /\ last \in [{"ap", "wifi"} -> Chains \cup {None}]
    BY DEF Init
  <1> QED BY <1>2, <1>3, <1>4 DEF IInv, TypeOK, NobodyWaitsInVain, Device

(* A chain that starts has its first command under way, and the others keep
   theirs: nothing is ended. *)
LEMMA BeginPreserves ==
  ASSUME IInv, NEW c \in Chains, NEW k \in Kinds, Begin(c, k),
         up' \in BOOLEAN, device' \in Device
  PROVE  IInv'
  <1>1. /\ at' = [at EXCEPT ![c] = 1] /\ kind' = [kind EXCEPT ![c] = k]
        /\ running' = running \cup {<<c, 1>>} /\ told' = told
        /\ last' = [last EXCEPT ![Group(k)] = c] /\ overlap' \subseteq overlap \cup {Group(k)}
    BY DEF Begin
  <1>2. kind' \in [Chains -> Kinds] /\ at' \in [Chains -> Nat]
    BY <1>1 DEF IInv, TypeOK, Kinds
  <1>3. \A x \in Chains : at'[x] <= Cut(x)'
    <2>1. \A x \in Chains : Len(Steps(x)') \in Nat
      BY <1>2, StepsLength DEF Steps, Kinds, Lengths
    <2> QED BY <1>1, <2>1 DEF IInv, TypeOK, Steps, Cut
  <1>4. Group(k) \in {"ap", "wifi"}
    BY DEF Group
  <1>5. TypeOK'
    BY <1>1, <1>2, <1>3, <1>4, Lengths DEF IInv, TypeOK, Device, Kinds
  <1>6. NobodyWaitsInVain'
    <2> SUFFICES ASSUME NEW x \in Chains, InProgress(x)' PROVE <<x, at[x]>>' \in running'
      BY DEF NobodyWaitsInVain
    <2>1. CASE x = c
      BY <2>1, <1>1 DEF IInv, TypeOK
    <2>2. CASE x # c
      <3>1. at'[x] = at[x] /\ kind'[x] = kind[x]
        BY <2>2, <1>1 DEF IInv, TypeOK
      <3>2. InProgress(x)
        BY <3>1 DEF InProgress, Steps
      <3> QED BY <3>1, <3>2, <1>1 DEF IInv, NobodyWaitsInVain
    <2> QED BY <2>1, <2>2
  <1> QED BY <1>5, <1>6 DEF IInv

(* The step that follows one in progress is the next one, or the end. *)
LEMMA FollowingType ==
  ASSUME IInv, NEW c \in Chains, NEW d, InProgress(c)
  PROVE  Following(c, d) \in 2 .. Len(Steps(c)) + 1
  <1>1. at[c] \in 1 .. Len(Steps(c)) /\ kind[c] \in Kinds
    BY DEF IInv, TypeOK, InProgress, Kinds
  <1>2. /\ Len(Steps(c)) \in 4 .. 11 /\ Len(Connecting) = 4
        /\ kind[c] = "connect" => Len(Steps(c)) = 4
    BY <1>1, StepsLength, Lengths
  <1>3. Following(c, d) = at[c] + 1 \/ (kind[c] = "connect" /\ Following(c, d) = Len(Connecting) + 1)
    BY DEF Following
  <1> DEFINE n == Len(Steps(c))
             k == Following(c, d)
  <1>4. n \in Nat /\ at[c] \in Nat /\ at[c] >= 1 /\ at[c] <= n
    BY <1>1, <1>2
  <1>5. k = at[c] + 1 \/ (n = 4 /\ k = 5)
    BY <1>2, <1>3
  <1> HIDE DEF n, k
  <1>6. k \in 2 .. n + 1
    BY <1>4, <1>5
  <1> QED BY <1>6 DEF n, k

(* The end of a command wakes the chain that waits for it, which has the next
   command under way at once; a chain that is not woken waits for another
   process. *)
LEMMA FinishPreserves ==
  ASSUME IInv, NEW p \in running, Finish(p)
  PROVE  IInv'
  <1>0. PICK done \in Outcomes(Command(p), device) : FinishAs(p, done)
    BY DEF Finish
  <1> DEFINE woken == Heard(p)
             ends  == {c \in woken : Following(c, done) > Len(Steps(c))}
             next  == {<<c, Following(c, done)>> : c \in woken \ ends}
  <1>1. /\ at' = [c \in Chains |-> IF c \in woken THEN Following(c, done) ELSE at[c]]
        /\ running' = (running \ {p}) \cup next
        /\ kind' = kind /\ up' = up /\ last' = last /\ overlap' = overlap
        /\ told' = [c \in Chains |->
                      IF c \in ends /\ kind[c] = "connect"
                        THEN IF done.link THEN "connected" ELSE "failed"
                        ELSE told[c]]
    BY <1>0 DEF FinishAs
  <1>2. woken \subseteq {c \in Chains : InProgress(c)}
    BY DEF Heard, Listeners
  <1>3. \A c \in woken : Following(c, done) \in 2 .. Len(Steps(c)) + 1
    BY <1>2, FollowingType
  <1>4. \A c \in Chains : Len(Steps(c)) \in 4 .. 11
    BY StepsLength DEF IInv, TypeOK, Kinds
  <1>5. device' \in Device
    <2>1. done \in Device
      BY OutcomeType DEF IInv, TypeOK, Device
    <2>2. [done EXCEPT !.files = "ap"] \in Device
      BY <2>1 DEF Device
    <2>3. device' = done \/ device' = [done EXCEPT !.files = "ap"]
      BY <1>0 DEF FinishAs
    <2> QED BY <2>1, <2>2, <2>3
  <1> HIDE DEF woken
  <1>6. TypeOK'
    <2>1. at' \in [Chains -> Nat]
      BY <1>1, <1>2, <1>3, <1>4 DEF IInv, TypeOK
    <2>2. \A c \in Chains : at'[c] <= Cut(c)'
      <3> SUFFICES ASSUME NEW c \in Chains PROVE at'[c] <= Cut(c)'
        OBVIOUS
      <3>1. Len(Steps(c)) \in Nat /\ Len(Steps(c)') = Len(Steps(c)) /\ at[c] <= Cut(c)
        BY <1>1, <1>4 DEF IInv, TypeOK, Steps
      <3>2. at'[c] = at[c] \/ at'[c] \in 2 .. Len(Steps(c)) + 1
        BY <1>1, <1>3
      <3> QED BY <3>1, <3>2 DEF Cut
    <2>3. next \subseteq Chains \X (1 .. 11)
      <3>1. ASSUME NEW c \in woken \ ends
            PROVE  c \in Chains /\ Following(c, done) \in 1 .. 11
        <4>0. c \in woken /\ c \in Chains
          BY <1>2
        <4>1. Len(Steps(c)) \in 4 .. 11
          BY <4>0, <1>4
        <4>2. Following(c, done) \in 2 .. Len(Steps(c)) + 1 /\ ~(Following(c, done) > Len(Steps(c)))
          BY <4>0, <1>3
        <4> DEFINE n == Len(Steps(c))
                   k == Following(c, done)
        <4>3. n \in 4 .. 11 /\ k \in 2 .. n + 1 /\ ~(k > n)
          BY <4>1, <4>2
        <4> HIDE DEF n, k
        <4>4. k \in 1 .. 11
          BY <4>3
        <4> QED BY <4>0, <4>4 DEF k
      <3> QED BY <3>1
    <2>4. running' \subseteq Chains \X (1 .. Len(Program.enable))
      BY <1>1, <2>3, Lengths DEF IInv, TypeOK
    <2>5. told' \in [Chains -> {"nothing", "connected", "failed"}]
      BY <1>1 DEF IInv, TypeOK
    <2> QED BY <1>1, <1>5, <2>1, <2>2, <2>4, <2>5 DEF IInv, TypeOK, Device
  <1>7. NobodyWaitsInVain'
    <2> SUFFICES ASSUME NEW x \in Chains, InProgress(x)' PROVE <<x, at[x]>>' \in running'
      BY DEF NobodyWaitsInVain
    <2>1. Steps(x)' = Steps(x) /\ at'[x] \in 1 .. Len(Steps(x))
      BY <1>1 DEF InProgress, Steps
    <2>2. CASE x \in woken
      <3>1. at'[x] = Following(x, done)
        BY <2>2, <1>1
      <3>2. x \notin ends
        BY <3>1, <2>1, <2>2, <1>3, <1>4
      <3> QED BY <3>1, <3>2, <2>2, <1>1
    <2>3. CASE x \notin woken
      <3>1. at'[x] = at[x] /\ InProgress(x)
        BY <2>3, <2>1, <1>1 DEF InProgress
      <3>2. <<x, at[x]>> \in running
        BY <3>1 DEF IInv, NobodyWaitsInVain
      <3>3. p # <<x, at[x]>>
        BY <2>3, <3>1 DEF woken, Heard, Listeners, Command
      <3> QED BY <3>1, <3>2, <3>3, <1>1
    <2> QED BY <2>2, <2>3
  <1> QED BY <1>6, <1>7 DEF IInv

(* The end of the process leaves no chain in progress. *)
LEMMA EndCuts ==
  ASSUME IInv, End
  PROVE  /\ at' \in [Chains -> Nat] /\ kind' = kind /\ running' \subseteq running
         /\ \A c \in Chains : /\ at'[c] = IF InProgress(c) THEN Cut(c) ELSE at[c]
                             /\ Len(Steps(c)) \in 4 .. 11 /\ Steps(c)' = Steps(c)
                             /\ at'[c] <= Cut(c)' /\ ~InProgress(c)'
  <1>1. /\ at' = [c \in Chains |-> IF InProgress(c) THEN Cut(c) ELSE at[c]]
        /\ kind' = kind /\ running' \subseteq running
    BY DEF End
  <1>2. ASSUME NEW c \in Chains
        PROVE  /\ at'[c] = IF InProgress(c) THEN Cut(c) ELSE at[c]
               /\ Len(Steps(c)) \in 4 .. 11 /\ Steps(c)' = Steps(c) /\ at'[c] \in Nat
               /\ at'[c] <= Cut(c)' /\ ~InProgress(c)'
    <2> DEFINE n == Len(Steps(c))
    <2>1. n \in 4 .. 11
      BY StepsLength DEF IInv, TypeOK, Kinds
    <2>2. Steps(c)' = Steps(c) /\ Cut(c) = n + 2 /\ Cut(c)' = n + 2
      BY <1>1 DEF Steps, Cut
    <2>3. at'[c] = IF InProgress(c) THEN Cut(c) ELSE at[c]
      BY <1>1
    <2>4. at[c] \in Nat /\ at[c] <= n + 2
      BY <2>2 DEF IInv, TypeOK
    <2>5. (InProgress(c) <=> at[c] \in 1 .. n) /\ (InProgress(c)' <=> at'[c] \in 1 .. n)
      BY <2>2 DEF InProgress
    <2> HIDE DEF n
    <2>6. at'[c] \in Nat /\ at'[c] <= n + 2 /\ at'[c] \notin 1 .. n
      BY <2>1, <2>2, <2>3, <2>4, <2>5
    <2> QED BY <2>1, <2>2, <2>3, <2>5, <2>6 DEF n
  <1> QED BY <1>1, <1>2

(* Every step keeps IInv. *)
LEMMA Inductive == IInv /\ [Next]_vars => IInv'
  <1> SUFFICES ASSUME IInv, [Next]_vars PROVE IInv'
    OBVIOUS
  <1>1. ASSUME NEW b \in Boots, Boot(b) PROVE IInv'
    <2>1. Begin(b, IF device.link THEN "disable" ELSE "enable") /\ up' \in BOOLEAN
      BY <1>1 DEF Boot
    <2>2. device' \in Device
      BY <1>1 DEF Boot, IInv, TypeOK, Device
    <2> QED BY <2>1, <2>2, BeginPreserves DEF Chains, Kinds
  <1>2. ASSUME NEW r \in Requests, PutAccessPointDisable(r) PROVE IInv'
    <2>1. Begin(r, "disable") /\ up' \in BOOLEAN
      BY <1>2 DEF PutAccessPointDisable, IInv, TypeOK
    <2>2. device' \in Device
      BY <1>2 DEF PutAccessPointDisable, IInv, TypeOK, Device
    <2> QED BY <2>1, <2>2, BeginPreserves DEF Chains, Kinds
  <1>3. ASSUME NEW r \in Requests, PostWifiConnect(r) PROVE IInv'
    <2>1. Begin(r, "connect") /\ up' \in BOOLEAN
      BY <1>3 DEF PostWifiConnect, IInv, TypeOK
    <2>2. device' \in Device
      BY <1>3 DEF PostWifiConnect, IInv, TypeOK, Device, Networks
    <2> QED BY <2>1, <2>2, BeginPreserves DEF Chains, Kinds
  <1>4. CASE \E p \in running : Finish(p)
    BY <1>4, FinishPreserves
  <1>5. CASE Associate
    <2>1. device' \in Device
      BY <1>5 DEF Associate, IInv, TypeOK, Device
    <2> QED
      BY <1>5, <2>1 DEF Associate, IInv, TypeOK, Device, NobodyWaitsInVain, InProgress, Cut, Steps
  <1>6. CASE End
    <2>1. /\ at' \in [Chains -> Nat] /\ \A c \in Chains : at'[c] <= Cut(c)' /\ ~InProgress(c)'
      BY <1>6, EndCuts
    <2>2. running' \subseteq running /\ up' \in BOOLEAN /\ UNCHANGED <<kind, told, device, last, overlap>>
      BY <1>6 DEF End
    <2> QED BY <2>1, <2>2 DEF IInv, TypeOK, NobodyWaitsInVain
  <1>7. CASE UNCHANGED vars
    BY <1>7 DEF vars, IInv, TypeOK, NobodyWaitsInVain, InProgress, Cut, Steps
  <1> QED BY <1>1, <1>2, <1>3, <1>4, <1>5, <1>6, <1>7 DEF Next

(* Every variable keeps its type. *)
THEOREM TypeCorrect == Spec => []TypeOK
  <1>1. IInv => TypeOK
    BY DEF IInv
  <1> QED BY <1>1, Initially, Inductive, PTL DEF Spec, SafeSpec

(* A chain that waits for a command has started it and it is still under way:
   no event that another chain causes, and no restart of the process, makes it
   wait in vain. *)
THEOREM NobodyWaitsInVainHolds == Spec => []NobodyWaitsInVain
  <1>1. IInv => NobodyWaitsInVain
    BY DEF IInv
  <1> QED BY <1>1, Initially, Inductive, PTL DEF Spec, SafeSpec

-----------------------------------------------------------------------------
(* Five steps, then six. *)
LEMMA FiveAndSix ==
  ASSUME NEW S, NEW s \in Seq(S), NEW t \in Seq(S), Len(s) = 5, Len(t) = 6
  PROVE  \A i \in 1 .. 11 : (s \o t)[i] = IF i <= 5 THEN s[i] ELSE t[i - 5]
  <1> SUFFICES ASSUME NEW i \in 1 .. 11 PROVE (s \o t)[i] = IF i <= 5 THEN s[i] ELSE t[i - 5]
    OBVIOUS
  <1>1. Len(s) + Len(t) = 11
    OBVIOUS
  <1>2. \A j \in 1 .. Len(s) + Len(t) :
          (s \o t)[j] = IF j <= Len(s) THEN s[j] ELSE t[j - Len(s)]
    BY ConcatProperties
  <1>3. (s \o t)[i] = IF i <= Len(s) THEN s[i] ELSE t[i - Len(s)]
    BY <1>1, <1>2, Zenon
  <1> QED BY <1>3, Zenon

(* The commands of the chains, one by one. *)
LEMMA Commands ==
  /\ Program.enable[1] = "stop dnsmasq"
  /\ Program.enable[2] = "stop hostapd"
  /\ Program.enable[3] = "disable hostapd"
  /\ Program.enable[4] = "iw del"
  /\ Program.enable[5] = "restart dhcpd"
  /\ Program.enable[6] = "iw add"
  /\ Program.enable[7] = "start dhcpcd"
  /\ Program.enable[8] = "enable hostapd"
  /\ Program.enable[9] = "unmask hostapd"
  /\ Program.enable[10] = "start hostapd"
  /\ Program.enable[11] = "start dnsmasq"
  /\ Program.disable[1] = "stop dnsmasq"
  /\ Program.disable[2] = "stop hostapd"
  /\ Program.disable[3] = "disable hostapd"
  /\ Program.disable[4] = "iw del"
  /\ Program.disable[5] = "restart dhcpd"
  /\ Program.connect[1] = "killall wpa_supplicant"
  /\ Program.connect[2] = "wpa_supplicant -B"
  /\ Program.connect[3] = "wpa_cli RECONFIGURE"
  /\ Program.connect[4] = "ifconfig up"
  <1> DEFINE words == {"stop dnsmasq", "stop hostapd", "disable hostapd", "iw del", "restart dhcpd",
                       "iw add", "start dhcpcd", "enable hostapd", "unmask hostapd",
                       "start hostapd", "start dnsmasq"}
  <1>0. Len(Disabling) = 5 /\ Len(Enabling) = 6
    BY DEF Disabling, Enabling
  <1>1. Disabling \in Seq(words) /\ Enabling \in Seq(words)
    BY DEF Disabling, Enabling
  <1> HIDE DEF words
  <1>2. \A i \in 1 .. 11 :
          (Disabling \o Enabling)[i] = IF i <= 5 THEN Disabling[i] ELSE Enabling[i - 5]
    BY <1>0, <1>1, FiveAndSix
  <1>3. /\ Program.connect = Connecting /\ Program.disable = Disabling
        /\ Program.enable = Disabling \o Enabling
    BY DEF Program
  <1>4. \A i \in 1 .. 5 : Program.enable[i] = Disabling[i]
    <2> SUFFICES ASSUME NEW i \in 1 .. 5 PROVE Program.enable[i] = Disabling[i]
      OBVIOUS
    <2>1. i \in 1 .. 11 /\ i <= 5
      OBVIOUS
    <2> QED BY <2>1, <1>2, <1>3
  <1>5. \A i \in 1 .. 6 : Program.enable[i + 5] = Enabling[i]
    <2> SUFFICES ASSUME NEW i \in 1 .. 6 PROVE Program.enable[i + 5] = Enabling[i]
      OBVIOUS
    <2>1. i + 5 \in 1 .. 11 /\ ~(i + 5 <= 5) /\ (i + 5) - 5 = i
      OBVIOUS
    <2> QED BY <2>1, <1>2, <1>3
  <1>6. /\ Enabling[1] = "iw add" /\ Enabling[2] = "start dhcpcd" /\ Enabling[3] = "enable hostapd"
        /\ Enabling[4] = "unmask hostapd" /\ Enabling[5] = "start hostapd"
        /\ Enabling[6] = "start dnsmasq"
    BY DEF Enabling
  <1>7. /\ Disabling[1] = "stop dnsmasq" /\ Disabling[2] = "stop hostapd"
        /\ Disabling[3] = "disable hostapd" /\ Disabling[4] = "iw del"
        /\ Disabling[5] = "restart dhcpd"
    BY DEF Disabling
  <1>8. /\ Connecting[1] = "killall wpa_supplicant" /\ Connecting[2] = "wpa_supplicant -B"
        /\ Connecting[3] = "wpa_cli RECONFIGURE" /\ Connecting[4] = "ifconfig up"
    BY DEF Connecting
  <1>9. /\ Program.enable[6] = Enabling[1] /\ Program.enable[7] = Enabling[2]
        /\ Program.enable[8] = Enabling[3] /\ Program.enable[9] = Enabling[4]
        /\ Program.enable[10] = Enabling[5] /\ Program.enable[11] = Enabling[6]
    BY <1>5
  <1>10. /\ Program.enable[1] = Disabling[1] /\ Program.enable[2] = Disabling[2]
         /\ Program.enable[3] = Disabling[3] /\ Program.enable[4] = Disabling[4]
         /\ Program.enable[5] = Disabling[5]
    BY <1>4
  <1>11. /\ Program.enable[1] = "stop dnsmasq"
        /\ Program.enable[2] = "stop hostapd"
        /\ Program.enable[3] = "disable hostapd"
        /\ Program.enable[4] = "iw del"
        /\ Program.enable[5] = "restart dhcpd"
    BY <1>7, <1>10
  <1>12. /\ Program.enable[6] = "iw add"
        /\ Program.enable[7] = "start dhcpcd"
        /\ Program.enable[8] = "enable hostapd"
        /\ Program.enable[9] = "unmask hostapd"
        /\ Program.enable[10] = "start hostapd"
        /\ Program.enable[11] = "start dnsmasq"
    BY <1>6, <1>9
  <1>13. /\ Program.disable[1] = "stop dnsmasq"
        /\ Program.disable[2] = "stop hostapd"
        /\ Program.disable[3] = "disable hostapd"
        /\ Program.disable[4] = "iw del"
        /\ Program.disable[5] = "restart dhcpd"
    BY <1>3, <1>7
  <1>14. /\ Program.connect[1] = "killall wpa_supplicant"
        /\ Program.connect[2] = "wpa_supplicant -B"
        /\ Program.connect[3] = "wpa_cli RECONFIGURE"
        /\ Program.connect[4] = "ifconfig up"
    BY <1>3, <1>8
  <1> QED BY <1>11, <1>12, <1>13, <1>14

WifiCommands ==
  {"killall wpa_supplicant", "wpa_supplicant -B", "wpa_cli RECONFIGURE", "ifconfig up"}

(* The two groups have no command in common. *)
LEMMA CommandGroup ==
  ASSUME NEW c \in Chains, kind[c] \in Kinds, NEW i \in 1 .. Len(Steps(c))
  PROVE  Steps(c)[i] \in WifiCommands <=> kind[c] = "connect"
  <1>1. CASE kind[c] = "connect"
    <2>1. i = 1 \/ i = 2 \/ i = 3 \/ i = 4
      <3>1. Len(Steps(c)) = 4
        BY <1>1, StepsLength
      <3>2. i \in 1 .. 4
        BY <3>1
      <3> QED BY <3>2
    <2> QED BY <1>1, <2>1, Commands DEF Steps, WifiCommands
  <1>2. CASE kind[c] = "disable"
    <2>1. i = 1 \/ i = 2 \/ i = 3 \/ i = 4 \/ i = 5
      <3>1. Len(Steps(c)) = 5
        BY <1>2, StepsLength
      <3>2. i \in 1 .. 5
        BY <3>1
      <3> QED BY <3>2
    <2> QED BY <1>2, <2>1, Commands DEF Steps, WifiCommands
  <1>3. CASE kind[c] = "enable"
    <2>1. \/ i = 1 \/ i = 2 \/ i = 3 \/ i = 4 \/ i = 5 \/ i = 6
          \/ i = 7 \/ i = 8 \/ i = 9 \/ i = 10 \/ i = 11
      <3>1. Len(Steps(c)) = 11
        BY <1>3, StepsLength
      <3>2. i \in 1 .. 11
        BY <3>1
      <3> QED BY <3>2
    <2> QED BY <1>3, <2>1, Commands DEF Steps, WifiCommands
  <1> QED BY <1>1, <1>2, <1>3 DEF Kinds

(* A command of the access point leaves the network alone, *)
LEMMA APLeavesWifi ==
  ASSUME NEW cmd, cmd \notin WifiCommands, NEW d \in Device, NEW done \in Outcomes(cmd, d)
  PROVE  done.supplicant = d.supplicant /\ done.conf = d.conf
  <1>1. Effect(cmd, d).supplicant = d.supplicant /\ Effect(cmd, d).conf = d.conf
    <2>1. CASE cmd = "stop dnsmasq"
      BY <2>1 DEF Effect, Device
    <2>2. CASE cmd = "stop hostapd"
      BY <2>2 DEF Effect, Device
    <2>3. CASE cmd = "iw del"
      BY <2>3 DEF Effect, Device
    <2>4. CASE cmd = "iw add"
      BY <2>4 DEF Effect, Device
    <2>5. CASE cmd = "unmask hostapd"
      BY <2>5 DEF Effect, Device
    <2>6. CASE cmd = "start hostapd"
      BY <2>6 DEF Effect, Device
    <2>7. CASE cmd = "start dnsmasq"
      BY <2>7 DEF Effect, Device
    <2>8. CASE cmd \notin DeviceCommands
      BY <2>8 DEF Effect, DeviceCommands
    <2> QED BY <2>1, <2>2, <2>3, <2>4, <2>5, <2>6, <2>7, <2>8 DEF DeviceCommands, WifiCommands
  <1>2. Effect(cmd, d) \in Device
    BY EffectType
  <1> QED BY <1>1, <1>2, OutcomeType DEF Device

(* and one of the network leaves the access point alone, and its own
   configuration. *)
LEMMA WifiLeavesAP ==
  ASSUME NEW cmd \in WifiCommands, NEW d \in Device, NEW done \in Outcomes(cmd, d)
  PROVE  /\ done.dnsmasq = d.dnsmasq /\ done.hostapd = d.hostapd /\ done.iface = d.iface
         /\ done.masked = d.masked /\ done.files = d.files /\ done.conf = d.conf
         /\ done.supplicant = Effect(cmd, d).supplicant
  <1> DEFINE e == Effect(cmd, d)
  <1>1. /\ e.dnsmasq = d.dnsmasq /\ e.hostapd = d.hostapd /\ e.iface = d.iface
        /\ e.masked = d.masked /\ e.files = d.files /\ e.conf = d.conf
    <2>1. CASE cmd = "killall wpa_supplicant"
      BY <2>1 DEF Effect, Device
    <2>2. CASE cmd = "wpa_supplicant -B"
      BY <2>2 DEF Effect, Device
    <2>3. CASE cmd = "wpa_cli RECONFIGURE"
      BY <2>3 DEF Effect, Device
    <2>4. CASE cmd = "ifconfig up"
      BY <2>4 DEF Effect, Device
    <2> QED BY <2>1, <2>2, <2>3, <2>4 DEF WifiCommands
  <1>2. e \in Device
    BY EffectType
  <1>3. done = e \/ done = [e EXCEPT !.link = TRUE]
    BY OutcomeType
  <1> HIDE DEF e
  <1>4. /\ done.dnsmasq = d.dnsmasq /\ done.hostapd = d.hostapd /\ done.iface = d.iface
        /\ done.masked = d.masked /\ done.files = d.files /\ done.conf = d.conf
        /\ done.supplicant = e.supplicant
    BY <1>1, <1>2, <1>3 DEF Device
  <1> QED BY <1>4 DEF e

-----------------------------------------------------------------------------
(* What is under way belongs to a chain that has started, and to its program. *)
Processes ==
  \A p \in running : at[p[1]] >= 1 /\ p[2] \in 1 .. Len(Steps(p[1]))

(* The chains that a process wakes are of its group, and have a process of
   their own under way. *)
LEMMA Woken ==
  ASSUME IInv, Processes, NEW p \in running, NEW c \in Heard(p)
  PROVE  /\ c \in Chains /\ InProgress(c) /\ <<c, at[c]>> \in running
         /\ Steps(c)[at[c]] = Command(p)
         /\ kind[c] = "connect" <=> kind[p[1]] = "connect"
  <1>1. c \in Chains /\ InProgress(c) /\ Steps(c)[at[c]] = Command(p)
    BY DEF Heard, Listeners
  <1>2. p[1] \in Chains /\ kind[p[1]] \in Kinds /\ kind[c] \in Kinds
    BY <1>1 DEF IInv, TypeOK, Kinds
  <1>3. p[2] \in 1 .. Len(Steps(p[1])) /\ at[c] \in 1 .. Len(Steps(c))
    BY <1>1 DEF Processes, InProgress
  <1>4. Command(p) \in WifiCommands <=> kind[p[1]] = "connect"
    BY <1>2, <1>3, CommandGroup DEF Command
  <1>5. Steps(c)[at[c]] \in WifiCommands <=> kind[c] = "connect"
    BY <1>1, <1>2, <1>3, CommandGroup
  <1> QED BY <1>1, <1>4, <1>5 DEF IInv, NobodyWaitsInVain

(* Nothing is under way of a chain that has not started. *)
LEMMA ProcessesStep ==
  ASSUME IInv, Processes, [Next]_vars
  PROVE  Processes'
  <1>1. ASSUME NEW c \in Chains, NEW k \in Kinds, Begin(c, k)
        PROVE  Processes'
    <2>1. /\ at[c] = 0 /\ at' = [at EXCEPT ![c] = 1] /\ kind' = [kind EXCEPT ![c] = k]
          /\ running' = running \cup {<<c, 1>>}
      BY <1>1 DEF Begin
    <2>2. kind'[c] \in Kinds /\ at'[c] = 1
      BY <2>1 DEF IInv, TypeOK
    <2>3. 1 \in 1 .. Len(Steps(c)')
      <3>1. Program[kind'[c]] \in {Program.enable, Program.disable, Program.connect}
        BY <2>2 DEF Kinds
      <3>2. Len(Program[kind'[c]]) \in 4 .. 11
        BY <3>1, Lengths
      <3>3. Len(Steps(c)') \in 4 .. 11
        BY <3>2 DEF Steps
      <3> DEFINE n == Len(Steps(c)')
      <3>4. n \in 4 .. 11
        BY <3>3
      <3> HIDE DEF n
      <3>5. 1 \in 1 .. n
        BY <3>4
      <3> QED BY <3>5 DEF n
    <2>4. ASSUME NEW p \in running PROVE at'[p[1]] >= 1 /\ p[2] \in 1 .. Len(Steps(p[1])')
      <3>1. p[1] # c /\ p[1] \in Chains
        BY <2>1 DEF Processes, IInv, TypeOK
      <3>2. at'[p[1]] = at[p[1]] /\ kind'[p[1]] = kind[p[1]]
        BY <2>1, <3>1 DEF IInv, TypeOK
      <3> QED BY <3>2 DEF Processes, Steps
    <2> QED BY <2>1, <2>2, <2>3, <2>4 DEF Processes
  <1>2. ASSUME NEW p \in running, Finish(p)
        PROVE  Processes'
    <2>0. PICK done \in Outcomes(Command(p), device) : FinishAs(p, done)
      BY <1>2 DEF Finish
    <2> DEFINE woken == Heard(p)
               ends  == {c \in woken : Following(c, done) > Len(Steps(c))}
               next  == {<<c, Following(c, done)>> : c \in woken \ ends}
    <2>1. /\ at' = [c \in Chains |-> IF c \in woken THEN Following(c, done) ELSE at[c]]
          /\ running' = (running \ {p}) \cup next /\ kind' = kind
      BY <2>0 DEF FinishAs
    <2>2. \A c \in woken : c \in Chains /\ Following(c, done) \in 2 .. Len(Steps(c)) + 1
      BY Woken, FollowingType
    <2>3. \A c \in Chains : Len(Steps(c)) \in 4 .. 11 /\ at[c] \in Nat
      BY StepsLength DEF IInv, TypeOK, Kinds
    <2> HIDE DEF woken
    <2>4. ASSUME NEW q \in running' PROVE at'[q[1]] >= 1 /\ q[2] \in 1 .. Len(Steps(q[1])')
      <3>1. CASE q \in running
        <4>1. q[1] \in Chains /\ at[q[1]] >= 1 /\ q[2] \in 1 .. Len(Steps(q[1]))
          BY <3>1 DEF Processes, IInv, TypeOK
        <4>2. at'[q[1]] >= 1
          <5>1. CASE q[1] \in woken
            <6>1. at'[q[1]] = Following(q[1], done) /\ Following(q[1], done) \in 2 .. Len(Steps(q[1])) + 1
              BY <5>1, <4>1, <2>1, <2>2
            <6> QED BY <6>1
          <5>2. CASE q[1] \notin woken
            BY <5>2, <4>1, <2>1
          <5> QED BY <5>1, <5>2
        <4> QED BY <4>1, <4>2, <2>1 DEF Steps
      <3>2. CASE q \in next
        <4>1. PICK c \in woken \ ends : q = <<c, Following(c, done)>>
          BY <3>2
        <4>2. c \in woken /\ c \in Chains /\ ~(Following(c, done) > Len(Steps(c)))
              /\ Following(c, done) \in 2 .. Len(Steps(c)) + 1
          BY <4>1, <2>2
        <4>3. Len(Steps(c)) \in 4 .. 11
          BY <4>2, <2>3
        <4> DEFINE n == Len(Steps(c))
                   k == Following(c, done)
        <4>4. n \in 4 .. 11 /\ k \in 2 .. n + 1 /\ ~(k > n)
          BY <4>2, <4>3
        <4> HIDE DEF n, k
        <4>5. k \in 1 .. n /\ k >= 1
          BY <4>4
        <4>6. at'[c] = k /\ q = <<c, k>>
          BY <4>1, <4>2, <2>1 DEF k
        <4>7. Len(Steps(c)') = n
          BY <2>1 DEF n, Steps
        <4> QED BY <4>5, <4>6, <4>7
      <3> QED BY <3>1, <3>2, <2>1
    <2> QED BY <2>4 DEF Processes
  <1>3. CASE End
    <2> SUFFICES ASSUME NEW p \in running' PROVE at'[p[1]] >= 1 /\ p[2] \in 1 .. Len(Steps(p[1])')
      BY DEF Processes
    <2>1. /\ p \in running /\ p[1] \in Chains /\ at[p[1]] >= 1 /\ p[2] \in 1 .. Len(Steps(p[1]))
          /\ at[p[1]] \in Nat
      BY <1>3, EndCuts DEF Processes, IInv, TypeOK
    <2>2. /\ at'[p[1]] = IF InProgress(p[1]) THEN Cut(p[1]) ELSE at[p[1]]
          /\ Steps(p[1])' = Steps(p[1]) /\ Len(Steps(p[1])) \in 4 .. 11
      BY <1>3, <2>1, EndCuts
    <2>3. at'[p[1]] >= 1
      BY <2>1, <2>2 DEF Cut
    <2> QED BY <2>1, <2>2, <2>3
  <1>4. CASE Associate \/ UNCHANGED vars
    BY <1>4 DEF Associate, vars, Processes, Steps
  <1> QED
    BY <1>1, <1>2, <1>3, <1>4 DEF Next, Boot, PutAccessPointDisable, PostWifiConnect, Chains, Kinds

-----------------------------------------------------------------------------
(* What is known of a connection that is the last one and met no other, as long
   as the process has not ended before it: its commands are the only ones of
   their kind, and from its third step on the supplicant is of its network. *)
Own(r) ==
  /\ kind[r] = "connect" /\ at[r] >= 1 /\ device.conf = r
  /\ \A p \in running : kind[p[1]] = "connect" => p = <<r, at[r]>>
  /\ <<r, 2>> \in running => device.supplicant = None
  /\ at[r] >= 3 => device.supplicant = r
  /\ at[r] <= 4 => told[r] = "nothing"

\* A chain that the process has ended before.
Lost(r) == kind[r] = "connect" /\ at[r] = 6 /\ told[r] = "nothing"

Owned ==
  /\ \A r \in Requests : last["wifi"] = r /\ "wifi" \notin overlap => Own(r) \/ Lost(r)
  /\ \A c \in Chains : at[c] = 0 => told[c] = "nothing"

CInv == IInv /\ Processes /\ Owned

(* A connection that begins: if it met no other, no process but its own is one
   of a connection. *)
LEMMA ConnectOwned ==
  ASSUME CInv, NEW r \in Requests, PostWifiConnect(r)
  PROVE  Owned'
  <1>1. /\ at[r] = 0 /\ at' = [at EXCEPT ![r] = 1] /\ kind' = [kind EXCEPT ![r] = "connect"]
        /\ running' = running \cup {<<r, 1>>} /\ told' = told
        /\ last' = [last EXCEPT ![Group("connect")] = r]
        /\ overlap' = IF Busy(Group("connect")) THEN overlap \cup {Group("connect")}
                                                ELSE overlap \ {Group("connect")}
        /\ device' = [device EXCEPT !.conf = r]
    BY DEF PostWifiConnect, Begin
  <1>2. Group("connect") = "wifi" /\ r \in Chains
    BY DEF Group, Chains
  <1>3. /\ kind'[r] = "connect" /\ at'[r] = 1 /\ last'["wifi"] = r /\ device'.conf = r
        /\ told'[r] = "nothing"
    BY <1>1, <1>2 DEF CInv, IInv, TypeOK, Owned
  <1>4. ASSUME "wifi" \notin overlap' PROVE Own(r)'
    <2>1. ~Busy("wifi")
      BY <1>1, <1>2, <1>4
    <2>2. ASSUME NEW p \in running PROVE p[1] # r /\ kind'[p[1]] # "connect" /\ p # <<r, 2>>
      <3>1. p[1] # r /\ p[1] \in Chains
        BY <1>1 DEF CInv, Processes, IInv, TypeOK
      <3>2. kind'[p[1]] = kind[p[1]]
        BY <1>1, <3>1 DEF CInv, IInv, TypeOK
      <3>3. kind[p[1]] # "connect"
        BY <2>1 DEF Busy, Group
      <3> QED BY <3>1, <3>2, <3>3
    <2>3. \A p \in running' : kind'[p[1]] = "connect" => p = <<r, at'[r]>>
      BY <1>1, <1>3, <2>2
    <2>4. <<r, 2>> \notin running'
      BY <1>1, <2>2
    <2> QED BY <1>3, <2>3, <2>4 DEF Own
  <1>5. \A c \in Chains : at'[c] = 0 => told'[c] = "nothing"
    BY <1>1, <1>2 DEF CInv, IInv, TypeOK, Owned
  <1> QED BY <1>3, <1>4, <1>5 DEF Owned

(* A chain of the access point that begins changes nothing of it. *)
LEMMA BeginOwned ==
  ASSUME CInv, NEW c \in Chains, NEW k \in Kinds, k # "connect", Begin(c, k),
         device'.conf = device.conf, device'.supplicant = device.supplicant
  PROVE  Owned'
  <1>1. /\ at[c] = 0 /\ at' = [at EXCEPT ![c] = 1] /\ kind' = [kind EXCEPT ![c] = k]
        /\ running' = running \cup {<<c, 1>>} /\ told' = told
        /\ last' = [last EXCEPT ![Group(k)] = c]
        /\ overlap' = IF Busy(Group(k)) THEN overlap \cup {Group(k)} ELSE overlap \ {Group(k)}
    BY DEF Begin
  <1>2. Group(k) = "ap"
    BY DEF Group
  <1>3. last'["wifi"] = last["wifi"] /\ ("wifi" \in overlap' <=> "wifi" \in overlap)
    BY <1>1, <1>2 DEF CInv, IInv, TypeOK
  <1>4. ASSUME NEW r \in Requests, Own(r) PROVE Own(r)'
    <2>1. r # c /\ r \in Chains
      BY <1>1, <1>4 DEF Own, Chains
    <2>2. kind'[r] = kind[r] /\ at'[r] = at[r] /\ told'[r] = told[r]
      BY <1>1, <2>1 DEF CInv, IInv, TypeOK
    <2>3. ASSUME NEW p \in running', kind'[p[1]] = "connect" PROVE p \in running /\ kind[p[1]] = "connect"
      <3>1. kind'[c] = k
        BY <1>1 DEF CInv, IInv, TypeOK
      <3>2. p[1] # c
        BY <2>3, <3>1
      <3>3. p \in running /\ p[1] \in Chains
        BY <1>1, <3>2 DEF CInv, IInv, TypeOK
      <3> QED BY <1>1, <2>3, <3>2, <3>3 DEF CInv, IInv, TypeOK
    <2>4. <<r, 2>> \in running' => <<r, 2>> \in running
      BY <1>1, <2>1
    <2> QED BY <1>4, <2>2, <2>3, <2>4 DEF Own
  <1>5. \A x \in Chains : at'[x] = 0 => told'[x] = "nothing"
    BY <1>1 DEF CInv, IInv, TypeOK, Owned
  <1>6. ASSUME NEW r \in Requests, Lost(r) PROVE Lost(r)'
    <2>1. r # c /\ r \in Chains
      BY <1>1, <1>6 DEF Lost, Chains
    <2> QED BY <1>1, <1>6, <2>1 DEF Lost, CInv, IInv, TypeOK
  <1> QED BY <1>3, <1>4, <1>5, <1>6 DEF CInv, Owned

(* What Finish does to the variables that Own is about. *)
LEMMA FinishOwned ==
  ASSUME CInv, NEW p \in running, Finish(p)
  PROVE  Owned'
  <1>0. PICK done \in Outcomes(Command(p), device) : FinishAs(p, done)
    BY DEF Finish
  <1> DEFINE woken == Heard(p)
             ends  == {c \in woken : Following(c, done) > Len(Steps(c))}
             next  == {<<c, Following(c, done)>> : c \in woken \ ends}
  <1>1. /\ at' = [c \in Chains |-> IF c \in woken THEN Following(c, done) ELSE at[c]]
        /\ running' = (running \ {p}) \cup next /\ kind' = kind
        /\ last' = last /\ overlap' = overlap
        /\ told' = [c \in Chains |->
                      IF c \in ends /\ kind[c] = "connect"
                        THEN IF done.link THEN "connected" ELSE "failed"
                        ELSE told[c]]
    BY <1>0 DEF FinishAs
  <1>2. \A c \in woken : /\ c \in Chains /\ <<c, at[c]>> \in running /\ Steps(c)[at[c]] = Command(p)
                         /\ kind[c] = "connect" <=> kind[p[1]] = "connect"
                         /\ Following(c, done) \in 2 .. Len(Steps(c)) + 1
    BY Woken, FollowingType DEF CInv
  <1>3. device \in Device /\ done \in Device
    BY OutcomeType DEF CInv, IInv, TypeOK, Device
  <1>4. device'.supplicant = done.supplicant /\ device'.conf = done.conf
    BY <1>0, <1>3 DEF FinishAs, Device
  <1>5. p[1] \in Chains /\ kind[p[1]] \in Kinds /\ p[2] \in 1 .. Len(Steps(p[1]))
    BY DEF CInv, Processes, IInv, TypeOK, Kinds
  <1>6. Command(p) \in WifiCommands <=> kind[p[1]] = "connect"
    BY <1>5, CommandGroup DEF Command
  <1> HIDE DEF woken
  <1>7. ASSUME NEW r \in Requests, Own(r) PROVE Own(r)'
    <2>0. r \in Chains /\ at[r] \in Nat /\ kind[r] = "connect"
      BY <1>7 DEF Chains, CInv, IInv, TypeOK, Own
    <2>1. CASE kind[p[1]] # "connect"
      <3>1. device'.supplicant = device.supplicant /\ device'.conf = device.conf
        BY <1>3, <1>4, <1>6, <2>1, APLeavesWifi
      <3>2. \A c \in woken : kind[c] # "connect"
        BY <1>2, <2>1
      <3>3. r \notin woken
        BY <2>0, <3>2
      <3>4. at'[r] = at[r] /\ told'[r] = told[r]
        BY <2>0, <3>3, <1>1
      <3>5. ASSUME NEW q \in running', kind[q[1]] = "connect" PROVE q \in running
        BY <1>1, <3>2, <3>5
      <3>6. <<r, 2>> \in running' => <<r, 2>> \in running
        BY <2>0, <3>5
      <3> QED BY <1>1, <1>7, <3>1, <3>4, <3>5, <3>6 DEF Own
    <2>2. CASE kind[p[1]] = "connect"
      <3>1. p = <<r, at[r]>>
        BY <1>7, <2>2 DEF Own
      <3>2. woken \subseteq {r}
        <4> SUFFICES ASSUME NEW c \in woken PROVE c = r
          OBVIOUS
        <4>1. <<c, at[c]>> \in running /\ kind[<<c, at[c]>>[1]] = "connect"
          BY <1>2, <2>2
        <4> QED BY <4>1, <1>7 DEF Own
      <3>3. Len(Steps(r)) = 4 /\ at[r] \in 1 .. 4
        <4>1. Len(Steps(r)) = 4
          BY <2>0, StepsLength DEF Kinds
        <4>2. p[2] = at[r] /\ p[1] = r
          BY <3>1
        <4>3. at[r] \in 1 .. Len(Steps(r))
          BY <1>5, <4>2
        <4> QED BY <4>1, <4>3
      <3>4. Command(p) = Program.connect[at[r]]
        BY <2>0, <3>1 DEF Command, Steps
      <3>5. device'.conf = r /\ device'.supplicant = Effect(Command(p), device).supplicant
        BY <1>3, <1>4, <1>6, <1>7, <2>2, WifiLeavesAP DEF Own
      <3>6. at'[r] = at[r] \/ at'[r] = at[r] + 1 \/ (at[r] = 2 /\ at'[r] = 5)
        BY <1>1, <2>0, Lengths DEF Following
      <3>7. \A q \in running' : kind'[q[1]] = "connect" => q = <<r, at'[r]>>
        <4> SUFFICES ASSUME NEW q \in running', kind[q[1]] = "connect" PROVE q = <<r, at'[r]>>
          BY <1>1
        <4>1. CASE q \in running
          <5>1. q = p
            BY <4>1, <3>1, <1>7 DEF Own
          <5>2. q \in next
            BY <5>1, <1>1
          <5>3. PICK c \in woken \ ends : q = <<c, Following(c, done)>>
            BY <5>2
          <5>4. c = r /\ c \in woken
            BY <5>3, <3>2
          <5> QED BY <5>3, <5>4, <1>1, <2>0
        <4>2. CASE q \in next
          <5>3. PICK c \in woken \ ends : q = <<c, Following(c, done)>>
            BY <4>2
          <5>4. c = r /\ c \in woken
            BY <5>3, <3>2
          <5> QED BY <5>3, <5>4, <1>1, <2>0
        <4> QED BY <4>1, <4>2, <1>1
      <3>8. r \in Networks /\ r # None
        BY ChainsAssumption DEF Networks, Chains
      <3>9. <<r, 2>> \in running' => r \in woken /\ at'[r] = 2
        <4> SUFFICES ASSUME <<r, 2>> \in running' PROVE r \in woken /\ at'[r] = 2
          OBVIOUS
        <4>1. at'[r] = 2
          BY <3>7, <1>1, <2>0
        <4>2. CASE r \notin woken
          <5>1. at[r] = 2 /\ p = <<r, 2>> /\ woken = {}
            BY <4>1, <4>2, <3>1, <3>2, <1>1, <2>0
          <5>2. next = {}
            BY <5>1
          <5> QED BY <5>1, <5>2, <1>1
        <4> QED BY <4>1, <4>2
      <3>10. r \in woken => at'[r] # at[r]
        <4>1. CASE r \in woken
          <5>1. at'[r] = Following(r, done)
            BY <4>1, <1>1, <2>0
          <5>2. Following(r, done) = at[r] + 1 \/ (at[r] = 2 /\ Following(r, done) = 5)
            BY Lengths DEF Following
          <5> QED BY <5>1, <5>2, <2>0
        <4> QED BY <4>1
      <3>11. <<r, 2>> \in running' => device'.supplicant = None
        <4> SUFFICES ASSUME <<r, 2>> \in running' PROVE device'.supplicant = None
          OBVIOUS
        <4>1. at[r] = 1
          BY <3>3, <3>6, <3>9, <3>10
        <4>2. Command(p) = "killall wpa_supplicant"
          BY <4>1, <3>4, Commands
        <4>3. Effect(Command(p), device).supplicant = None
          BY <4>2, <1>3 DEF Effect, Device
        <4> QED BY <4>3, <3>5
      <3>12. at'[r] >= 3 => device'.supplicant = r
        <4>1. CASE at[r] = 1
          BY <4>1, <3>6
        <4>2. CASE at[r] = 2
          <5>1. device.supplicant = None /\ device.conf = r
            BY <4>2, <3>1, <1>7 DEF Own
          <5>2. Command(p) = "wpa_supplicant -B"
            BY <4>2, <3>4, Commands
          <5>3. Effect(Command(p), device).supplicant = r
            BY <5>1, <5>2, <1>3 DEF Effect, Device
          <5> QED BY <5>3, <3>5
        <4>3. CASE at[r] = 3
          <5>1. device.supplicant = r /\ device.conf = r
            BY <4>3, <1>7 DEF Own
          <5>2. Command(p) = "wpa_cli RECONFIGURE"
            BY <4>3, <3>4, Commands
          <5>3. Effect(Command(p), device).supplicant = r
            BY <5>1, <5>2, <3>8, <1>3 DEF Effect, Device
          <5> QED BY <5>3, <3>5
        <4>4. CASE at[r] = 4
          <5>1. device.supplicant = r
            BY <4>4, <1>7 DEF Own
          <5>2. Command(p) = "ifconfig up"
            BY <4>4, <3>4, Commands
          <5>3. Effect(Command(p), device).supplicant = r
            BY <5>1, <5>2, <1>3 DEF Effect, Device
          <5> QED BY <5>3, <3>5
        <4> QED BY <3>3, <4>1, <4>2, <4>3, <4>4
      <3>13. at'[r] <= 4 => told'[r] = "nothing"
        <4> SUFFICES ASSUME at'[r] <= 4 PROVE told'[r] = "nothing"
          OBVIOUS
        <4>1. told[r] = "nothing"
          BY <3>3, <1>7 DEF Own
        <4>2. CASE r \in woken
          <5>1. ~(Following(r, done) > Len(Steps(r)))
            <6> DEFINE k == Following(r, done)
                       n == Len(Steps(r))
            <6>0. at'[r] \in Nat
              BY <2>0, <3>6
            <6>1. at'[r] = k /\ n = 4
              BY <4>2, <1>1, <2>0, <3>3
            <6> HIDE DEF k, n
            <6>2. ~(k > n)
              BY <6>0, <6>1
            <6> QED BY <6>2 DEF k, n
          <5> QED BY <5>1, <4>1, <1>1, <2>0
        <4>3. CASE r \notin woken
          BY <4>1, <4>3, <1>1, <2>0
        <4> QED BY <4>2, <4>3
      <3>14. kind'[r] = "connect" /\ at'[r] >= 1
        BY <1>1, <2>0, <3>3, <3>6
      <3> QED BY <3>5, <3>7, <3>11, <3>12, <3>13, <3>14 DEF Own
    <2> QED BY <2>1, <2>2
  <1>8. ASSUME NEW c \in Chains, at'[c] = 0 PROVE told'[c] = "nothing"
    <2>1. c \notin woken
      <3> SUFFICES ASSUME c \in woken PROVE FALSE
        OBVIOUS
      <3> DEFINE k == Following(c, done)
                 n == Len(Steps(c))
      <3>1. at'[c] = k
        BY <1>1
      <3>2. k \in 2 .. n + 1
        BY <1>2
      <3> HIDE DEF k, n
      <3> QED BY <3>1, <3>2, <1>8
    <2> QED BY <2>1, <1>1, <1>8 DEF CInv, Owned
  <1>9. ASSUME NEW r \in Requests, Lost(r) PROVE Lost(r)'
    <2>1. r \in Chains /\ kind[r] = "connect" /\ at[r] = 6
      BY <1>9 DEF Lost, Chains
    <2>2. Len(Steps(r)) = 4
      BY <2>1, StepsLength DEF Kinds
    <2>3. ~InProgress(r)
      <3> DEFINE n == Len(Steps(r))
      <3>1. n = 4 /\ at[r] = 6 /\ (InProgress(r) <=> at[r] \in 1 .. n)
        BY <2>1, <2>2 DEF InProgress
      <3> HIDE DEF n
      <3> QED BY <3>1
    <2>4. r \notin woken
      BY <2>3 DEF woken, Heard, Listeners
    <2> QED BY <1>1, <1>9, <2>1, <2>4 DEF Lost
  <1> QED BY <1>1, <1>7, <1>8, <1>9 DEF CInv, Owned

(* The end of the process: a connection in progress is lost, one that has
   ended is what it was. *)
LEMMA EndOwned ==
  ASSUME CInv, End
  PROVE  Owned'
  <1>1. /\ UNCHANGED <<kind, told, device, last, overlap>> /\ running' \subseteq running
        /\ \A c \in Chains : at'[c] = IF InProgress(c) THEN Cut(c) ELSE at[c]
    BY EndCuts DEF End, CInv
  <1>2. ASSUME NEW r \in Requests, Own(r) PROVE Own(r)' \/ Lost(r)'
    <2>1. r \in Chains /\ kind[r] = "connect" /\ at[r] \in Nat /\ at[r] >= 1
      BY <1>2 DEF Own, CInv, IInv, TypeOK, Chains
    <2>2. Len(Steps(r)) = 4
      BY <2>1, StepsLength DEF Kinds
    <2>3. CASE InProgress(r)
      <3>1. at'[r] = 6 /\ at[r] <= 4
        <4> DEFINE n == Len(Steps(r))
        <4>1. n = 4 /\ at'[r] = n + 2 /\ at[r] \in 1 .. n
          BY <1>1, <2>1, <2>2, <2>3 DEF Cut, InProgress
        <4> HIDE DEF n
        <4> QED BY <4>1
      <3> QED BY <1>1, <1>2, <3>1 DEF Own, Lost
    <2>4. CASE ~InProgress(r)
      BY <1>1, <1>2, <2>1, <2>4 DEF Own
    <2> QED BY <2>3, <2>4
  <1>3. ASSUME NEW r \in Requests, Lost(r) PROVE Lost(r)'
    <2>1. r \in Chains /\ kind[r] = "connect" /\ at[r] = 6
      BY <1>3 DEF Lost, Chains
    <2>2. Len(Steps(r)) = 4
      BY <2>1, StepsLength DEF Kinds
    <2>3. ~InProgress(r)
      <3> DEFINE n == Len(Steps(r))
      <3>1. n = 4 /\ at[r] = 6 /\ (InProgress(r) <=> at[r] \in 1 .. n)
        BY <2>1, <2>2 DEF InProgress
      <3> HIDE DEF n
      <3> QED BY <3>1
    <2> QED BY <1>1, <1>3, <2>1, <2>3 DEF Lost
  <1>4. \A c \in Chains : at'[c] = 0 => told'[c] = "nothing"
    <2> SUFFICES ASSUME NEW c \in Chains, at'[c] = 0 PROVE told'[c] = "nothing"
      OBVIOUS
    <2>1. Len(Steps(c)) \in Nat
      BY StepsLength DEF CInv, IInv, TypeOK, Kinds
    <2>2. at[c] = 0
      BY <1>1, <2>1 DEF Cut
    <2> QED BY <1>1, <2>2 DEF CInv, Owned
  <1> QED BY <1>1, <1>2, <1>3, <1>4 DEF CInv, Owned

(* Every step keeps what is known of a connection. *)
LEMMA OwnedStep ==
  ASSUME CInv, [Next]_vars
  PROVE  Owned'
  <1>1. ASSUME NEW b \in Boots, Boot(b) PROVE Owned'
    <2>1. /\ Begin(b, IF device.link THEN "disable" ELSE "enable")
          /\ device' = [device EXCEPT !.files = "client"]
      BY <1>1 DEF Boot
    <2>2. device'.conf = device.conf /\ device'.supplicant = device.supplicant
      BY <2>1 DEF CInv, IInv, TypeOK
    <2> QED BY <2>1, <2>2, BeginOwned DEF Chains, Kinds
  <1>2. ASSUME NEW r \in Requests, PutAccessPointDisable(r) PROVE Owned'
    <2>1. Begin(r, "disable") /\ device' = [device EXCEPT !.files = "client"]
      BY <1>2 DEF PutAccessPointDisable
    <2>2. device'.conf = device.conf /\ device'.supplicant = device.supplicant
      BY <2>1 DEF CInv, IInv, TypeOK
    <2> QED BY <2>1, <2>2, BeginOwned DEF Chains, Kinds
  <1>3. CASE Associate
    <2>1. device'.conf = device.conf /\ device'.supplicant = device.supplicant
      BY <1>3 DEF Associate, CInv, IInv, TypeOK
    <2> QED BY <1>3, <2>1 DEF Associate, CInv, Owned, Own, Lost
  <1>4. CASE UNCHANGED vars
    BY <1>4 DEF vars, CInv, Owned, Own, Lost
  <1> QED BY <1>1, <1>2, <1>3, <1>4, ConnectOwned, FinishOwned, EndOwned DEF Next

(* In the beginning nothing is under way. *)
LEMMA InitiallyOwned == Init => CInv
  <1> SUFFICES ASSUME Init PROVE CInv
    OBVIOUS
  <1>1. /\ running = {} /\ last["wifi"] = None /\ \A c \in Chains : told[c] = "nothing"
        /\ \A r \in Requests : r # None
    BY ChainsAssumption DEF Init, Chains
  <1> QED BY <1>1, Initially DEF CInv, Processes, Owned

(* A connection that is reported is one to the network asked for, unless another
   request came in between, or the end of the process. *)
THEOREM ConnectedToOwnHolds == Spec => []ConnectedToOwn
  <1>1. CInv /\ [Next]_vars => CInv'
    BY Inductive, ProcessesStep, OwnedStep DEF CInv
  <1>2. CInv => ConnectedToOwn
    <2> SUFFICES ASSUME CInv, NEW r \in Requests,
                        last["wifi"] = r, "wifi" \notin overlap, told[r] = "connected"
                 PROVE  device.supplicant = r
      BY DEF ConnectedToOwn
    <2>1. Own(r) /\ at[r] \in Nat
      BY DEF CInv, Owned, Lost, IInv, TypeOK, Chains
    <2> QED BY <2>1 DEF Own
  <1> QED BY <1>1, <1>2, InitiallyOwned, PTL DEF Spec, SafeSpec

-----------------------------------------------------------------------------
(* What the commands of a chain of the access point make of it, step by step. *)
APState(d, on, n) ==
  /\ (2 <= n /\ n <= 11) => ~d.dnsmasq
  /\ (3 <= n /\ n <= 10) => ~d.hostapd
  /\ (5 <= n /\ n <= 6)  => ~d.iface
  /\ n >= 7  => d.iface
  /\ n >= 10 => ~d.masked
  /\ n >= 11 => d.hostapd
  /\ n >= 12 => d.dnsmasq
  /\ (on /\ n >= 6) => d.files = "ap"
  /\ ~(on /\ n >= 6) => d.files = "client"

(* What is known of the access point while the last chain of its group is on
   its way or has ended, and met no other, *)
Underway(c) ==
  /\ kind[c] # "connect" /\ at[c] >= 1
  /\ \A p \in running : kind[p[1]] # "connect" => p = <<c, at[c]>>
  /\ APState(device, kind[c] = "enable", at[c])

\* unless the process ended before it: then nothing is.
Stopped(c) == kind[c] # "connect" /\ at[c] = Cut(c)

Settling ==
  \A c \in Chains : last["ap"] = c /\ "ap" \notin overlap => Underway(c) \/ Stopped(c)

AInv == IInv /\ Processes /\ Settling

(* A chain of the access point that begins. *)
LEMMA BeginSettling ==
  ASSUME AInv, NEW c \in Chains, NEW k \in Kinds, k # "connect", Begin(c, k),
         device' = [device EXCEPT !.files = "client"]
  PROVE  Settling'
  <1>1. /\ at[c] = 0 /\ at' = [at EXCEPT ![c] = 1] /\ kind' = [kind EXCEPT ![c] = k]
        /\ running' = running \cup {<<c, 1>>}
        /\ last' = [last EXCEPT ![Group(k)] = c]
        /\ overlap' = IF Busy(Group(k)) THEN overlap \cup {Group(k)} ELSE overlap \ {Group(k)}
    BY DEF Begin
  <1>2. Group(k) = "ap"
    BY DEF Group
  <1>3. last'["ap"] = c /\ kind'[c] = k /\ at'[c] = 1 /\ device'.files = "client"
    BY <1>1, <1>2 DEF AInv, IInv, TypeOK
  <1>4. ASSUME "ap" \notin overlap' PROVE Underway(c)'
    <2>1. ~Busy("ap")
      BY <1>1, <1>2, <1>4
    <2>2. ASSUME NEW p \in running PROVE kind'[p[1]] = "connect"
      <3>1. p[1] # c /\ p[1] \in Chains
        BY <1>1 DEF AInv, Processes, IInv, TypeOK
      <3>2. kind'[p[1]] = kind[p[1]]
        BY <1>1, <3>1 DEF AInv, IInv, TypeOK
      <3> QED BY <2>1, <3>2 DEF Busy, Group
    <2>3. \A p \in running' : kind'[p[1]] # "connect" => p = <<c, at'[c]>>
      BY <1>1, <1>3, <2>2
    <2> QED BY <1>3, <2>3 DEF Underway, APState
  <1> QED BY <1>3, <1>4 DEF Settling

(* A connection that begins changes nothing of it. *)
LEMMA ConnectSettling ==
  ASSUME AInv, NEW r \in Requests, PostWifiConnect(r)
  PROVE  Settling'
  <1>1. /\ at[r] = 0 /\ at' = [at EXCEPT ![r] = 1] /\ kind' = [kind EXCEPT ![r] = "connect"]
        /\ running' = running \cup {<<r, 1>>}
        /\ last' = [last EXCEPT ![Group("connect")] = r]
        /\ overlap' = IF Busy(Group("connect")) THEN overlap \cup {Group("connect")}
                                                ELSE overlap \ {Group("connect")}
        /\ device' = [device EXCEPT !.conf = r]
    BY DEF PostWifiConnect, Begin
  <1>2. Group("connect") = "wifi" /\ r \in Chains
    BY DEF Group, Chains
  <1>3. last'["ap"] = last["ap"] /\ ("ap" \in overlap' <=> "ap" \in overlap)
    BY <1>1, <1>2 DEF AInv, IInv, TypeOK
  <1>4. /\ device'.dnsmasq = device.dnsmasq /\ device'.hostapd = device.hostapd
        /\ device'.iface = device.iface /\ device'.masked = device.masked
        /\ device'.files = device.files
    BY <1>1 DEF AInv, IInv, TypeOK
  <1>5. ASSUME NEW c \in Chains, Underway(c) PROVE Underway(c)'
    <2>1. c # r
      BY <1>1, <1>5 DEF Underway
    <2>2. kind'[c] = kind[c] /\ at'[c] = at[c]
      BY <1>1, <1>5, <2>1 DEF AInv, IInv, TypeOK, Underway
    <2>3. ASSUME NEW p \in running', kind'[p[1]] # "connect" PROVE p \in running /\ kind[p[1]] # "connect"
      <3>1. kind'[r] = "connect"
        BY <1>1, <1>2 DEF AInv, IInv, TypeOK
      <3>2. p[1] # r
        BY <2>3, <3>1
      <3>3. p \in running /\ p[1] \in Chains
        BY <1>1, <3>2 DEF AInv, IInv, TypeOK
      <3> QED BY <1>1, <2>3, <3>2, <3>3 DEF AInv, IInv, TypeOK
    <2> QED BY <1>4, <1>5, <2>2, <2>3 DEF Underway, APState
  <1>6. ASSUME NEW c \in Chains, Stopped(c) PROVE Stopped(c)'
    <2>1. Len(Steps(c)) \in Nat
      BY StepsLength DEF AInv, IInv, TypeOK, Kinds
    <2>2. c # r
      BY <1>1, <1>6, <2>1 DEF Stopped, Cut
    <2> QED BY <1>1, <1>6, <2>2 DEF Stopped, Cut, Steps, AInv, IInv, TypeOK
  <1> QED BY <1>3, <1>5, <1>6 DEF AInv, Settling

(* The next command of a chain makes of the access point what it is to be
   before the command after it. *)
LEMMA DeviceSettling ==
  ASSUME NEW d \in Device, NEW on \in BOOLEAN, NEW n \in 1 .. 11, n > 5 => on,
         APState(d, on, n),
         NEW cmd, on => cmd = Program.enable[n], ~on => cmd = Program.disable[n],
         NEW done \in Outcomes(cmd, d),
         NEW after, on /\ n = 5 => after = [done EXCEPT !.files = "ap"],
         ~(on /\ n = 5) => after = done
  PROVE  APState(after, on, n + 1)
  <1> DEFINE e == Effect(cmd, d)
  <1>0. e \in Device /\ done \in Device /\ (done = e \/ done = [e EXCEPT !.link = TRUE])
    BY EffectType, OutcomeType
  <1> HIDE DEF e
  <1>1. /\ done.dnsmasq = e.dnsmasq /\ done.hostapd = e.hostapd /\ done.iface = e.iface
        /\ done.masked = e.masked /\ done.files = e.files
    BY <1>0 DEF Device
  <1>2. /\ after.dnsmasq = e.dnsmasq /\ after.hostapd = e.hostapd /\ after.iface = e.iface
        /\ after.masked = e.masked
        /\ (on /\ n = 5) => after.files = "ap"
        /\ ~(on /\ n = 5) => after.files = e.files
    BY <1>0, <1>1 DEF Device
  <1>3. CASE n = 1
    <2>1. cmd = "stop dnsmasq"
      BY <1>3, Commands
    <2>2. e = Effect("stop dnsmasq", d)
      BY <2>1 DEF e
    <2> QED BY <1>3, <1>2, <2>2 DEF Effect, Device, APState
  <1>4. CASE n = 2
    <2>1. cmd = "stop hostapd"
      BY <1>4, Commands
    <2>2. e = Effect("stop hostapd", d)
      BY <2>1 DEF e
    <2> QED BY <1>4, <1>2, <2>2 DEF Effect, Device, APState
  <1>5. CASE n = 3
    <2>1. cmd = "disable hostapd"
      BY <1>5, Commands
    <2>2. e = Effect("disable hostapd", d)
      BY <2>1 DEF e
    <2> QED BY <1>5, <1>2, <2>2 DEF Effect, Device, APState
  <1>6. CASE n = 4
    <2>1. cmd = "iw del"
      BY <1>6, Commands
    <2>2. e = Effect("iw del", d)
      BY <2>1 DEF e
    <2>3. e = [d EXCEPT !.iface = FALSE, !.hostapd = FALSE]
      BY <2>2 DEF Effect
    <2>4. /\ ~e.iface /\ ~e.hostapd /\ e.dnsmasq = d.dnsmasq /\ e.files = d.files
      BY <2>3 DEF Device
    <2>5. /\ ~d.dnsmasq /\ d.files = "client"
      BY <1>6 DEF APState
    <2> QED BY <1>6, <1>2, <2>4, <2>5 DEF APState
  <1>7. CASE n = 5
    <2>1. cmd = "restart dhcpd"
      BY <1>7, Commands
    <2>2. e = Effect("restart dhcpd", d)
      BY <2>1 DEF e
    <2> QED BY <1>7, <1>2, <2>2 DEF Effect, Device, APState
  <1>8. CASE n = 6
    <2>1. cmd = "iw add"
      <3>1. on
        BY <1>8
      <3>2. cmd = Program.enable[n]
        BY <3>1
      <3> QED BY <1>8, <3>2, Commands
    <2>2. e = Effect("iw add", d)
      BY <2>1 DEF e
    <2> QED BY <1>8, <1>2, <2>2 DEF Effect, Device, APState
  <1>9. CASE n = 7
    <2>1. cmd = "start dhcpcd"
      <3>1. on
        BY <1>9
      <3>2. cmd = Program.enable[n]
        BY <3>1
      <3> QED BY <1>9, <3>2, Commands
    <2>2. e = Effect("start dhcpcd", d)
      BY <2>1 DEF e
    <2> QED BY <1>9, <1>2, <2>2 DEF Effect, Device, APState
  <1>10. CASE n = 8
    <2>1. cmd = "enable hostapd"
      <3>1. on
        BY <1>10
      <3>2. cmd = Program.enable[n]
        BY <3>1
      <3> QED BY <1>10, <3>2, Commands
    <2>2. e = Effect("enable hostapd", d)
      BY <2>1 DEF e
    <2> QED BY <1>10, <1>2, <2>2 DEF Effect, Device, APState
  <1>11. CASE n = 9
    <2>1. cmd = "unmask hostapd"
      <3>1. on
        BY <1>11
      <3>2. cmd = Program.enable[n]
        BY <3>1
      <3> QED BY <1>11, <3>2, Commands
    <2>2. e = Effect("unmask hostapd", d)
      BY <2>1 DEF e
    <2> QED BY <1>11, <1>2, <2>2 DEF Effect, Device, APState
  <1>12. CASE n = 10
    <2>1. cmd = "start hostapd"
      <3>1. on
        BY <1>12
      <3>2. cmd = Program.enable[n]
        BY <3>1
      <3> QED BY <1>12, <3>2, Commands
    <2>2. e = Effect("start hostapd", d)
      BY <2>1 DEF e
    <2> QED BY <1>12, <1>2, <2>2 DEF Effect, Device, APState
  <1>13. CASE n = 11
    <2>1. cmd = "start dnsmasq"
      <3>1. on
        BY <1>13
      <3>2. cmd = Program.enable[n]
        BY <3>1
      <3> QED BY <1>13, <3>2, Commands
    <2>2. e = Effect("start dnsmasq", d)
      BY <2>1 DEF e
    <2> QED BY <1>13, <1>2, <2>2 DEF Effect, Device, APState
  <1> QED
    BY <1>3, <1>4, <1>5, <1>6, <1>7, <1>8, <1>9, <1>10, <1>11, <1>12, <1>13

(* The end of a connection's command leaves the access point alone; that of one
   of its own commands wakes the chain, which goes on to its next step. *)
LEMMA FinishSettling ==
  ASSUME AInv, NEW p \in running, Finish(p)
  PROVE  Settling'
  <1>0. PICK done \in Outcomes(Command(p), device) : FinishAs(p, done)
    BY DEF Finish
  <1> DEFINE woken == Heard(p)
             ends  == {c \in woken : Following(c, done) > Len(Steps(c))}
             next  == {<<c, Following(c, done)>> : c \in woken \ ends}
  <1>1. /\ at' = [c \in Chains |-> IF c \in woken THEN Following(c, done) ELSE at[c]]
        /\ running' = (running \ {p}) \cup next /\ kind' = kind
        /\ last' = last /\ overlap' = overlap
        /\ device' = IF \E c \in woken : kind[c] = "enable" /\ at[c] = Len(Disabling)
                       THEN [done EXCEPT !.files = "ap"] ELSE done
    BY <1>0 DEF FinishAs
  <1>2. \A c \in woken : /\ c \in Chains /\ <<c, at[c]>> \in running /\ Steps(c)[at[c]] = Command(p)
                         /\ kind[c] = "connect" <=> kind[p[1]] = "connect"
    BY Woken DEF AInv
  <1>3. device \in Device /\ done \in Device
    BY OutcomeType DEF AInv, IInv, TypeOK, Device
  <1>4. p[1] \in Chains /\ kind[p[1]] \in Kinds /\ p[2] \in 1 .. Len(Steps(p[1]))
    BY DEF AInv, Processes, IInv, TypeOK, Kinds
  <1>5. Command(p) \in WifiCommands <=> kind[p[1]] = "connect"
    BY <1>4, CommandGroup DEF Command
  <1>6. ASSUME NEW c \in Chains, Underway(c), kind[p[1]] = "connect" PROVE Underway(c)'
    <2>1. /\ done.dnsmasq = device.dnsmasq /\ done.hostapd = device.hostapd
          /\ done.iface = device.iface /\ done.masked = device.masked /\ done.files = device.files
      BY <1>3, <1>5, <1>6, WifiLeavesAP
    <2>2. \A x \in woken : kind[x] = "connect"
      BY <1>2, <1>6
    <2>3. c \notin woken /\ device' = done
      BY <2>2, <1>1, <1>6 DEF Underway
    <2>4. at'[c] = at[c]
      BY <2>3, <1>1
    <2>5. ASSUME NEW q \in running', kind[q[1]] # "connect" PROVE q \in running
      <3>1. ASSUME q \in next PROVE FALSE
        <4>1. PICK x \in woken : q[1] = x
          BY <3>1
        <4> QED BY <4>1, <2>2, <2>5
      <3> QED BY <3>1, <1>1
    <2> QED BY <1>1, <1>6, <2>1, <2>3, <2>4, <2>5 DEF Underway, APState
  <1>7. ASSUME NEW c \in Chains, Underway(c), kind[p[1]] # "connect" PROVE Underway(c)'
    <2>1. p = <<c, at[c]>> /\ kind[c] \in {"enable", "disable"} /\ at[c] \in Nat
      BY <1>7 DEF Underway, AInv, IInv, TypeOK
    <2>2. at[c] \in 1 .. Len(Steps(c)) /\ Command(p) = Steps(c)[at[c]]
      BY <2>1, <1>4 DEF Command
    <2>3. c \in woken
      BY <2>2, <1>7 DEF Heard, Listeners, InProgress, Underway
    <2>4. woken \subseteq {c}
      <3> SUFFICES ASSUME NEW x \in woken PROVE x = c
        OBVIOUS
      <3>1. <<x, at[x]>> \in running /\ kind[<<x, at[x]>>[1]] # "connect"
        BY <1>2, <1>7
      <3> QED BY <3>1, <1>7 DEF Underway
    <2>5. Following(c, done) = at[c] + 1
      BY <2>1 DEF Following
    <2>6. at'[c] = at[c] + 1 /\ kind'[c] = kind[c]
      BY <2>3, <2>5, <1>1, <1>7 DEF Underway
    <2>7. /\ (kind[c] = "enable" /\ at[c] = 5) => device' = [done EXCEPT !.files = "ap"]
          /\ ~(kind[c] = "enable" /\ at[c] = 5) => device' = done
      BY <2>3, <2>4, <1>1, Lengths
    <2>8. ASSUME NEW q \in running', kind[q[1]] # "connect" PROVE q = <<c, at'[c]>>
      <3>1. CASE q \in running
        <4>1. q = p
          BY <3>1, <2>1, <2>8, <1>7 DEF Underway
        <4>2. q \in next
          BY <4>1, <1>1
        <4>3. PICK x \in woken \ ends : q = <<x, Following(x, done)>>
          BY <4>2
        <4>4. x = c
          BY <4>3, <2>4
        <4> QED BY <4>3, <4>4, <2>5, <2>6
      <3>2. CASE q \in next
        <4>3. PICK x \in woken \ ends : q = <<x, Following(x, done)>>
          BY <3>2
        <4>4. x = c
          BY <4>3, <2>4
        <4> QED BY <4>3, <4>4, <2>5, <2>6
      <3> QED BY <3>1, <3>2, <1>1
    <2>9. at[c] \in 1 .. 11 /\ (at[c] > 5 => kind[c] = "enable")
      <3>1. (kind[c] = "enable" => Len(Steps(c)) = 11) /\ (kind[c] = "disable" => Len(Steps(c)) = 5)
        BY <2>1, StepsLength DEF Kinds
      <3>2. CASE kind[c] = "enable"
        <4>1. at[c] \in 1 .. 11
          BY <3>1, <3>2, <2>2
        <4> QED BY <4>1, <3>2
      <3>3. CASE kind[c] = "disable"
        <4>1. at[c] \in 1 .. 5
          BY <3>1, <3>3, <2>2
        <4> QED BY <4>1
      <3> QED BY <2>1, <3>2, <3>3
    <2>10. (kind[c] = "enable") \in BOOLEAN
      OBVIOUS
    <2>11. /\ kind[c] = "enable" => Command(p) = Program.enable[at[c]]
           /\ ~(kind[c] = "enable") => Command(p) = Program.disable[at[c]]
      BY <2>1, <2>2 DEF Steps
    <2>12. APState(device, kind[c] = "enable", at[c])
      BY <1>7 DEF Underway
    <2>13. APState(device', kind[c] = "enable", at[c] + 1)
      <3> DEFINE on == kind[c] = "enable"
                 n == at[c]
                 cmd == Command(p)
                 after == device'
      <3>1. n \in 1 .. 11 /\ (n > 5 => on) /\ on \in BOOLEAN
        BY <2>9, <2>10
      <3>2. APState(device, on, n)
        BY <2>12
      <3>3. (on => cmd = Program.enable[n]) /\ (~on => cmd = Program.disable[n])
        BY <2>11
      <3>4. done \in Outcomes(cmd, device) /\ device \in Device
        BY <1>3
      <3>5. (on /\ n = 5 => after = [done EXCEPT !.files = "ap"]) /\ (~(on /\ n = 5) => after = done)
        BY <2>7
      <3>6. APState(after, on, n + 1)
        <4> HIDE DEF on, n, cmd, after
        <4> QED BY <3>1, <3>2, <3>3, <3>4, <3>5, DeviceSettling
      <3> QED BY <3>6
    <2> QED BY <1>1, <2>1, <2>6, <2>8, <2>13, <1>7 DEF Underway
  <1>8. ASSUME NEW c \in Chains, Underway(c) PROVE Underway(c)'
    BY <1>6, <1>7, <1>8
  <1>9. ASSUME NEW c \in Chains, Stopped(c) PROVE Stopped(c)'
    <2>1. Len(Steps(c)) \in Nat
      BY StepsLength DEF AInv, IInv, TypeOK, Kinds
    <2>2. c \notin woken
      BY <1>9, <2>1 DEF Heard, Listeners, InProgress, Stopped, Cut
    <2> QED BY <1>1, <1>9, <2>2 DEF Stopped, Cut, Steps
  <1> QED BY <1>1, <1>8, <1>9 DEF AInv, Settling

(* The end of the process: a chain in progress is stopped, one that has ended
   has done what it has. *)
LEMMA EndSettling ==
  ASSUME AInv, End
  PROVE  Settling'
  <1>1. /\ UNCHANGED <<kind, device, last, overlap>> /\ running' \subseteq running
        /\ \A c \in Chains : /\ at'[c] = IF InProgress(c) THEN Cut(c) ELSE at[c]
                            /\ Len(Steps(c)) \in 4 .. 11 /\ Steps(c)' = Steps(c)
    BY EndCuts DEF End, AInv
  <1>2. ASSUME NEW c \in Chains, Underway(c) PROVE Underway(c)' \/ Stopped(c)'
    <2>1. CASE InProgress(c)
      BY <1>1, <1>2, <2>1 DEF Underway, Stopped, Cut
    <2>2. CASE ~InProgress(c)
      BY <1>1, <1>2, <2>2 DEF Underway, APState
    <2> QED BY <2>1, <2>2
  <1>3. ASSUME NEW c \in Chains, Stopped(c) PROVE Stopped(c)'
    BY <1>1, <1>3 DEF Stopped, Cut
  <1> QED BY <1>1, <1>2, <1>3 DEF AInv, Settling

(* Every step keeps what is known of the access point. *)
LEMMA SettlingStep ==
  ASSUME AInv, [Next]_vars
  PROVE  Settling'
  <1>1. ASSUME NEW b \in Boots, Boot(b) PROVE Settling'
    <2>1. /\ Begin(b, IF device.link THEN "disable" ELSE "enable")
          /\ device' = [device EXCEPT !.files = "client"]
      BY <1>1 DEF Boot
    <2> QED BY <2>1, BeginSettling DEF Chains, Kinds
  <1>2. ASSUME NEW r \in Requests, PutAccessPointDisable(r) PROVE Settling'
    <2>1. /\ Begin(r, "disable") /\ device' = [device EXCEPT !.files = "client"]
      BY <1>2 DEF PutAccessPointDisable
    <2> QED BY <2>1, BeginSettling DEF Chains, Kinds
  <1>3. CASE Associate
    <2>1. /\ device'.dnsmasq = device.dnsmasq /\ device'.hostapd = device.hostapd
          /\ device'.iface = device.iface /\ device'.masked = device.masked
          /\ device'.files = device.files
      BY <1>3 DEF Associate, AInv, IInv, TypeOK
    <2> QED
      BY <1>3, <2>1 DEF Associate, AInv, Settling, Underway, APState, Stopped, Cut, Steps
  <1>4. CASE UNCHANGED vars
    BY <1>4 DEF vars, AInv, Settling, Underway, Stopped, Cut, Steps
  <1> QED BY <1>1, <1>2, <1>3, <1>4, ConnectSettling, FinishSettling, EndSettling DEF Next

(* In the beginning no chain is on its way. *)
LEMMA InitiallySettling == Init => AInv
  BY Initially, ChainsAssumption DEF Init, AInv, Processes, Settling

(* A chain of the access point that came to its end, and found no command of
   another one under way when it began, has made of the access point what it was
   to, whatever the state the one before had left it in: one that went well, or
   one whose process was ended after any of its commands. *)
THEOREM SettledRightHolds == Spec => []SettledRight
  <1>1. AInv /\ [Next]_vars => AInv'
    BY Inductive, ProcessesStep, SettlingStep DEF AInv
  <1>2. AInv => SettledRight
    <2> SUFFICES ASSUME AInv, NEW c \in Chains, last["ap"] = c, "ap" \notin overlap, Ended(c)
                 PROVE  LET on == kind[c] = "enable"
                        IN  /\ device.hostapd = on /\ device.dnsmasq = on /\ device.iface = on
                            /\ device.files = IF on THEN "ap" ELSE "client"
      BY DEF SettledRight
    <2>1. Len(Steps(c)) \in Nat /\ at[c] = Len(Steps(c)) + 1
      BY StepsLength DEF AInv, IInv, TypeOK, Kinds, Ended
    <2>2. ~Stopped(c)
      BY <2>1 DEF Stopped, Cut
    <2>3. Underway(c) /\ kind[c] \in {"enable", "disable"}
      BY <2>2 DEF AInv, Settling, IInv, TypeOK, Underway
    <2>4. /\ kind[c] = "enable" => Len(Steps(c)) = 11
          /\ kind[c] = "disable" => Len(Steps(c)) = 5
      BY <2>3, StepsLength DEF Kinds
    <2>6. device \in Device
      BY DEF AInv, IInv, TypeOK, Device
    <2>7. CASE kind[c] = "enable"
      <3>1. at[c] = 12
        <4> DEFINE n == Len(Steps(c))
        <4>1. n = 11 /\ at[c] = n + 1
          BY <2>1, <2>4, <2>7
        <4> HIDE DEF n
        <4> QED BY <4>1
      <3>2. APState(device, TRUE, 12)
        BY <2>3, <2>7, <3>1 DEF Underway
      <3>3. device.hostapd = TRUE /\ device.dnsmasq = TRUE /\ device.iface = TRUE /\ device.files = "ap"
        BY <2>6, <3>2 DEF APState, Device
      <3> QED BY <2>7, <3>3
    <2>8. CASE kind[c] = "disable"
      <3>1. at[c] = 6
        <4> DEFINE n == Len(Steps(c))
        <4>1. n = 5 /\ at[c] = n + 1
          BY <2>1, <2>4, <2>8
        <4> HIDE DEF n
        <4> QED BY <4>1
      <3>2. APState(device, FALSE, 6)
        BY <2>3, <2>8, <3>1 DEF Underway
      <3>3. device.hostapd = FALSE /\ device.dnsmasq = FALSE /\ device.iface = FALSE /\ device.files = "client"
        BY <2>6, <3>2 DEF APState, Device
      <3> QED BY <2>8, <3>3
    <2> QED BY <2>3, <2>7, <2>8
  <1> QED BY <1>1, <1>2, InitiallySettling, PTL DEF Spec, SafeSpec


-----------------------------------------------------------------------------
(* The requests the server has counted and not taken off: those it has yet to
   answer and those whose body did not parse. *)
Counted == {r \in Request : request[r] \in {"parsing", "scanning", "failed"}}

(* While the process runs the counter is their number; it leaves as long as
   there are any, and has left on its own only when there are none, the last of
   them cut off. *)
CountInv ==
  /\ IsFiniteSet(Counted)
  /\ Server!Running => requestsCount = Cardinality(Counted)
  /\ server = "leaving" => Counted # {}
  /\ server = "off" => Counted = {}
  /\ \A q, r \in Request : request[q] = "cut" /\ request[r] = "cut" => q = r
  /\ \A r \in Request : request[r] = "cut" => server = "off"

(* Only the last post is under way if nothing met it; the file it has opened is
   empty, and the one it has written is whole. *)
FileInv ==
  ~disturbed =>
    /\ \A q \in Request : Server!Writing(q) => q = posted
    /\ posted # Server!Nothing /\ writing[posted] = "write" => file = <<>>
    /\ posted # Server!Nothing /\ writing[posted] = "written" => Server!Whole(posted)

ServerInv == Server!TypeOK /\ CountInv /\ FileInv

(* A server that has just been started has counted nothing. *)
LEMMA ServerInitially == Server!Init => ServerInv
  <1> SUFFICES ASSUME Server!Init PROVE ServerInv
    OBVIOUS
  <1>1. Server!TypeOK
    BY EmptySeq DEF Server!Init, Server!TypeOK, Server!Operation, Server!Nothing
  <1>2. Counted = {}
    BY DEF Server!Init, Counted
  <1>3. CountInv
    BY <1>2, FS_EmptySet DEF Server!Init, CountInv, Server!Running
  <1>4. FileInv
    BY DEF Server!Init, FileInv, Server!Writing, Server!Nothing
  <1> QED BY <1>1, <1>3, <1>4 DEF ServerInv

(* What a write makes of a file that is empty is its content, whole. *)
LEMMA WrittenWhole ==
  ASSUME Server!TypeOK, NEW r \in Request, Server!WriteData(r)
  PROVE  /\ file' \in Seq(Request)
         /\ file = <<>> => Server!Whole(r)'
  <1> DEFINE n    == PropertiesSize[r]
             body == [i \in 1 .. n |-> r]
             rest == SubSeq(file, n + 1, Len(file))
  <1>1. n \in Nat
    BY SizesAssumption
  <1>2. file' = body \o rest
    BY DEF Server!WriteData
  <1>3. body \in Seq(Request)
    BY <1>1, IsASeq
  <1>4. file \in Seq(Request) /\ Len(file) \in Nat
    BY LenProperties DEF Server!TypeOK
  <1>5. \A i \in n + 1 .. Len(file) : file[i] \in Request
    BY <1>1, <1>4, ElementOfSeq
  <1>6. rest \in Seq(Request)
    BY <1>1, <1>4, <1>5, SubSeqProperties
  <1>7. file' \in Seq(Request)
    BY <1>2, <1>3, <1>6, ConcatProperties
  <1>8. ASSUME file = <<>> PROVE file' = body
    <2>1. Len(file) = 0
      BY <1>8, EmptySeq
    <2>2. rest = <<>>
      <3> HIDE DEF n
      <3>1. Len(file) < n + 1 /\ n + 1 \in Int /\ Len(file) \in Int
        BY <1>1, <2>1
      <3> QED BY <3>1, SubSeqEmpty
    <2> HIDE DEF body, rest
    <2> QED BY <1>2, <1>3, <2>2, ConcatEmptySeq
  <1> QED BY <1>7, <1>8 DEF Server!Whole

(* What a write that fails leaves is a file. *)
LEMMA FailedWrite ==
  ASSUME Server!TypeOK, NEW r \in Request, Server!WriteFails(r)
  PROVE  file' \in Seq(Request)
  <1>1. file \in Seq(Request) /\ Len(file) \in Nat
    BY LenProperties DEF Server!TypeOK
  <1>2. ASSUME NEW n \in 0 .. PropertiesSize[r],
               file' = [i \in 1 .. n |-> r] \o SubSeq(file, n + 1, Len(file))
        PROVE  file' \in Seq(Request)
    <2> DEFINE body == [i \in 1 .. n |-> r]
               rest == SubSeq(file, n + 1, Len(file))
    <2>1. n \in Nat
      BY SizesAssumption
    <2>2. body \in Seq(Request)
      BY <2>1, IsASeq
    <2>3. \A i \in n + 1 .. Len(file) : file[i] \in Request
      BY <1>1, <2>1, ElementOfSeq
    <2>4. rest \in Seq(Request)
      BY <1>1, <2>1, <2>3, SubSeqProperties
    <2> HIDE DEF body, rest
    <2>5. file' = body \o rest
      BY <1>2 DEF body, rest
    <2> QED BY <2>2, <2>4, <2>5, ConcatProperties
  <1> QED BY <1>1, <1>2 DEF Server!WriteFails

(* Every variable of the server keeps its type. *)
LEMMA ServerTypes ==
  ASSUME ServerInv, Server!Next
  PROVE  Server!TypeOK'
  <1> USE DEF Server!Goes
  <1>0. Server!TypeOK
    BY DEF ServerInv
  <1>1. ASSUME NEW r \in Request, Server!Receive(r) PROVE Server!TypeOK'
    BY <1>0, <1>1 DEF Server!Receive, Server!TypeOK
  <1>2. ASSUME NEW r \in Request, Server!BodyFails(r) PROVE Server!TypeOK'
    BY <1>0, <1>2 DEF Server!BodyFails, Server!TypeOK
  <1>3. ASSUME NEW r \in Request, Server!Answer(r) PROVE Server!TypeOK'
    <2>1. request[r] \in {"parsing", "scanning"} /\ Server!Running
      BY <1>3 DEF Server!Answer
    <2>2. r \in Counted /\ requestsCount = Cardinality(Counted) /\ IsFiniteSet(Counted)
      BY <2>1 DEF ServerInv, CountInv, Counted
    <2>3. requestsCount \in Nat /\ requestsCount # 0
      BY <2>2, FS_EmptySet, FS_CardinalityType
    <2>4. requestsCount' \in Nat /\ server' \in {"up", "leaving", "off", "killed"}
      BY <1>0, <1>3, <2>3 DEF Server!Answer, Server!Leaves, Server!TypeOK
    <2>5. request' \in [Request -> {"new", "parsing", "scanning", "answered", "cut", "failed", "past"}]
      BY <1>0, <1>3 DEF Server!Answer, Server!Leaves, Server!TypeOK
    <2>6. Server!Read \in Request \cup {Server!Nothing}
      BY DEF Server!Read
    <2>7. answer' \in [Request -> Request \cup {Server!Nothing}]
      BY <1>0, <1>3, <2>6 DEF Server!Answer, Server!TypeOK
    <2>8. /\ scanned' \in BOOLEAN /\ disturbed' \in BOOLEAN
          /\ posted' \in Request \cup {Server!Nothing}
      BY <1>0, <1>3 DEF Server!Answer, Server!TypeOK
    <2>9. writing' \in [Request -> {Server!Nothing, "open", "write", "written", "failed", "cut"}]
      BY <1>0, <1>3 DEF Server!Answer, Server!TypeOK
    <2>10. op' = op /\ file' = file
      BY <1>3 DEF Server!Answer
    <2> QED BY <1>0, <2>4, <2>5, <2>7, <2>8, <2>9, <2>10 DEF Server!TypeOK
  <1>4. ASSUME NEW r \in Request, Server!Scan(r) PROVE Server!TypeOK'
    BY <1>0, <1>4 DEF Server!Scan, Server!TypeOK
  <1>5. ASSUME NEW r \in Request, Server!WriteOpen(r) PROVE Server!TypeOK'
    BY <1>0, <1>5, EmptySeq DEF Server!WriteOpen, Server!TypeOK
  <1>6. ASSUME NEW r \in Request, Server!WriteData(r) PROVE Server!TypeOK'
    <2>1. file' \in Seq(Request)
      BY <1>0, <1>6, WrittenWhole
    <2> QED BY <1>0, <1>6, <2>1 DEF Server!WriteData, Server!TypeOK
  <1>10. ASSUME NEW r \in Request, Server!WriteFails(r) PROVE Server!TypeOK'
    <2>1. file' \in Seq(Request)
      BY <1>0, <1>10, FailedWrite
    <2> QED BY <1>0, <1>10, <2>1 DEF Server!WriteFails, Server!TypeOK
  <1>7. CASE Server!Sigint
    BY <1>0, <1>7 DEF Server!Sigint, Server!TypeOK
  <1>8. CASE Server!Killed
    BY <1>0, <1>8 DEF Server!Killed, Server!TypeOK
  <1>9. CASE Server!Started
    BY <1>0, <1>9 DEF Server!Started, Server!TypeOK
  <1> QED
    BY <1>1, <1>2, <1>3, <1>4, <1>5, <1>6, <1>7, <1>8, <1>9, <1>10 DEF Server!Next, Server!Work

-----------------------------------------------------------------------------
(* Every step of the server counts the requests as they come and go, and ends a
   process that is to leave with the last of them. *)
LEMMA ServerCounts ==
  ASSUME ServerInv, Server!Next
  PROVE  CountInv'
  <1> USE DEF Server!Goes
  <1>0. Server!TypeOK /\ CountInv /\ IsFiniteSet(Counted)
    BY DEF ServerInv, CountInv
  <1>1. ASSUME NEW r \in Request, Server!Receive(r) PROVE CountInv'
    <2>1. Counted' = Counted \cup {r} /\ r \notin Counted
      BY <1>0, <1>1 DEF Server!Receive, Server!TypeOK, Counted
    <2>2. IsFiniteSet(Counted') /\ Cardinality(Counted') = Cardinality(Counted) + 1
      BY <1>0, <2>1, FS_AddElement
    <2>3. server' = server /\ requestsCount' = requestsCount + 1 /\ Server!Running
      BY <1>1 DEF Server!Receive
    <2>4. \A q \in Request : request'[q] # "cut"
      BY <1>0, <1>1, <2>3 DEF Server!Receive, Server!TypeOK, CountInv, Server!Running
    <2> QED BY <1>0, <2>1, <2>2, <2>3, <2>4 DEF CountInv, Server!Running
  <1>2. ASSUME NEW r \in Request, Server!BodyFails(r) PROVE CountInv'
    <2>1. Counted' = Counted /\ \A q \in Request : request'[q] = "cut" => request[q] = "cut"
      BY <1>0, <1>2 DEF Server!BodyFails, Server!TypeOK, Counted
    <2> QED BY <1>0, <1>2, <2>1 DEF Server!BodyFails, CountInv, Server!Running
  <1>3. ASSUME NEW r \in Request, Server!Answer(r) PROVE CountInv'
    <2>1. Server!Running /\ r \in Counted
      BY <1>3 DEF Server!Answer, Counted
    <2>2. /\ Counted' = Counted \ {r}
          /\ \A q \in Request \ {r} : request'[q] = request[q]
          /\ request'[r] = "cut" => server' = "off"
      BY <1>0, <1>3 DEF Server!Answer, Server!Leaves, Server!TypeOK, Counted
    <2>3. IsFiniteSet(Counted') /\ Cardinality(Counted') = Cardinality(Counted) - 1
      BY <1>0, <2>1, <2>2, FS_RemoveElement
    <2>4. requestsCount = Cardinality(Counted) /\ requestsCount \in Nat
      BY <1>0, <2>1 DEF CountInv, Server!TypeOK
    <2>5. /\ requestsCount' = requestsCount - 1
          /\ server' = IF requestsCount = 1 /\ server = "leaving" THEN "off" ELSE server
      BY <1>3 DEF Server!Answer, Server!Leaves
    <2>6. Counted' = {} <=> requestsCount = 1
      BY <2>3, <2>4, FS_EmptySet
    <2>7. \A q \in Request : request[q] # "cut"
      BY <1>0, <2>1 DEF CountInv, Server!Running
    <2>8. \A q \in Request : request'[q] = "cut" => q = r
      BY <2>2, <2>7
    <2> QED BY <2>1, <2>2, <2>3, <2>4, <2>5, <2>6, <2>8 DEF CountInv, Server!Running
  <1>4. ASSUME NEW r \in Request, Server!Scan(r) PROVE CountInv'
    <2>1. Counted' = Counted /\ \A q \in Request : request'[q] = "cut" => request[q] = "cut"
      BY <1>0, <1>4 DEF Server!Scan, Server!TypeOK, Counted
    <2> QED BY <1>0, <1>4, <2>1 DEF Server!Scan, CountInv, Server!Running
  <1>5. ASSUME NEW r \in Request, Server!WriteOpen(r) PROVE CountInv'
    BY <1>0, <1>5 DEF Server!WriteOpen, CountInv, Counted, Server!Running
  <1>6. ASSUME NEW r \in Request, Server!WriteData(r) PROVE CountInv'
    BY <1>0, <1>6 DEF Server!WriteData, CountInv, Counted, Server!Running
  <1>10. ASSUME NEW r \in Request, Server!WriteFails(r) PROVE CountInv'
    BY <1>0, <1>10 DEF Server!WriteFails, CountInv, Counted, Server!Running
  <1>7. CASE Server!Sigint
    <2>1. /\ server = "up" /\ Counted' = Counted /\ requestsCount' = requestsCount
          /\ server' = IF requestsCount <= 0 THEN "off" ELSE "leaving"
          /\ request' = request
      BY <1>7 DEF Server!Sigint, Counted
    <2>2. requestsCount = Cardinality(Counted) /\ requestsCount \in Nat
      BY <1>0, <2>1 DEF CountInv, Server!Running, Server!TypeOK
    <2>3. Counted = {} <=> requestsCount <= 0
      BY <1>0, <2>2, FS_EmptySet
    <2>4. \A q \in Request : request'[q] # "cut"
      BY <1>0, <2>1 DEF CountInv
    <2> QED BY <1>0, <2>1, <2>2, <2>3, <2>4 DEF CountInv, Server!Running
  <1>8. CASE Server!Killed
    BY <1>0, <1>8 DEF Server!Killed, CountInv, Counted, Server!Running
  <1>9. CASE Server!Started
    <2>1. Counted' = {} /\ \A q \in Request : request'[q] # "cut"
      BY <1>0, <1>9 DEF Server!Started, Counted
    <2> QED BY <1>9, <2>1, FS_EmptySet DEF Server!Started, CountInv, Server!Running
  <1> QED
    BY <1>1, <1>2, <1>3, <1>4, <1>5, <1>6, <1>7, <1>8, <1>9, <1>10 DEF Server!Next, Server!Work

(* A post that finds a write under way, and a start that finds one cut, are what
   disturbs; otherwise a step moves no write but the last post's, which empties
   the file first. *)
LEMMA ServerWrites ==
  ASSUME ServerInv, Server!Next
  PROVE  FileInv'
  <1> USE DEF Server!Goes
  <1>0. Server!TypeOK /\ FileInv
    BY DEF ServerInv
  <1>1. ASSUME NEW r \in Request, Server!Receive(r) PROVE FileInv'
    BY <1>0, <1>1 DEF Server!Receive, FileInv, Server!Writing, Server!Whole
  <1>2. ASSUME NEW r \in Request, Server!BodyFails(r) PROVE FileInv'
    BY <1>0, <1>2 DEF Server!BodyFails, FileInv, Server!Writing, Server!Whole
  <1>3. ASSUME NEW r \in Request, Server!Answer(r) PROVE FileInv'
    <2>1. file' = file
      BY <1>3 DEF Server!Answer
    <2>2. CASE UNCHANGED <<writing, posted, disturbed>>
      BY <1>0, <2>1, <2>2 DEF FileInv, Server!Writing, Server!Whole
    <2>3. CASE /\ writing' = [writing EXCEPT ![r] = "open"]
               /\ posted' = r /\ disturbed' = \E q \in Request : Server!Writing(q)
      <3> SUFFICES ASSUME ~disturbed' PROVE FileInv'
        BY DEF FileInv
      <3>1. \A q \in Request : ~Server!Writing(q)
        BY <2>3
      <3>2. writing'[r] = "open" /\ \A q \in Request \ {r} : writing'[q] = writing[q]
        BY <1>0, <2>3 DEF Server!TypeOK
      <3>3. \A q \in Request : Server!Writing(q)' => q = r
        BY <3>1, <3>2 DEF Server!Writing
      <3> QED BY <2>3, <3>2, <3>3 DEF FileInv
    <2> QED BY <1>3, <2>2, <2>3 DEF Server!Answer
  <1>4. ASSUME NEW r \in Request, Server!Scan(r) PROVE FileInv'
    BY <1>0, <1>4 DEF Server!Scan, FileInv, Server!Writing, Server!Whole
  <1>5. ASSUME NEW r \in Request, Server!WriteOpen(r) PROVE FileInv'
    <2> SUFFICES ASSUME ~disturbed PROVE FileInv'
      BY <1>5 DEF FileInv, Server!WriteOpen
    <2>1. r = posted /\ \A q \in Request : Server!Writing(q) => q = r
      BY <1>0, <1>5 DEF FileInv, Server!WriteOpen, Server!Writing
    <2>2. /\ writing' = [writing EXCEPT ![r] = "write"] /\ file' = <<>>
          /\ posted' = posted
      BY <1>5 DEF Server!WriteOpen
    <2>3. writing'[r] = "write" /\ \A q \in Request \ {r} : writing'[q] = writing[q]
      BY <1>0, <2>2 DEF Server!TypeOK
    <2>4. \A q \in Request : Server!Writing(q)' => q = r
      BY <2>1, <2>3 DEF Server!Writing
    <2> QED BY <2>1, <2>2, <2>3, <2>4 DEF FileInv
  <1>6. ASSUME NEW r \in Request, Server!WriteData(r) PROVE FileInv'
    <2> SUFFICES ASSUME ~disturbed PROVE FileInv'
      BY <1>6 DEF FileInv, Server!WriteData
    <2>1. /\ r = posted /\ \A q \in Request : Server!Writing(q) => q = r
          /\ posted # Server!Nothing => file = <<>>
      BY <1>0, <1>6 DEF FileInv, Server!WriteData, Server!Writing
    <2>2. writing' = [writing EXCEPT ![r] = "written"] /\ posted' = posted
      BY <1>6 DEF Server!WriteData
    <2>3. writing'[r] = "written" /\ \A q \in Request \ {r} : writing'[q] = writing[q]
      BY <1>0, <2>2 DEF Server!TypeOK
    <2>4. \A q \in Request : Server!Writing(q)' => q = r
      BY <2>1, <2>3 DEF Server!Writing
    <2>5. posted # Server!Nothing => Server!Whole(r)'
      BY <1>0, <1>6, <2>1, WrittenWhole
    <2> QED BY <2>1, <2>2, <2>3, <2>4, <2>5 DEF FileInv, Server!Whole
  <1>10. ASSUME NEW r \in Request, Server!WriteFails(r) PROVE FileInv'
    <2> SUFFICES ASSUME ~disturbed PROVE FileInv'
      BY <1>10 DEF FileInv, Server!WriteFails
    <2>1. r = posted /\ \A q \in Request : Server!Writing(q) => q = r
      BY <1>0, <1>10 DEF FileInv, Server!WriteFails
    <2>2. writing' = [writing EXCEPT ![r] = "failed"] /\ posted' = posted
      BY <1>10 DEF Server!WriteFails
    <2>3. writing'[r] = "failed" /\ \A q \in Request \ {r} : writing'[q] = writing[q]
      BY <1>0, <2>2 DEF Server!TypeOK
    <2> QED BY <2>1, <2>2, <2>3 DEF FileInv, Server!Writing
  <1>7. CASE Server!Sigint
    BY <1>0, <1>7 DEF Server!Sigint, FileInv, Server!Writing, Server!Whole
  <1>8. CASE Server!Killed
    BY <1>0, <1>8 DEF Server!Killed, FileInv, Server!Writing, Server!Whole
  <1>9. CASE Server!Started
    <2> SUFFICES ASSUME ~disturbed' PROVE FileInv'
      BY DEF FileInv
    <2>1. ~disturbed /\ \A r \in Request : ~Server!Writing(r)
      BY <1>9 DEF Server!Started
    <2>2. writing' = [r \in Request |-> IF Server!Writing(r) THEN "cut" ELSE writing[r]]
          /\ file' = file /\ posted' = posted
      BY <1>9 DEF Server!Started
    <2>3. \A r \in Request : writing'[r] = writing[r]
      BY <2>1, <2>2
    <2>4. posted # Server!Nothing => posted \in Request
      BY <1>0 DEF Server!TypeOK
    <2> QED BY <1>0, <2>1, <2>2, <2>3, <2>4 DEF FileInv, Server!Writing, Server!Whole
  <1> QED
    BY <1>1, <1>2, <1>3, <1>4, <1>5, <1>6, <1>7, <1>8, <1>9, <1>10 DEF Server!Next, Server!Work

(* The steps of the wifi service are none of the server's, and so it keeps its
   invariant in the firmware. *)
THEOREM ServerInvariance == FirmwareSpec => []ServerInv
  <1>1. FirmwareInit => ServerInv
    BY ServerInitially DEF FirmwareInit
  <1>2. ASSUME ServerInv, [FirmwareNext]_<<vars, serverVars, part>> PROVE ServerInv'
    <2>1. CASE Server!Next
      BY <1>2, <2>1, ServerTypes, ServerCounts, ServerWrites DEF ServerInv
    <2>2. CASE UNCHANGED serverVars
      BY <1>2, <2>2 DEF serverVars, ServerInv, Server!TypeOK, CountInv, Counted, FileInv,
         Server!Running, Server!Writing, Server!Whole
    <2> QED BY <1>2, <2>1, <2>2 DEF FirmwareNext
  <1> QED BY <1>1, <1>2, PTL DEF FirmwareSpec

(* A server that is asked to stop does so with the last of its requests, whose
   response is the only one that is lost; and if it has not stopped there is a
   request to finish, or has been one whose body did not parse. *)
THEOREM StopsAsAskedHolds == FirmwareSpec => []StopsAsAsked
  <1>1. ServerInv => StopsAsAsked
    BY DEF ServerInv, CountInv, Counted, StopsAsAsked, Server!StopsWhenIdle,
       Server!StopsInTheEnd, Server!InProgress
  <1> QED BY <1>1, ServerInvariance, PTL

(* Properties that were posted are what is read from then on, if no other post
   and no end of the process met the writing of them. *)
THEOREM SavedUnlessDisturbedHolds == FirmwareSpec => []SavedUnlessDisturbed
  <1>1. ServerInv => SavedUnlessDisturbed
    BY DEF ServerInv, FileInv, SavedUnlessDisturbed, Server!SavedUnlessDisturbed
  <1> QED BY <1>1, ServerInvariance, PTL

(* Beside the server the wifi service does what it does alone. *)
THEOREM FirmwareRunsWifi ==
  FirmwareSpec => [](NobodyWaitsInVain /\ ConnectedToOwn /\ SettledRight)
  <1>1. FirmwareInit => Init
    BY DEF FirmwareInit
  <1>2. [FirmwareNext]_<<vars, serverVars, part>> => [Next]_vars
    BY DEF FirmwareNext, vars
  <1>3. FirmwareSpec => Spec
    BY <1>1, <1>2, PTL DEF FirmwareSpec, Spec, SafeSpec
  <1> QED BY <1>3, NobodyWaitsInVainHolds, ConnectedToOwnHolds, SettledRightHolds, PTL
=============================================================================
