------------------------------ MODULE BoxStart ------------------------------
(***************************************************************************)
(* The start of the box's process, with what it finds on its disk and what *)
(* may end it, and how boxes that start learn of each other's collections  *)
(* over the pubsub topic 'open-dbs'.                                       *)
(*                                                                         *)
(* A process that ends is started again (restart: always).  Pubsub brings  *)
(* a message to everybody that has subscribed, the sender too, in any      *)
(* order, or loses it.                                                     *)
(***************************************************************************)
EXTENDS Naturals, FiniteSets

CONSTANTS
  Box,
  Collection, \* names of collections
  Limit,      \* attempts to connect to IPFS
  MaxStarts   \* bound on the starts of a box

ASSUME LimitAssumption == Limit \in Nat \ {0} /\ MaxStarts \in Nat

VARIABLES
  stage,    \* of each box: how far app() is, in the order of Stages
  node,     \* the promise of createLibp2p(): "creating", "created", "failed"
  tryCount, \* failed attempts to connect to IPFS; Limit + 1: connected
  identity, \* the file 'identity': 0 if there is none, Torn, or the start that made it
  peers,    \* history: the identities with which each box has made its node
  starts,
  dbCollections,
  opened,   \* names of the databases that OrbitDB has open and replicates
  inbox,    \* of each box: messages of the topic
  asked     \* history: <<other box, collection>> that a box is to hear of

vars == <<stage, node, tryCount, identity, peers, starts, dbCollections, opened, inbox, asked>>
libp2p == <<node, tryCount, identity, peers>>

Stages == {"off", "connecting", "started", "file", "subscribing", "asking", "up"}
Torn == MaxStarts + 1
Connected == Limit + 1

Listening(b) == stage[b] \in {"subscribing", "asking", "up"}

Req(b)       == [ROI |-> "req", from |-> b, list |-> {}]
List(b, dbs) == [ROI |-> "res", from |-> b, list |-> dbs]

Init ==
  /\ stage = [b \in Box |-> "off"] /\ node = [b \in Box |-> "creating"]
  /\ tryCount = [b \in Box |-> 0]
  /\ identity = [b \in Box |-> 0] /\ peers = [b \in Box |-> {}]
  /\ starts = [b \in Box |-> 0]
  /\ dbCollections = [b \in Box |-> {}] /\ opened = [b \in Box |-> {}]
  /\ inbox = [b \in Box |-> {}] /\ asked = [b \in Box |-> {}]

Goes(b, s) == stage' = [stage EXCEPT ![b] = s]

\* What box b holds in memory is gone; nobody hears any more what it would say.
Ends(b) ==
  /\ Goes(b, "off")
  /\ dbCollections' = [dbCollections EXCEPT ![b] = {}]
  /\ opened' = [opened EXCEPT ![b] = {}]
  /\ inbox' = [inbox EXCEPT ![b] = {}]
  /\ asked' = [c \in Box |-> IF c = b THEN {} ELSE {a \in asked[c] : a[1] # b}]

-----------------------------------------------------------------------------
\* main(): app() begins to create the node and to connect to IPFS.
Start(b) ==
  /\ stage[b] = "off" /\ starts[b] < MaxStarts
  /\ starts' = [starts EXCEPT ![b] = @ + 1]
  /\ Goes(b, "connecting")
  /\ node' = [node EXCEPT ![b] = "creating"] /\ tryCount' = [tryCount EXCEPT ![b] = 0]
  /\ UNCHANGED <<identity, peers, dbCollections, opened, inbox, asked>>

\* createLibp2p() with this identity.
CreateNode(b, id) ==
  /\ node' = [node EXCEPT ![b] = IF id = Torn THEN "failed" ELSE "created"]
  /\ peers' = [peers EXCEPT ![b] = IF id = Torn THEN @ ELSE @ \cup {id}]

(* Mutant: a new identity is not written. *)
GetPeerIdUnwritten(b) ==
  /\ stage[b] = "connecting" /\ node[b] = "creating"
  /\ CreateNode(b, IF identity[b] = 0 THEN starts[b] ELSE identity[b])
  /\ UNCHANGED <<identity, stage, tryCount, starts, dbCollections, opened, inbox, asked>>

(* getPeerId(): the identity of the disk; a new one is written before it is
   used.  One that does not decode is caught, and there is no node. *)
GetPeerId(b) ==
  /\ stage[b] = "connecting" /\ node[b] = "creating"
  /\ identity' = [identity EXCEPT ![b] = IF @ = 0 THEN starts[b] ELSE @]
  /\ CreateNode(b, identity'[b])
  /\ UNCHANGED <<stage, tryCount, starts, dbCollections, opened, inbox, asked>>

\* connectWithBackOff(): one attempt.
Connect(b) ==
  /\ stage[b] = "connecting" /\ tryCount[b] < Limit
  /\ \E n \in {tryCount[b] + 1, Connected} : tryCount' = [tryCount EXCEPT ![b] = n]
  /\ UNCHANGED <<stage, node, identity, peers, starts, dbCollections, opened, inbox, asked>>

(* Mutant: that there is no node is not noticed. *)
StartFailsIpfsOnly(b) ==
  /\ stage[b] = "connecting" /\ node[b] # "creating" /\ tryCount[b] = Limit
  /\ Ends(b)
  /\ UNCHANGED <<libp2p, starts>>

\* The last attempt has failed, or there is no node to start.
StartFails(b) ==
  /\ stage[b] = "connecting" /\ node[b] # "creating"
  /\ tryCount[b] = Limit \/ (tryCount[b] = Connected /\ node[b] = "failed")
  /\ Ends(b)
  /\ UNCHANGED <<libp2p, starts>>

StartNode(b) ==
  /\ stage[b] = "connecting" /\ node[b] = "created" /\ tryCount[b] = Connected
  /\ Goes(b, "started")
  /\ UNCHANGED <<libp2p, starts, dbCollections, opened, inbox, asked>>

\* registerFile(); then registerGraph() up to the subscription of the topic.
Register(b) ==
  /\ \/ stage[b] = "started" /\ Goes(b, "file")
     \/ stage[b] = "file" /\ Goes(b, "subscribing")
  /\ UNCHANGED <<libp2p, starts, dbCollections, opened, inbox, asked>>

Publish(m) == inbox' = [b \in Box |-> IF Listening(b) THEN inbox[b] \cup {m} ELSE inbox[b]]

Ask(b) ==
  /\ stage[b] = "subscribing" /\ Goes(b, "asking")
  /\ Publish(Req(b))
  /\ asked' = [asked EXCEPT ![b] =
                 {a \in Box \X Collection : Listening(a[1]) /\ a[2] \in dbCollections[a[1]]}]
  /\ UNCHANGED <<libp2p, starts, dbCollections, opened>>

\* `options` gets its value; the query methods are set in the same stretch.
SetUp(b) ==
  /\ stage[b] = "asking" /\ Goes(b, "up")
  /\ UNCHANGED <<libp2p, starts, dbCollections, opened, inbox, asked>>

\* Without m, and with what its handler publishes.
Take(b, m, published) ==
  inbox' = [c \in Box |-> (inbox[c] \ IF c = b THEN {m} ELSE {})
                          \cup (IF Listening(c) THEN published ELSE {})]

(* Mutant: only collections that others have opened are told. *)
HandleReqOpened(b, m) ==
  /\ m.ROI = "req"
  /\ Take(b, m, {List(b, opened[b] \ dbCollections[b])})
  /\ UNCHANGED <<stage, dbCollections, opened, asked>>

HandleReq(b, m) ==
  /\ m.ROI = "req"
  /\ Take(b, m, {List(b, dbCollections[b])})
  /\ UNCHANGED <<stage, dbCollections, opened, asked>>

Unknown(b, m) == m.list \ dbCollections[b]

(* The databases of a list are opened, but not kept in dbCollections. *)
HandleList(b, m) ==
  /\ m.ROI = "res" /\ (stage[b] = "up" \/ Unknown(b, m) = {})
  /\ opened' = [opened EXCEPT ![b] = @ \cup Unknown(b, m)]
  /\ Take(b, m, {})
  /\ UNCHANGED <<stage, dbCollections, asked>>

(* A list that comes before `options` has its value: a ReferenceError that
   nobody handles. *)
HandleListTooEarly(b, m) ==
  /\ m.ROI = "res" /\ stage[b] # "up" /\ Unknown(b, m) # {}
  /\ Ends(b)

HandleDBNameReceived(b) ==
  /\ Listening(b)
  /\ \E m \in inbox[b] : HandleReq(b, m) \/ HandleList(b, m) \/ HandleListTooEarly(b, m)
  /\ UNCHANGED <<libp2p, starts>>

(* A request opens a collection.  `swarm.peers() > 0` compares an array with a
   number and is never true, so nothing is published. *)
LoadDB(b, n) ==
  /\ stage[b] = "up" /\ n \notin dbCollections[b]
  /\ dbCollections' = [dbCollections EXCEPT ![b] = @ \cup {n}]
  /\ opened' = [opened EXCEPT ![b] = @ \cup {n}]
  /\ UNCHANGED <<stage, libp2p, starts, inbox, asked>>

(* A message is lost, and with it what it would have brought. *)
Lose(b, m) ==
  /\ inbox' = [inbox EXCEPT ![b] = @ \ {m}]
  /\ asked' = [c \in Box |->
                 {a \in asked[c] : ~(IF m.ROI = "req" THEN c = m.from /\ a[1] = b
                                                      ELSE c = b /\ a[1] = m.from)}]
  /\ UNCHANGED <<stage, libp2p, starts, dbCollections, opened>>

(* The process is killed or loses power at any moment: while it writes a new
   identity, too. *)
Killed(b) ==
  /\ stage[b] # "off"
  /\ Ends(b)
  /\ identity' \in {identity} \cup
       IF stage[b] = "connecting" /\ node[b] = "creating" /\ identity[b] = 0
         THEN {[identity EXCEPT ![b] = Torn]} ELSE {}
  /\ UNCHANGED <<node, tryCount, peers, starts>>

Next ==
  \E b \in Box :
    \/ Start(b) \/ GetPeerId(b) \/ Connect(b) \/ StartFails(b) \/ StartNode(b)
    \/ Register(b) \/ Ask(b) \/ SetUp(b) \/ HandleDBNameReceived(b)
    \/ \E n \in Collection : LoadDB(b, n)
    \/ \E m \in inbox[b] : Lose(b, m)
    \/ Killed(b)

SafeSpec == Init /\ [][Next]_vars

Spec ==
  /\ SafeSpec
  /\ \A b \in Box : WF_vars(GetPeerId(b) \/ Connect(b) \/ StartFails(b) \/ StartNode(b)
                              \/ Register(b) \/ Ask(b) \/ SetUp(b))

-----------------------------------------------------------------------------
(* Every variable keeps its type. *)
TypeOK ==
  /\ stage \in [Box -> Stages] /\ node \in [Box -> {"creating", "created", "failed"}]
  /\ tryCount \in [Box -> 0 .. Connected] /\ identity \in [Box -> 0 .. Torn]
  /\ peers \in [Box -> SUBSET (1 .. MaxStarts)] /\ starts \in [Box -> 0 .. MaxStarts]
  /\ dbCollections \in [Box -> SUBSET Collection] /\ opened \in [Box -> SUBSET Collection]
  /\ inbox \in [Box -> SUBSET [ROI : {"req", "res"}, from : Box, list : SUBSET Collection]]
  /\ asked \in [Box -> SUBSET (Box \X Collection)]

(* A box keeps its identity over restarts, wherever its process was ended. *)
OneIdentity == \A b \in Box : Cardinality(peers[b]) <= 1

(* A box that starts replicates every collection that another box had when it
   was asked, unless a message is lost or one of the two ends: what it has not
   opened yet is on its way. *)
LearnsCollections ==
  \A b \in Box : \A a \in asked[b] :
    \/ a[2] \in opened[b]
    \/ Req(b) \in inbox[a[1]]
    \/ \E m \in inbox[b] : m.ROI = "res" /\ m.from = a[1] /\ a[2] \in m.list

(* A start comes to its end: the box is up, or its process has ended. *)
StartEnds == \A b \in Box : stage[b] = "connecting" ~> stage[b] \in {"up", "off"}
=============================================================================
