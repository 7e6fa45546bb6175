--------------------------- MODULE FulaConnection ---------------------------
(***************************************************************************)
(* The FulaConnection objects of one client and what they believe about    *)
(* its connections.                                                        *)
(*                                                                         *)
(* Every connect() of the client makes a new object; all of them listen to *)
(* the one connection manager of libp2p.  An event of the manager is       *)
(* looked at 100 ms later, when the manager may have moved on.  The        *)
(* listeners are removed by removeAllListeners() on the manager itself,    *)
(* for that is what on() returned: stopping one object deafens all.        *)
(*                                                                         *)
(* The timers of one object run in the order they were set.  Those of      *)
(* different objects have nothing in common and run in any order.          *)
(***************************************************************************)
EXTENDS Naturals, Sequences

CONSTANTS
  Peers,      \* boxes the client may be connected to
  Objects,    \* FulaConnection objects, each made by one connect()
  MaxTimers   \* bound: pending timers of an object

ASSUME MaxTimersAssumption == MaxTimers \in Nat

VARIABLES
  peers,      \* connectionManager.connections: peers with a connection
  made,       \* the objects connect() has made
  listening,  \* the objects whose listeners the manager has
  status,     \* status of each object
  timers,     \* the pending timers of each object, oldest first
  stopping,   \* objects whose stop() awaits the manager
  known       \* history: peers connected when start() was last called, and since

connectionVars == <<peers, made, listening, status, timers, stopping, known>>

ConnectionInit ==
  /\ peers = {} /\ made = {} /\ listening = {} /\ stopping = {}
  /\ status = [o \in Objects |-> "Offline"]
  /\ timers = [o \in Objects |-> <<>>]
  /\ known = [o \in Objects |-> {}]

-----------------------------------------------------------------------------
(* The connection manager of libp2p: it announces the first connection to a
   peer and the loss of the last one. *)

Announce(event) ==
  timers' = [o \in Objects |-> IF o \in listening THEN Append(timers[o], event) ELSE timers[o]]

RoomForTimers == \A o \in listening : Len(timers[o]) < MaxTimers

PeerConnect(p) ==
  /\ p \notin peers /\ RoomForTimers
  /\ peers' = peers \cup {p}
  /\ Announce("connect")
  /\ UNCHANGED <<made, listening, status, stopping, known>>

PeerDisconnect(p) ==
  /\ p \in peers /\ RoomForTimers
  /\ peers' = peers \ {p}
  /\ known' = [o \in Objects |-> known[o] \ {p}]
  /\ Announce("disconnect")
  /\ UNCHANGED <<made, listening, status, stopping>>

-----------------------------------------------------------------------------
(* Mutant: Online only if it is the one connection. *)
ConnectedIfOnly(o) ==
  /\ timers[o] # <<>> /\ Head(timers[o]) = "connect"
  /\ timers' = [timers EXCEPT ![o] = Tail(timers[o])]
  /\ status' = IF \E p \in peers : peers = {p} THEN [status EXCEPT ![o] = "Online"] ELSE status
  /\ UNCHANGED <<peers, made, listening, stopping, known>>

(* The timer of a 'peer:connect'. *)
Connected(o) ==
  /\ timers[o] # <<>> /\ Head(timers[o]) = "connect"
  /\ timers' = [timers EXCEPT ![o] = Tail(timers[o])]
  /\ status' = IF peers # {} THEN [status EXCEPT ![o] = "Online"] ELSE status
  /\ UNCHANGED <<peers, made, listening, stopping, known>>

(* Mutant: without the test of line 45. *)
DisconnectedBlindly(o) ==
  /\ timers[o] # <<>> /\ Head(timers[o]) = "disconnect"
  /\ timers' = [timers EXCEPT ![o] = Tail(timers[o])]
  /\ status' = [status EXCEPT ![o] = "Connecting"]
  /\ UNCHANGED <<peers, made, listening, stopping, known>>

(* The timer of a 'peer:disconnect'. *)
Disconnected(o) ==
  /\ timers[o] # <<>> /\ Head(timers[o]) = "disconnect"
  /\ timers' = [timers EXCEPT ![o] = Tail(timers[o])]
  /\ status' = IF peers = {} THEN [status EXCEPT ![o] = "Connecting"] ELSE status
  /\ UNCHANGED <<peers, made, listening, stopping, known>>

Timer(o) == Connected(o) \/ Disconnected(o)

-----------------------------------------------------------------------------
(* connect() of the client makes an object and starts it.  The caller of
   disconnect() awaits it first. *)
Connect(o) ==
  /\ o \notin made /\ stopping = {}
  /\ made' = made \cup {o}
  /\ listening' = listening \cup {o}
  /\ status' = [status EXCEPT ![o] = "Connecting"]
  /\ known' = [known EXCEPT ![o] = peers]
  /\ UNCHANGED <<peers, timers, stopping>>

(* start() again, by the owner of the object: no listener is added. *)
Start(o) ==
  /\ o \in made /\ stopping = {}
  /\ status' = [status EXCEPT ![o] = "Connecting"]
  /\ known' = [known EXCEPT ![o] = peers]
  /\ UNCHANGED <<peers, made, listening, timers, stopping>>

(* stop() up to its await.  Pending timers are not cleared. *)
Stop(o) ==
  /\ o \in made /\ o \notin stopping
  /\ listening' = {}
  /\ status' = [status EXCEPT ![o] = "Offline"]
  /\ stopping' = stopping \cup {o}
  /\ UNCHANGED <<peers, made, timers, known>>

(* The manager has closed every connection; nobody listens. *)
Stopped ==
  /\ stopping # {}
  /\ stopping' = {}
  /\ peers' = {}
  /\ known' = [o \in Objects |-> {}]
  /\ UNCHANGED <<made, listening, status, timers>>

-----------------------------------------------------------------------------
ConnectionNext ==
  \/ \E p \in Peers : PeerConnect(p) \/ PeerDisconnect(p)
  \/ \E o \in Objects : Timer(o) \/ Connect(o) \/ Start(o) \/ Stop(o)
  \/ Stopped

ConnectionSafeSpec == ConnectionInit /\ [][ConnectionNext]_connectionVars

(* Timers fire, and the manager's stop() comes to its end. *)
ConnectionSpec ==
  /\ ConnectionSafeSpec
  /\ WF_connectionVars(Stopped) /\ \A o \in Objects : WF_connectionVars(Timer(o))

-----------------------------------------------------------------------------
Status == {"Online", "Offline", "Connecting"}

(* Every variable keeps its type. *)
ConnectionTypeOK ==
  /\ peers \subseteq Peers
  /\ listening \subseteq made /\ made \subseteq Objects /\ stopping \subseteq made
  /\ status \in [Objects -> Status]
  /\ timers \in [Objects -> Seq({"connect", "disconnect"})]
  /\ known \in [Objects -> SUBSET Peers]

(* Once its timers have run, a listening object is right about the network:
   it is not Online without a connection, and it is Online when there is a
   connection that was made after its start().  However fast the peers come
   and go, no event overtakes another for good. *)
StatusAgrees ==
  \A o \in listening : timers[o] = <<>> =>
    /\ peers = {} => status[o] # "Online"
    /\ peers \ known[o] # {} => status[o] = "Online"

(* A peer that connects and stays makes a listening object Online for good,
   whatever the other peers and the other objects do. *)
StayingPeerMeansOnline ==
  \A o \in Objects, p \in Peers :
    <>[](o \in listening /\ p \in peers \ known[o]) => <>[](status[o] = "Online")
=============================================================================
