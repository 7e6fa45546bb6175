---------------------------- MODULE ClientProofs ----------------------------
(***************************************************************************)
(* Proofs about what a client believes: the status of its connections, for *)
(* any peers, objects and bound on the timers, and what the hooks tell,    *)
(* for every number of requests and of clients, and for whatever the       *)
(* requests are answered with.                                             *)
(***************************************************************************)
EXTENDS FulaConnection, QueryHooks, SequenceTheorems, TLAPS

-----------------------------------------------------------------------------
(* The status of a connection.  The invariant says what a timer still owes:
   when the status is wrong, the timer that will put it right is pending. *)

ConnectionEvent == {"connect", "disconnect"}

TimerPending(o, e) == \E i \in 1 .. Len(timers[o]) : timers[o][i] = e

OwedStatus ==
  \A o \in listening :
    /\ peers = {} => status[o] # "Online" \/ TimerPending(o, "disconnect")
    /\ peers \ known[o] # {} => status[o] = "Online" \/ TimerPending(o, "connect")

(* Nobody listens while the manager stops. *)
StopsDeaf == stopping # {} => listening = {}

ConnectionInv == ConnectionTypeOK /\ OwedStatus /\ StopsDeaf

-----------------------------------------------------------------------------
(* The invariant holds at first. *)
LEMMA ConnectionInitially == ConnectionInit => ConnectionInv
BY DEF ConnectionInit, ConnectionInv, ConnectionTypeOK, Status, OwedStatus, StopsDeaf

(* What an announcement adds, and what it leaves pending. *)
LEMMA AnnounceEffect ==
  ASSUME ConnectionTypeOK, NEW e \in ConnectionEvent, Announce(e)
  PROVE  /\ timers' \in [Objects -> Seq(ConnectionEvent)]
         /\ \A o \in listening : TimerPending(o, e)'
         /\ \A o \in listening, d \in ConnectionEvent : TimerPending(o, d) => TimerPending(o, d)'
<1>0. timers \in [Objects -> Seq(ConnectionEvent)] /\ listening \subseteq Objects
  BY DEF ConnectionTypeOK, ConnectionEvent
<1>1. \A o \in Objects :
        /\ Append(timers[o], e) \in Seq(ConnectionEvent)
        /\ Len(Append(timers[o], e)) = Len(timers[o]) + 1 /\ Len(timers[o]) \in Nat
        /\ Append(timers[o], e)[Len(timers[o]) + 1] = e
        /\ \A i \in 1 .. Len(timers[o]) : Append(timers[o], e)[i] = timers[o][i]
  BY <1>0, AppendProperties, LenProperties
<1>2. timers' \in [Objects -> Seq(ConnectionEvent)]
  BY <1>0, <1>1 DEF Announce
<1>3. \A o \in listening : timers'[o] = Append(timers[o], e)
  BY <1>0 DEF Announce
<1>4. \A o \in listening : TimerPending(o, e)'
  <2>1. \A o \in listening : /\ Len(timers[o]) + 1 \in 1 .. Len(timers'[o])
                              /\ timers'[o][Len(timers[o]) + 1] = e
    BY <1>0, <1>1, <1>3
  <2> QED
    BY <2>1 DEF TimerPending
<1>5. \A o \in listening, d \in ConnectionEvent : TimerPending(o, d) => TimerPending(o, d)'
  BY <1>0, <1>1, <1>3 DEF TimerPending
<1> QED
  BY <1>2, <1>4, <1>5

(* The timer that fires is no longer pending, the others are. *)
LEMMA TimerEffect ==
  ASSUME ConnectionTypeOK, NEW o \in Objects, timers[o] # <<>>,
         timers' = [timers EXCEPT ![o] = Tail(timers[o])]
  PROVE  /\ timers' \in [Objects -> Seq(ConnectionEvent)]
         /\ \A d \in ConnectionEvent : d # Head(timers[o]) /\ TimerPending(o, d) => TimerPending(o, d)'
         /\ \A q \in Objects \ {o}, d \in ConnectionEvent : TimerPending(q, d) => TimerPending(q, d)'
<1>0. timers \in [Objects -> Seq(ConnectionEvent)]
  BY DEF ConnectionTypeOK, ConnectionEvent
<1>1. /\ Tail(timers[o]) \in Seq(ConnectionEvent) /\ Head(timers[o]) = timers[o][1]
      /\ Len(timers[o]) \in Nat /\ Len(Tail(timers[o])) = Len(timers[o]) - 1
      /\ \A i \in 1 .. Len(Tail(timers[o])) : Tail(timers[o])[i] = timers[o][i + 1]
  BY <1>0, HeadTailProperties, LenProperties
<1>2. timers' \in [Objects -> Seq(ConnectionEvent)] /\ timers'[o] = Tail(timers[o])
  BY <1>0, <1>1
<1>3. ASSUME NEW d \in ConnectionEvent, d # Head(timers[o]), TimerPending(o, d)
      PROVE  TimerPending(o, d)'
  <2>1. PICK i \in 1 .. Len(timers[o]) : timers[o][i] = d
    BY <1>3 DEF TimerPending
  <2>2. i - 1 \in 1 .. Len(timers'[o]) /\ timers'[o][i - 1] = d
    BY <1>1, <1>2, <1>3, <2>1
  <2> QED
    BY <2>2 DEF TimerPending
<1>4. \A q \in Objects \ {o}, d \in ConnectionEvent : TimerPending(q, d) => TimerPending(q, d)'
  BY <1>0 DEF TimerPending
<1> QED
  BY <1>2, <1>3, <1>4

-----------------------------------------------------------------------------
(* Every step keeps the invariant. *)
LEMMA ConnectionInductive == ConnectionInv /\ [ConnectionNext]_connectionVars => ConnectionInv'
<1> SUFFICES ASSUME ConnectionInv, [ConnectionNext]_connectionVars PROVE ConnectionInv'
  OBVIOUS
<1> USE DEF ConnectionEvent, Status
<1>0. /\ ConnectionTypeOK /\ OwedStatus /\ StopsDeaf /\ listening \subseteq Objects
      /\ status \in [Objects -> Status] /\ known \in [Objects -> SUBSET Peers]
  BY DEF ConnectionInv, ConnectionTypeOK
<1>1. ASSUME NEW p \in Peers, PeerConnect(p) PROVE ConnectionInv'
  <2>0. /\ UNCHANGED <<made, listening, status, stopping, known>> /\ peers' = peers \cup {p}
        /\ Announce("connect")
    BY <1>1 DEF PeerConnect
  <2>1. ConnectionTypeOK'
    BY <1>0, <2>0, AnnounceEffect DEF ConnectionTypeOK
  <2>2. OwedStatus'
    BY <1>0, <2>0, AnnounceEffect DEF OwedStatus
  <2> QED
    BY <1>0, <2>0, <2>1, <2>2 DEF ConnectionInv, StopsDeaf
<1>2. ASSUME NEW p \in Peers, PeerDisconnect(p) PROVE ConnectionInv'
  <2>0. /\ UNCHANGED <<made, listening, status, stopping>> /\ peers' = peers \ {p}
        /\ known' = [o \in Objects |-> known[o] \ {p}] /\ Announce("disconnect")
    BY <1>2 DEF PeerDisconnect
  <2>1. ConnectionTypeOK'
    BY <1>0, <2>0, AnnounceEffect DEF ConnectionTypeOK
  <2>2. \A o \in listening : peers' \ known'[o] # {} => peers \ known[o] # {}
    BY <1>0, <2>0
  <2>3. OwedStatus'
    BY <1>0, <2>0, <2>2, AnnounceEffect DEF OwedStatus
  <2> QED
    BY <1>0, <2>0, <2>1, <2>3 DEF ConnectionInv, StopsDeaf
<1>3. ASSUME NEW o \in Objects, Connected(o) PROVE ConnectionInv'
  <2>0. /\ UNCHANGED <<peers, made, listening, stopping, known>>
        /\ timers[o] # <<>> /\ Head(timers[o]) = "connect"
        /\ timers' = [timers EXCEPT ![o] = Tail(timers[o])]
        /\ status' = IF peers # {} THEN [status EXCEPT ![o] = "Online"] ELSE status
    BY <1>3 DEF Connected
  <2>1. ConnectionTypeOK'
    BY <1>0, <2>0, TimerEffect DEF ConnectionTypeOK
  <2>2. OwedStatus'
    BY <1>0, <2>0, TimerEffect DEF OwedStatus
  <2> QED
    BY <1>0, <2>0, <2>1, <2>2 DEF ConnectionInv, StopsDeaf
<1>4. ASSUME NEW o \in Objects, Disconnected(o) PROVE ConnectionInv'
  <2>0. /\ UNCHANGED <<peers, made, listening, stopping, known>>
        /\ timers[o] # <<>> /\ Head(timers[o]) = "disconnect"
        /\ timers' = [timers EXCEPT ![o] = Tail(timers[o])]
        /\ status' = IF peers = {} THEN [status EXCEPT ![o] = "Connecting"] ELSE status
    BY <1>4 DEF Disconnected
  <2>1. ConnectionTypeOK'
    BY <1>0, <2>0, TimerEffect DEF ConnectionTypeOK
  <2>2. OwedStatus'
    BY <1>0, <2>0, TimerEffect DEF OwedStatus
  <2> QED
    BY <1>0, <2>0, <2>1, <2>2 DEF ConnectionInv, StopsDeaf
<1>5. ASSUME NEW o \in Objects, Connect(o) \/ Start(o) PROVE ConnectionInv'
  <2>0. /\ UNCHANGED <<peers, timers, stopping>> /\ stopping = {}
        /\ listening' \in {listening, listening \cup {o}}
        /\ status' = [status EXCEPT ![o] = "Connecting"]
        /\ known' = [known EXCEPT ![o] = peers]
    BY <1>5 DEF Connect, Start
  <2>1. ConnectionTypeOK'
    BY <1>0, <1>5, <2>0 DEF ConnectionTypeOK, Connect, Start
  <2>2. OwedStatus'
    BY <1>0, <2>0 DEF OwedStatus, TimerPending
  <2> QED
    BY <1>0, <2>0, <2>1, <2>2 DEF ConnectionInv, StopsDeaf
<1>6. ASSUME NEW o \in Objects, Stop(o) PROVE ConnectionInv'
  BY <1>0, <1>6 DEF Stop, ConnectionInv, ConnectionTypeOK, OwedStatus, StopsDeaf
<1>7. CASE Stopped
  BY <1>0, <1>7 DEF Stopped, ConnectionInv, ConnectionTypeOK, OwedStatus, StopsDeaf
<1>8. CASE UNCHANGED connectionVars
  BY <1>0, <1>8 DEF connectionVars, ConnectionInv, ConnectionTypeOK, OwedStatus, StopsDeaf, TimerPending
<1> QED
  BY <1>1, <1>2, <1>3, <1>4, <1>5, <1>6, <1>7, <1>8 DEF ConnectionNext, Timer

-----------------------------------------------------------------------------
(* The invariant holds in every state. *)
THEOREM ConnectionInvariance == ConnectionSafeSpec => []ConnectionInv
BY ConnectionInitially, ConnectionInductive, PTL DEF ConnectionSafeSpec

(* Once its timers have run, a listening object is right about the network,
   for any number of peers and objects. *)
THEOREM StatusAgreesHolds == ConnectionSafeSpec => []StatusAgrees
<1>1. ConnectionInv => StatusAgrees
  BY DEF ConnectionInv, OwedStatus, TimerPending, StatusAgrees
<1> QED
  BY ConnectionInvariance, <1>1, PTL

-----------------------------------------------------------------------------
(* The hooks. *)

\* The constants are what the module says.
USE HooksAssumption

\* What a call may be answered with, and what is known of one.
Answers == {Answer(a) : a \in Inputs}
Call    == [args : Inputs, answer : Answers, pending : BOOLEAN]

(* The type of the calls, as a sequence. *)
CallsOK == calls \in Seq(Call)

(* Before requests overlap, only the last one is not answered. *)
OneAtATime == ~overlap => \A i \in Pending : i = Len(calls)

(* Only the effect of the client of the moment, of a component that is
   mounted, takes itself for mounted. *)
CurrentEffect == \A c \in Clients : effects[c].isMounted => mounted /\ c = fula

(* Whatever overlaps, a hook that still loads waits for an answer. *)
LoadingEnds == mounted /\ loading => Pending # {}

IInv == CallsOK /\ TypeOK /\ OneAtATime /\ CurrentEffect /\ LoadingEnds /\ TellsLastRequest

(* In the beginning nothing was asked. *)
LEMMA Initially == Init => IInv
  <1> SUFFICES ASSUME Init PROVE IInv
    OBVIOUS
  <1>1. CallsOK /\ TypeOK
    <2>1. calls = <<>> /\ calls \in Seq(Call) /\ Len(calls) = 0 /\ DOMAIN calls = {}
      BY DEF Init
    <2>2. effects \in [Clients -> [isMounted : BOOLEAN, reading : BOOLEAN]]
      BY DEF Init
    <2>3. fula \in 0 .. MaxClients
      BY DEF Init
    <2>4. mounted \in BOOLEAN /\ loading \in BOOLEAN /\ overlap \in BOOLEAN
      BY DEF Init
    <2> QED BY <2>1, <2>2, <2>3, <2>4 DEF Init, CallsOK, TypeOK
  <1>2. OneAtATime /\ LoadingEnds /\ TellsLastRequest
    BY DEF Init, OneAtATime, Pending, LoadingEnds, TellsLastRequest
  <1>3. CurrentEffect
    BY DEF Init, CurrentEffect
  <1> QED BY <1>1, <1>2, <1>3 DEF IInv

-----------------------------------------------------------------------------
(* A request is the last call, and pending. *)
LEMMA RequestPreserves ==
  ASSUME IInv, NEW a \in Inputs, Request(a)
  PROVE  IInv'
  <1> DEFINE call == [args |-> a, answer |-> Answer(a), pending |-> TRUE]
             n    == Len(calls)
  <1>1. call \in Call /\ call.pending = TRUE /\ call.answer \in Answers /\ call.args \in Inputs
    BY DEF Call, Answers
  <1>2. /\ mounted /\ calls' = Append(calls, call) /\ loading' = TRUE
        /\ overlap' = (overlap \/ Pending # {}) /\ n < MaxCalls
        /\ UNCHANGED <<fula, mounted, data, error, effects, subData, subError>>
    BY DEF Request, provider, sub
  <1>3. calls \in Seq(Call) /\ n \in Nat
    BY DEF IInv, CallsOK
  <1> HIDE DEF call
  <1>4. /\ Len(calls') = n + 1 /\ calls'[n + 1] = call
        /\ \A i \in 1 .. n : calls'[i] = calls[i]
        /\ DOMAIN calls = 1 .. n /\ DOMAIN calls' = 1 .. (n + 1) /\ calls' \in Seq(Call)
    BY <1>1, <1>2, <1>3, AppendProperties
  <1> HIDE DEF n
  <1>5. Pending' = Pending \cup {n + 1}
    BY <1>1, <1>3, <1>4 DEF Pending
  <1>6. TypeOK'
    <2>1. fula' \in 0 .. MaxClients /\ mounted' \in BOOLEAN /\ loading' \in BOOLEAN
      BY <1>2 DEF IInv, TypeOK
    <2>2. Len(calls') <= MaxCalls
      BY <1>2, <1>3, <1>4
    <2>3. \A i \in DOMAIN calls' : calls'[i].args \in Inputs /\ calls'[i].pending \in BOOLEAN
      <3>1. \A i \in DOMAIN calls' : calls'[i] \in Call
        BY <1>4
      <3> QED BY <3>1 DEF Call
    <2>4. data' = None \/ \E i \in DOMAIN calls' : data' = calls'[i].answer
      BY <1>2, <1>3, <1>4 DEF IInv, TypeOK
    <2>5. error' \in {None} \cup DOMAIN calls'
      BY <1>2, <1>3, <1>4 DEF IInv, TypeOK
    <2>6. overlap' \in BOOLEAN
      <3>1. overlap \in BOOLEAN
        BY DEF IInv, TypeOK
      <3>2. (Pending # {}) \in BOOLEAN
        OBVIOUS
      <3> QED BY <3>1, <3>2, <1>2
    <2>7. /\ effects' \in [Clients -> [isMounted : BOOLEAN, reading : BOOLEAN]]
          /\ subData' \in {None} \cup Clients /\ subError' \in {None} \cup Clients
      BY <1>2 DEF IInv, TypeOK
    <2> QED BY <2>1, <2>2, <2>3, <2>4, <2>5, <2>6, <2>7 DEF TypeOK
  <1>7. OneAtATime'
    BY <1>2, <1>4, <1>5 DEF OneAtATime
  <1>8. CurrentEffect'
    BY <1>2 DEF IInv, CurrentEffect
  <1>9. LoadingEnds'
    BY <1>5 DEF LoadingEnds
  <1>10. TellsLastRequest'
    BY <1>2, <1>5 DEF TellsLastRequest
  <1> QED BY <1>4, <1>6, <1>7, <1>8, <1>9, <1>10 DEF IInv, CallsOK

(* The answer of the last request is what is told of it; that of an earlier one
   comes when requests overlap. *)
LEMMA SettlePreserves ==
  ASSUME IInv, NEW i \in DOMAIN calls, NEW d, NEW e, Settle(i, d, e),
         d = None \/ \E j \in DOMAIN calls : d = calls[j].answer,
         e \in {None} \cup DOMAIN calls,
         e = i \/ d = calls[i].answer
  PROVE  IInv'
  <1>1. /\ i \in Pending /\ calls' = [calls EXCEPT ![i].pending = FALSE]
        /\ IF mounted THEN data' = d /\ error' = e /\ loading' = FALSE
                      ELSE UNCHANGED <<data, error, loading>>
        /\ UNCHANGED <<fula, mounted, overlap, effects, subData, subError>>
    BY DEF Settle, provider, sub
  <1>2. calls \in Seq(Call) /\ Len(calls) \in Nat /\ DOMAIN calls = 1 .. Len(calls)
    BY DEF IInv, CallsOK
  <1>3. \A j \in DOMAIN calls : calls[j] \in Call
    BY <1>2
  <1>4. calls' = [calls EXCEPT ![i] = [calls[i] EXCEPT !.pending = FALSE]]
    BY <1>1
  <1>5. /\ [calls[i] EXCEPT !.pending = FALSE] \in Call
        /\ [calls[i] EXCEPT !.pending = FALSE].pending = FALSE
        /\ [calls[i] EXCEPT !.pending = FALSE].answer = calls[i].answer
    BY <1>3 DEF Call
  <1>6. calls' \in Seq(Call) /\ Len(calls') = Len(calls) /\ DOMAIN calls' = DOMAIN calls
    BY <1>2, <1>4, <1>5, ExceptSeq
  <1>7. \A j \in DOMAIN calls :
          /\ calls'[j].answer = calls[j].answer
          /\ calls'[j].pending = (calls[j].pending /\ j # i)
          /\ calls'[j] \in Call
    BY <1>2, <1>3, <1>4, <1>5, <1>6 DEF Call
  <1>8. Pending' = Pending \ {i}
    BY <1>6, <1>7 DEF Pending
  <1>9. TypeOK'
    <2>1. fula' \in 0 .. MaxClients /\ mounted' \in BOOLEAN
      BY <1>1 DEF IInv, TypeOK
    <2>2. Len(calls') <= MaxCalls
      BY <1>6 DEF IInv, TypeOK
    <2>3. \A j \in DOMAIN calls' : calls'[j].args \in Inputs /\ calls'[j].pending \in BOOLEAN
      BY <1>6, <1>7 DEF Call
    <2>4. data' = None \/ \E j \in DOMAIN calls' : data' = calls'[j].answer
      BY <1>1, <1>6, <1>7 DEF IInv, TypeOK
    <2>5. error' \in {None} \cup DOMAIN calls'
      BY <1>1, <1>6 DEF IInv, TypeOK
    <2>6. loading' \in BOOLEAN
      BY <1>1 DEF IInv, TypeOK
    <2>7. /\ effects' \in [Clients -> [isMounted : BOOLEAN, reading : BOOLEAN]]
          /\ subData' \in {None} \cup Clients /\ subError' \in {None} \cup Clients
          /\ overlap' \in BOOLEAN
      BY <1>1 DEF IInv, TypeOK
    <2> QED BY <2>1, <2>2, <2>3, <2>4, <2>5, <2>6, <2>7 DEF TypeOK
  <1>10. OneAtATime'
    BY <1>1, <1>6, <1>8 DEF IInv, OneAtATime
  <1>11. CurrentEffect'
    BY <1>1 DEF IInv, CurrentEffect
  <1>12. LoadingEnds'
    BY <1>1 DEF LoadingEnds
  <1>13. TellsLastRequest'
    <2> SUFFICES ASSUME mounted', ~overlap', calls' # <<>>
                 PROVE  /\ loading' = (Pending' # {})
                        /\ ~loading' => error' = Len(calls') \/ data' = calls'[Len(calls')].answer
      BY DEF TellsLastRequest
    <2>1. i = Len(calls) /\ Pending' = {} /\ loading' = FALSE
      BY <1>1, <1>8 DEF IInv, OneAtATime
    <2>2. error' = e /\ data' = d /\ calls'[i].answer = calls[i].answer
      BY <1>1, <1>7
    <2> QED BY <2>1, <2>2, <1>6
  <1> QED BY <1>6, <1>9, <1>10, <1>11, <1>12, <1>13 DEF IInv, CallsOK

(* The record of an effect. *)
LEMMA EffectRecord ==
  ASSUME NEW p \in BOOLEAN, NEW q \in BOOLEAN
  PROVE  /\ [isMounted |-> p, reading |-> q] \in [isMounted : BOOLEAN, reading : BOOLEAN]
         /\ [isMounted |-> p, reading |-> q].isMounted => p
  OBVIOUS

(* What happens to the clients and to the subscription changes nothing of the
   requests, and at most one effect takes itself for mounted. *)
LEMMA SubscriptionPreserves ==
  ASSUME IInv, ChangeClient \/ Unmount \/ \E c \in Clients : Value(c) \/ End(c)
  PROVE  IInv'
  <1> DEFINE SubOK ==
        /\ fula \in 0 .. MaxClients /\ mounted \in BOOLEAN
        /\ effects \in [Clients -> [isMounted : BOOLEAN, reading : BOOLEAN]]
        /\ subData \in {None} \cup Clients /\ subError \in {None} \cup Clients
        /\ CurrentEffect
  <1>0. SubOK
    BY DEF IInv, TypeOK
  <1>1. UNCHANGED lazy /\ (mounted' => mounted) /\ SubOK'
    <2>1. CASE ChangeClient
      <3>1. fula \in Nat /\ fula < MaxClients /\ fula' = fula + 1 /\ mounted /\ mounted' = mounted
        BY <2>1, <1>0 DEF ChangeClient
      <3>2. /\ DOMAIN effects' = Clients
            /\ effects' = [c \in Clients |-> effects'[c]]
        BY <2>1 DEF ChangeClient
      <3>3. ASSUME NEW c \in Clients
            PROVE  /\ effects'[c] \in [isMounted : BOOLEAN, reading : BOOLEAN]
                   /\ effects'[c].isMounted => c = fula'
        <4>1. effects[c].reading \in BOOLEAN
          BY <1>0
        <4>2. effects'[c] = [isMounted |-> c = fula', reading |-> effects[c].reading \/ c = fula']
          BY <2>1 DEF ChangeClient
        <4>3. (c = fula') \in BOOLEAN /\ (effects[c].reading \/ c = fula') \in BOOLEAN
          BY <4>1
        <4> QED BY <4>2, <4>3, EffectRecord
      <3>4. effects' \in [Clients -> [isMounted : BOOLEAN, reading : BOOLEAN]]
        BY <3>2, <3>3
      <3>5. fula' \in 0 .. MaxClients /\ mounted' /\ mounted' \in BOOLEAN
        BY <3>1, <1>0
      <3>6. CurrentEffect'
        BY <3>3, <3>5 DEF CurrentEffect
      <3>7. UNCHANGED lazy /\ subData' = subData /\ subError' = subError
        BY <2>1 DEF ChangeClient
      <3> QED BY <1>0, <3>1, <3>4, <3>5, <3>6, <3>7
    <2>2. CASE Unmount
      BY <2>2, <1>0 DEF Unmount, CurrentEffect
    <2>3. ASSUME NEW c \in Clients, Value(c)
          PROVE  UNCHANGED lazy /\ (mounted' => mounted) /\ SubOK'
      BY <2>3, <1>0 DEF Value, CurrentEffect, provider
    <2>4. ASSUME NEW c \in Clients, End(c)
          PROVE  UNCHANGED lazy /\ (mounted' => mounted) /\ SubOK'
      BY <2>4, <1>0 DEF End, CurrentEffect, provider
    <2> QED BY <2>1, <2>2, <2>3, <2>4
  <1>2. CallsOK' /\ OneAtATime' /\ LoadingEnds' /\ TellsLastRequest'
    BY <1>1 DEF lazy, IInv, CallsOK, OneAtATime, LoadingEnds, TellsLastRequest, Pending
  <1>3. TypeOK'
    BY <1>1 DEF lazy, IInv, TypeOK
  <1> QED BY <1>1, <1>2, <1>3 DEF IInv

(* Every step keeps IInv. *)
LEMMA Inductive == IInv /\ [Next]_vars => IInv'
  <1> SUFFICES ASSUME IInv, [Next]_vars PROVE IInv'
    OBVIOUS
  <1>1. ASSUME NEW i \in DOMAIN calls, Resolve(i) PROVE IInv'
    <2>1. Settle(i, calls[i].answer, error) /\ error \in {None} \cup DOMAIN calls
      BY <1>1 DEF Resolve, IInv, TypeOK
    <2> QED BY <2>1, SettlePreserves
  <1>2. ASSUME NEW i \in DOMAIN calls, Reject(i) PROVE IInv'
    <2>1. Settle(i, data, i) /\ (data = None \/ \E j \in DOMAIN calls : data = calls[j].answer)
      BY <1>2 DEF Reject, IInv, TypeOK
    <2> QED BY <2>1, SettlePreserves
  <1>3. CASE UNCHANGED vars
    BY <1>3 DEF vars, provider, lazy, sub, IInv, CallsOK, TypeOK, OneAtATime, CurrentEffect,
                LoadingEnds, TellsLastRequest, Pending
  <1> QED BY <1>1, <1>2, <1>3, RequestPreserves, SubscriptionPreserves DEF Next

-----------------------------------------------------------------------------
(* Every variable keeps its type. *)
THEOREM HooksTypeCorrect == Spec => []TypeOK
  <1>1. IInv => TypeOK
    BY DEF IInv
  <1> QED BY <1>1, Initially, Inductive, PTL DEF Spec, SafeSpec

(* As long as a component asks one thing at a time, the hook tells the state of
   its last request. *)
THEOREM TellsLastRequestHolds == Spec => []TellsLastRequest
  <1>1. IInv => TellsLastRequest
    BY DEF IInv
  <1> QED BY <1>1, Initially, Inductive, PTL DEF Spec, SafeSpec

(* Whatever overlaps, a hook that still loads waits for an answer. *)
THEOREM LoadingEndsHolds == Spec => []LoadingEnds
  <1>1. IInv => LoadingEnds
    BY DEF IInv
  <1> QED BY <1>1, Initially, Inductive, PTL DEF Spec, SafeSpec

(* What a subscription shows comes from the client of the moment. *)
THEOREM ShowsCurrentClientHolds == Spec => ShowsCurrentClient
  <1>1. IInv /\ [Next]_vars => [subData' # subData => mounted /\ subData' = fula]_vars
    <2> SUFFICES ASSUME IInv, Next, subData' # subData PROVE mounted /\ subData' = fula
      OBVIOUS
    <2>1. PICK c \in Clients : Value(c)
      BY DEF Next, ChangeClient, Unmount, Request, Resolve, Reject, Settle, End, sub
    <2>2. subData' = c /\ effects[c].isMounted
      BY <2>1 DEF Value
    <2> QED BY <2>2 DEF IInv, CurrentEffect
  <1> QED BY <1>1, Initially, Inductive, PTL DEF Spec, SafeSpec, ShowsCurrentClient
=============================================================================
