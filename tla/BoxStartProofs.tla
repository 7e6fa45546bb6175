--------------------------- MODULE BoxStartProofs ---------------------------
(***************************************************************************)
(* A box keeps its identity, for every number of boxes, collections,       *)
(* attempts to connect and restarts, wherever its process is ended.        *)
(***************************************************************************)
EXTENDS BoxStart, FiniteSetTheorems, TLAPS

\* The constants are what the module says.
USE LimitAssumption

(* The arithmetic of the constants. *)
LEMMA Numbers ==
  /\ Torn \in Nat /\ Torn > MaxStarts /\ Torn # 0
  /\ Connected \in Nat /\ 0 <= Connected /\ Limit < Connected
  BY DEF Torn, Connected

-----------------------------------------------------------------------------
(* The types of what a message may be. *)
Message == [ROI : {"req", "res"}, from : Box, list : SUBSET Collection]

(* Every message that is published is one. *)
LEMMA MessageTypes ==
  ASSUME TypeOK, NEW b \in Box
  PROVE  /\ Req(b) \in Message /\ List(b, dbCollections[b]) \in Message
         /\ \A m \in inbox[b] : m \in Message /\ Unknown(b, m) \subseteq Collection
  BY DEF Req, List, Message, TypeOK, Unknown

(* A process that ends leaves everything in its type. *)
LEMMA EndsTypes ==
  ASSUME TypeOK, NEW b \in Box, Ends(b)
  PROVE  /\ stage' \in [Box -> Stages]
         /\ dbCollections' \in [Box -> SUBSET Collection] /\ opened' \in [Box -> SUBSET Collection]
         /\ inbox' \in [Box -> SUBSET Message] /\ asked' \in [Box -> SUBSET (Box \X Collection)]
  <1>1. /\ stage' \in [Box -> Stages]
        /\ dbCollections' \in [Box -> SUBSET Collection] /\ opened' \in [Box -> SUBSET Collection]
        /\ inbox' \in [Box -> SUBSET Message]
    BY DEF TypeOK, Ends, Goes, Stages, Message
  <1>2. asked' \in [Box -> SUBSET (Box \X Collection)]
    BY DEF TypeOK, Ends
  <1> QED BY <1>1, <1>2

(* Publishing, and taking a message out, leaves the inboxes in their type. *)
LEMMA InboxTypes ==
  ASSUME TypeOK, NEW b \in Box, NEW m, NEW published \in SUBSET Message
  PROVE  /\ Take(b, m, published) => inbox' \in [Box -> SUBSET Message]
         /\ m \in Message /\ Publish(m) => inbox' \in [Box -> SUBSET Message]
  BY DEF TypeOK, Take, Publish, Message

-----------------------------------------------------------------------------
(* What is known of the identity: the node of a box was only ever made with
   the identity that its disk holds now.  Torn is what a process leaves that
   had none before, and none after. *)
OnDisk ==
  \A b \in Box : \A id \in peers[b] : id = identity[b]

(* A box that starts has been started. *)
Started == \A b \in Box : stage[b] # "off" => starts[b] > 0

IInv == TypeOK /\ OnDisk /\ Started

(* In the beginning there are no identities. *)
LEMMA Initially == Init => IInv
  BY Numbers DEF Init, IInv, TypeOK, OnDisk, Started, Stages

(* A start changes no identity. *)
LEMMA StartPreserves ==
  ASSUME IInv, NEW b \in Box, Start(b)
  PROVE  IInv'
  <1>1. TypeOK'
    BY Numbers DEF IInv, TypeOK, Start, Goes, Stages
  <1>2. OnDisk' /\ Started'
    BY DEF IInv, TypeOK, OnDisk, Started, Start, Goes
  <1> QED BY <1>1, <1>2 DEF IInv

(* The node is made with the identity that is on the disk by then. *)
LEMMA GetPeerIdPreserves ==
  ASSUME IInv, NEW b \in Box, GetPeerId(b)
  PROVE  IInv'
  <1>1. /\ identity' = [identity EXCEPT ![b] = IF identity[b] = 0 THEN starts[b] ELSE identity[b]]
        /\ CreateNode(b, identity'[b])
        /\ UNCHANGED <<stage, tryCount, starts, dbCollections, opened, inbox, asked>>
        /\ stage[b] = "connecting"
    BY DEF GetPeerId
  <1>2. starts[b] \in 1 .. MaxStarts /\ identity[b] \in 0 .. Torn
    BY <1>1 DEF IInv, Started, TypeOK
  <1>3. identity' \in [Box -> 0 .. Torn]
    BY <1>1, <1>2, Numbers DEF IInv, TypeOK
  <1>4. identity'[b] \in 1 .. Torn /\ (identity'[b] # Torn => identity'[b] \in 1 .. MaxStarts)
    BY <1>1, <1>2, Numbers DEF IInv, TypeOK, Torn
  <1>5. peers' \in [Box -> SUBSET (1 .. MaxStarts)]
    BY <1>1, <1>4 DEF IInv, TypeOK, CreateNode
  <1>6. TypeOK'
    BY <1>1, <1>3, <1>5 DEF IInv, TypeOK, CreateNode
  <1>7. OnDisk'
    <2> SUFFICES ASSUME NEW c \in Box, NEW id \in peers'[c] PROVE id = identity'[c]
      BY DEF OnDisk
    <2>1. CASE c # b
      BY <2>1, <1>1 DEF IInv, TypeOK, OnDisk, CreateNode
    <2>2. CASE c = b /\ id \in peers[b]
      <3>1. id = identity[b] /\ id \in 1 .. MaxStarts
        BY <2>2 DEF IInv, OnDisk, TypeOK
      <3> QED BY <3>1, <2>2, <1>1 DEF IInv, TypeOK
    <2>3. CASE c = b /\ id \notin peers[b]
      BY <2>3, <1>1 DEF IInv, TypeOK, CreateNode
    <2> QED BY <2>1, <2>2, <2>3
  <1>8. Started'
    BY <1>1 DEF IInv, Started
  <1> QED BY <1>6, <1>7, <1>8 DEF IInv

(* Connecting, failing, and the steps of the start write no identity. *)
LEMMA StagesPreserve ==
  ASSUME IInv, NEW b \in Box,
         Connect(b) \/ StartFails(b) \/ StartNode(b) \/ Register(b) \/ Ask(b) \/ SetUp(b)
  PROVE  IInv'
  <1>1. CASE Connect(b)
    <2>1. TypeOK'
      BY <1>1, Numbers DEF IInv, TypeOK, Connect
    <2> QED BY <1>1, <2>1 DEF IInv, OnDisk, Started, Connect
  <1>2. CASE StartFails(b)
    <2>1. TypeOK'
      BY <1>2, EndsTypes DEF IInv, TypeOK, StartFails, libp2p, Message
    <2> QED BY <1>2, <2>1 DEF IInv, TypeOK, OnDisk, Started, StartFails, Ends, Goes, libp2p
  <1>3. CASE StartNode(b)
    <2>1. TypeOK'
      BY <1>3 DEF IInv, TypeOK, StartNode, Goes, Stages, libp2p
    <2> QED BY <1>3, <2>1 DEF IInv, TypeOK, OnDisk, Started, StartNode, Goes, libp2p
  <1>4. CASE Register(b)
    <2>1. TypeOK'
      BY <1>4 DEF IInv, TypeOK, Register, Goes, Stages, libp2p
    <2> QED BY <1>4, <2>1 DEF IInv, TypeOK, OnDisk, Started, Register, Goes, libp2p
  <1>5. CASE Ask(b)
    <2>1. inbox' \in [Box -> SUBSET Message]
      BY <1>5, MessageTypes, InboxTypes DEF IInv, Ask
    <2>2. asked' \in [Box -> SUBSET (Box \X Collection)]
      BY <1>5 DEF IInv, TypeOK, Ask
    <2>3. TypeOK'
      BY <1>5, <2>1, <2>2 DEF IInv, TypeOK, Ask, Goes, Stages, libp2p, Message
    <2> QED BY <1>5, <2>3 DEF IInv, TypeOK, OnDisk, Started, Ask, Goes, libp2p
  <1>6. CASE SetUp(b)
    <2>1. TypeOK'
      BY <1>6 DEF IInv, TypeOK, SetUp, Goes, Stages, libp2p
    <2> QED BY <1>6, <2>1 DEF IInv, TypeOK, OnDisk, Started, SetUp, Goes, libp2p
  <1> QED BY <1>1, <1>2, <1>3, <1>4, <1>5, <1>6

(* Neither do the messages of the topic. *)
LEMMA TopicPreserves ==
  ASSUME IInv, NEW b \in Box,
         HandleDBNameReceived(b) \/ (\E n \in Collection : LoadDB(b, n)) \/ (\E m \in inbox[b] : Lose(b, m))
  PROVE  IInv'
  <1>1. CASE HandleDBNameReceived(b)
    <2>1. PICK m \in inbox[b] : HandleReq(b, m) \/ HandleList(b, m) \/ HandleListTooEarly(b, m)
      BY <1>1 DEF HandleDBNameReceived
    <2>2. UNCHANGED libp2p /\ UNCHANGED starts /\ Listening(b)
      BY <1>1 DEF HandleDBNameReceived
    <2>3. m \in Message /\ Unknown(b, m) \subseteq Collection
      BY MessageTypes DEF IInv
    <2>4. CASE HandleReq(b, m)
      <3>1. inbox' \in [Box -> SUBSET Message]
        BY <2>4, MessageTypes, InboxTypes DEF IInv, HandleReq
      <3> QED BY <2>2, <2>4, <3>1 DEF IInv, TypeOK, OnDisk, Started, HandleReq, libp2p, Message
    <2>5. CASE HandleList(b, m)
      <3>1. inbox' \in [Box -> SUBSET Message]
        BY <2>5, InboxTypes DEF IInv, HandleList
      <3>2. opened' \in [Box -> SUBSET Collection]
        BY <2>3, <2>5 DEF IInv, TypeOK, HandleList
      <3> QED BY <2>2, <2>5, <3>1, <3>2 DEF IInv, TypeOK, OnDisk, Started, HandleList, libp2p, Message
    <2>6. CASE HandleListTooEarly(b, m)
      <3>1. TypeOK'
        BY <2>2, <2>6, EndsTypes DEF IInv, TypeOK, HandleListTooEarly, libp2p, Message
      <3> QED BY <2>2, <2>6, <3>1 DEF IInv, TypeOK, OnDisk, Started, HandleListTooEarly, Ends, Goes, libp2p
    <2> QED BY <2>1, <2>4, <2>5, <2>6
  <1>2. CASE \E n \in Collection : LoadDB(b, n)
    BY <1>2 DEF IInv, TypeOK, OnDisk, Started, LoadDB, libp2p
  <1>3. CASE \E m \in inbox[b] : Lose(b, m)
    <2>1. PICK m \in inbox[b] : Lose(b, m)
      BY <1>3
    <2>2. asked' \in [Box -> SUBSET (Box \X Collection)]
      BY <2>1 DEF IInv, TypeOK, Lose
    <2>3. inbox' \in [Box -> SUBSET Message]
      BY <2>1 DEF IInv, TypeOK, Lose, Message
    <2> QED BY <2>1, <2>2, <2>3 DEF IInv, TypeOK, OnDisk, Started, Lose, libp2p, Message
  <1> QED BY <1>1, <1>2, <1>3

(* A process that is killed while it writes an identity has made no node with
   one before. *)
LEMMA KilledPreserves ==
  ASSUME IInv, NEW b \in Box, Killed(b)
  PROVE  IInv'
  <1>1. identity' = identity \/ (identity[b] = 0 /\ identity' = [identity EXCEPT ![b] = Torn])
    BY DEF Killed
  <1>2. Ends(b) /\ UNCHANGED <<node, tryCount, peers, starts>>
    BY DEF Killed
  <1>3. identity' \in [Box -> 0 .. Torn]
    BY <1>1, Numbers DEF IInv, TypeOK
  <1>4. TypeOK'
    BY <1>2, <1>3, EndsTypes DEF IInv, TypeOK, Message
  <1>5. OnDisk'
    BY <1>1, <1>2 DEF IInv, TypeOK, OnDisk
  <1>6. Started'
    BY <1>2 DEF IInv, TypeOK, Started, Ends, Goes
  <1> QED BY <1>4, <1>5, <1>6 DEF IInv

(* Every step keeps IInv. *)
LEMMA Inductive == IInv /\ [Next]_vars => IInv'
  <1> SUFFICES ASSUME IInv, [Next]_vars PROVE IInv'
    OBVIOUS
  <1>1. CASE Next
    BY <1>1, StartPreserves, GetPeerIdPreserves, StagesPreserve, TopicPreserves, KilledPreserves
       DEF Next
  <1>2. CASE UNCHANGED vars
    BY <1>2 DEF vars, libp2p, IInv, TypeOK, OnDisk, Started
  <1> QED BY <1>1, <1>2

(* Every variable keeps its type. *)
THEOREM TypeCorrect == Spec => []TypeOK
  <1>1. IInv => TypeOK
    BY DEF IInv
  <1> QED BY <1>1, Initially, Inductive, PTL DEF Spec, SafeSpec

(* A box keeps its identity over restarts, wherever its process was ended. *)
THEOREM OneIdentityHolds == Spec => []OneIdentity
  <1>1. IInv => OneIdentity
    <2> SUFFICES ASSUME IInv, NEW b \in Box PROVE Cardinality(peers[b]) <= 1
      BY DEF OneIdentity
    <2>1. peers[b] \subseteq {identity[b]}
      BY DEF IInv, OnDisk
    <2>2. IsFiniteSet({identity[b]}) /\ Cardinality({identity[b]}) = 1
      BY FS_Singleton
    <2> QED BY <2>1, <2>2, FS_Subset
  <1> QED BY <1>1, Initially, Inductive, PTL DEF Spec, SafeSpec
-----------------------------------------------------------------------------
(* What is on its way to box b of a collection that another box has: as long
   as neither ends, the other one keeps it. *)
Comes(b, a) ==
  \/ a[2] \in opened[b]
  \/ Req(b) \in inbox[a[1]]
  \/ \E m \in inbox[b] : m.ROI = "res" /\ m.from = a[1] /\ a[2] \in m.list

Awaited ==
  \A b \in Box : \A a \in asked[b] :
    Listening(b) /\ Listening(a[1]) /\ a[2] \in dbCollections[a[1]] /\ Comes(b, a)

(* What a box loads it has open; and who does not listen has nothing. *)
Opened == \A b \in Box : dbCollections[b] \subseteq opened[b]

LInv == TypeOK /\ Awaited /\ Opened

(* In the beginning nothing is awaited. *)
LEMMA InitiallyNothing == Init => LInv
  BY Initially DEF LInv, IInv, Init, Awaited, Opened

(* A process that ends takes with it what it was to hear and to say. *)
LEMMA EndsAwaited ==
  ASSUME LInv, NEW b \in Box, Ends(b)
  PROVE  Awaited' /\ Opened'
  <1>1. Awaited'
    <2> SUFFICES ASSUME NEW c \in Box, NEW a \in asked'[c]
                 PROVE  (Listening(c) /\ Listening(a[1]) /\ a[2] \in dbCollections[a[1]] /\ Comes(c, a))'
      BY DEF Awaited
    <2>1. c # b /\ a \in asked[c] /\ a[1] # b
      BY DEF Ends
    <2>2. Listening(c) /\ Listening(a[1]) /\ a[2] \in dbCollections[a[1]] /\ Comes(c, a) /\ a[1] \in Box
      BY <2>1 DEF LInv, Awaited, TypeOK
    <2>3. /\ stage'[c] = stage[c] /\ stage'[a[1]] = stage[a[1]]
          /\ dbCollections'[a[1]] = dbCollections[a[1]] /\ opened'[c] = opened[c]
          /\ inbox'[a[1]] = inbox[a[1]] /\ inbox'[c] = inbox[c]
      BY <2>1, <2>2 DEF Ends, Goes, LInv, TypeOK
    <2> QED BY <2>2, <2>3 DEF Listening, Comes, Req
  <1>2. Opened'
    BY DEF LInv, TypeOK, Opened, Ends
  <1> QED BY <1>1, <1>2

(* A step that takes nothing away, of what is open, listened to or in the
   inboxes, keeps what is awaited. *)
LEMMA NothingTaken ==
  ASSUME LInv, UNCHANGED asked, UNCHANGED dbCollections,
         \A b \in Box : (Listening(b) => Listening(b)') /\ opened[b] \subseteq opened'[b]
                          /\ inbox[b] \subseteq inbox'[b]
  PROVE  Awaited' /\ Opened'
  <1>1. Awaited'
    <2> SUFFICES ASSUME NEW c \in Box, NEW a \in asked[c]
                 PROVE  (Listening(c) /\ Listening(a[1]) /\ a[2] \in dbCollections[a[1]] /\ Comes(c, a))'
      BY DEF Awaited
    <2>1. Listening(c) /\ Listening(a[1]) /\ a[2] \in dbCollections[a[1]] /\ Comes(c, a) /\ a[1] \in Box
      BY DEF LInv, Awaited, TypeOK
    <2>2. Comes(c, a)'
      BY <2>1 DEF Comes, Req
    <2> QED BY <2>1, <2>2
  <1>2. Opened'
    BY DEF LInv, Opened
  <1> QED BY <1>1, <1>2

(* A box that asks: whatever another one has is asked of it. *)
LEMMA AskAwaited ==
  ASSUME LInv, NEW b \in Box, Ask(b)
  PROVE  Awaited' /\ Opened'
  <1>1. /\ stage[b] = "subscribing" /\ stage' = [stage EXCEPT ![b] = "asking"]
        /\ inbox' = [c \in Box |-> IF Listening(c) THEN inbox[c] \cup {Req(b)} ELSE inbox[c]]
        /\ asked' = [asked EXCEPT ![b] =
                      {a \in Box \X Collection : Listening(a[1]) /\ a[2] \in dbCollections[a[1]]}]
        /\ opened' = opened /\ dbCollections' = dbCollections
    BY DEF Ask, Goes, Publish
  <1>2. \A c \in Box : (Listening(c) => Listening(c)') /\ inbox[c] \subseteq inbox'[c]
    BY <1>1 DEF Listening, LInv, TypeOK
  <1>3. Listening(b)'
    BY <1>1 DEF Listening, LInv, TypeOK
  <1>4. Awaited'
    <2> SUFFICES ASSUME NEW c \in Box, NEW a \in asked'[c]
                 PROVE  (Listening(c) /\ Listening(a[1]) /\ a[2] \in dbCollections[a[1]] /\ Comes(c, a))'
      BY DEF Awaited
    <2>1. CASE c = b
      <3>1. a[1] \in Box /\ Listening(a[1]) /\ a[2] \in dbCollections[a[1]]
        BY <2>1, <1>1 DEF LInv, TypeOK
      <3>2. Req(b) \in inbox'[a[1]]
        BY <3>1, <1>1
      <3> QED BY <2>1, <3>1, <3>2, <1>1, <1>2, <1>3 DEF Comes, Req
    <2>2. CASE c # b
      <3>1. a \in asked[c]
        BY <2>2, <1>1 DEF LInv, TypeOK
      <3>2. Listening(c) /\ Listening(a[1]) /\ a[2] \in dbCollections[a[1]] /\ Comes(c, a) /\ a[1] \in Box
        BY <3>1 DEF LInv, Awaited, TypeOK
      <3>3. Comes(c, a)'
        BY <3>2, <1>1, <1>2 DEF Comes, Req
      <3> QED BY <3>2, <3>3, <1>1, <1>2
    <2> QED BY <2>1, <2>2
  <1>5. Opened'
    BY <1>1 DEF LInv, Opened
  <1> QED BY <1>4, <1>5

(* A request is answered with all that the box has, to everybody who listens. *)
LEMMA HandleReqAwaited ==
  ASSUME LInv, NEW b \in Box, NEW m \in inbox[b], HandleReq(b, m)
  PROVE  Awaited' /\ Opened'
  <1> DEFINE answer == List(b, dbCollections[b])
  <1>1. /\ m.ROI = "req" /\ UNCHANGED <<stage, dbCollections, opened, asked>>
        /\ inbox' = [c \in Box |-> (inbox[c] \ IF c = b THEN {m} ELSE {})
                                     \cup (IF Listening(c) THEN {answer} ELSE {})]
    BY DEF HandleReq, Take
  <1>2. answer.ROI = "res" /\ answer.from = b /\ answer.list = dbCollections[b]
    BY DEF List
  <1> HIDE DEF answer
  <1>3. Awaited'
    <2> SUFFICES ASSUME NEW c \in Box, NEW a \in asked[c]
                 PROVE  (Listening(c) /\ Listening(a[1]) /\ a[2] \in dbCollections[a[1]] /\ Comes(c, a))'
      BY <1>1 DEF Awaited
    <2>1. Listening(c) /\ Listening(a[1]) /\ a[2] \in dbCollections[a[1]] /\ Comes(c, a) /\ a[1] \in Box
      BY DEF LInv, Awaited, TypeOK
    <2>2. CASE a[2] \in opened[c]
      BY <2>1, <2>2, <1>1 DEF Comes, Listening
    <2>3. CASE Req(c) \in inbox[a[1]] /\ a[1] # b
      <3>1. Req(c) \in inbox'[a[1]]
        BY <2>1, <2>3, <1>1
      <3> QED BY <3>1, <2>1, <1>1 DEF Comes, Listening, Req
    <2>4. CASE a[1] = b
      <3>1. answer \in inbox'[c]
        BY <2>1, <1>1
      <3>2. Comes(c, a)'
        BY <3>1, <2>1, <2>4, <1>1, <1>2 DEF Comes
      <3> QED BY <3>2, <2>1, <1>1 DEF Listening
    <2>5. CASE \E n \in inbox[c] : n.ROI = "res" /\ n.from = a[1] /\ a[2] \in n.list
      <3>1. PICK n \in inbox[c] : n.ROI = "res" /\ n.from = a[1] /\ a[2] \in n.list
        BY <2>5
      <3>2. n \in inbox'[c]
        BY <3>1, <1>1
      <3> QED BY <3>1, <3>2, <2>1, <1>1 DEF Comes, Listening
    <2> QED BY <2>1, <2>2, <2>3, <2>4, <2>5 DEF Comes
  <1>4. Opened'
    BY <1>1 DEF LInv, Opened
  <1> QED BY <1>3, <1>4

(* A list that is handled leaves its collections open. *)
LEMMA HandleListAwaited ==
  ASSUME LInv, NEW b \in Box, NEW m \in inbox[b], HandleList(b, m)
  PROVE  Awaited' /\ Opened'
  <1>1. /\ m.ROI = "res" /\ UNCHANGED <<stage, dbCollections, asked>>
        /\ opened' = [opened EXCEPT ![b] = @ \cup Unknown(b, m)]
        /\ inbox' = [c \in Box |-> inbox[c] \ IF c = b THEN {m} ELSE {}]
    BY DEF HandleList, Take
  <1>2. \A c \in Box : opened[c] \subseteq opened'[c]
    BY <1>1 DEF LInv, TypeOK
  <1>3. m.list \subseteq opened'[b]
    BY <1>1 DEF LInv, TypeOK, Opened, Unknown
  <1>4. Awaited'
    <2> SUFFICES ASSUME NEW c \in Box, NEW a \in asked[c]
                 PROVE  (Listening(c) /\ Listening(a[1]) /\ a[2] \in dbCollections[a[1]] /\ Comes(c, a))'
      BY <1>1 DEF Awaited
    <2>1. Listening(c) /\ Listening(a[1]) /\ a[2] \in dbCollections[a[1]] /\ Comes(c, a) /\ a[1] \in Box
      BY DEF LInv, Awaited, TypeOK
    <2>2. CASE a[2] \in opened[c]
      BY <2>1, <2>2, <1>1, <1>2 DEF Comes, Listening
    <2>3. CASE Req(c) \in inbox[a[1]]
      <3>1. Req(c) # m
        BY <1>1 DEF Req
      <3>2. Req(c) \in inbox'[a[1]]
        BY <2>1, <2>3, <3>1, <1>1
      <3> QED BY <3>2, <2>1, <1>1 DEF Comes, Listening, Req
    <2>4. CASE \E n \in inbox[c] : n.ROI = "res" /\ n.from = a[1] /\ a[2] \in n.list
      <3>1. PICK n \in inbox[c] : n.ROI = "res" /\ n.from = a[1] /\ a[2] \in n.list
        BY <2>4
      <3>2. CASE c = b /\ n = m
        BY <3>1, <3>2, <2>1, <1>1, <1>3 DEF Comes, Listening
      <3>3. CASE ~(c = b /\ n = m)
        <4>1. n \in inbox'[c]
          BY <3>1, <3>3, <1>1
        <4> QED BY <3>1, <4>1, <2>1, <1>1 DEF Comes, Listening
      <3> QED BY <3>2, <3>3
    <2> QED BY <2>1, <2>2, <2>3, <2>4 DEF Comes
  <1>5. Opened'
    BY <1>1, <1>2 DEF LInv, Opened
  <1> QED BY <1>4, <1>5

(* What a lost message would have brought is awaited no longer. *)
LEMMA LoseAwaited ==
  ASSUME LInv, NEW b \in Box, NEW m \in inbox[b], Lose(b, m)
  PROVE  Awaited' /\ Opened'
  <1>1. /\ inbox' = [inbox EXCEPT ![b] = @ \ {m}]
        /\ UNCHANGED <<stage, dbCollections, opened>>
    BY DEF Lose
  <1>2. \A c \in Box : \A a \in asked'[c] :
          a \in asked[c] /\ ~(IF m.ROI = "req" THEN c = m.from /\ a[1] = b ELSE c = b /\ a[1] = m.from)
    BY DEF Lose
  <1>3. Awaited'
    <2> SUFFICES ASSUME NEW c \in Box, NEW a \in asked'[c]
                 PROVE  (Listening(c) /\ Listening(a[1]) /\ a[2] \in dbCollections[a[1]] /\ Comes(c, a))'
      BY DEF Awaited
    <2>1. /\ a \in asked[c] /\ Listening(c) /\ Listening(a[1]) /\ a[2] \in dbCollections[a[1]]
          /\ Comes(c, a) /\ a[1] \in Box
      BY <1>2 DEF LInv, Awaited, TypeOK
    <2>2. CASE a[2] \in opened[c]
      BY <2>1, <2>2, <1>1 DEF Comes, Listening
    <2>3. CASE Req(c) \in inbox[a[1]]
      <3>1. ~(a[1] = b /\ Req(c) = m)
        BY <1>2 DEF Req
      <3>2. Req(c) \in inbox'[a[1]]
        BY <2>1, <2>3, <3>1, <1>1 DEF LInv, TypeOK
      <3> QED BY <3>2, <2>1, <1>1 DEF Comes, Listening, Req
    <2>4. CASE \E n \in inbox[c] : n.ROI = "res" /\ n.from = a[1] /\ a[2] \in n.list
      <3>1. PICK n \in inbox[c] : n.ROI = "res" /\ n.from = a[1] /\ a[2] \in n.list
        BY <2>4
      <3>2. ~(c = b /\ n = m)
        BY <3>1, <1>2
      <3>3. n \in inbox'[c]
        BY <3>1, <3>2, <1>1 DEF LInv, TypeOK
      <3> QED BY <3>1, <3>3, <2>1, <1>1 DEF Comes, Listening
    <2> QED BY <2>1, <2>2, <2>3, <2>4 DEF Comes
  <1>4. Opened'
    BY <1>1 DEF LInv, Opened
  <1> QED BY <1>3, <1>4

(* A collection that a box loads is one more that it has. *)
LEMMA LoadDBAwaited ==
  ASSUME LInv, NEW b \in Box, NEW n \in Collection, LoadDB(b, n)
  PROVE  Awaited' /\ Opened'
  <1>1. /\ dbCollections' = [dbCollections EXCEPT ![b] = @ \cup {n}]
        /\ opened' = [opened EXCEPT ![b] = @ \cup {n}]
        /\ UNCHANGED <<stage, inbox, asked>>
    BY DEF LoadDB
  <1>2. \A c \in Box : opened[c] \subseteq opened'[c] /\ dbCollections[c] \subseteq dbCollections'[c]
    BY <1>1 DEF LInv, TypeOK
  <1>3. Awaited'
    <2> SUFFICES ASSUME NEW c \in Box, NEW a \in asked[c]
                 PROVE  (Listening(c) /\ Listening(a[1]) /\ a[2] \in dbCollections[a[1]] /\ Comes(c, a))'
      BY <1>1 DEF Awaited
    <2>1. Listening(c) /\ Listening(a[1]) /\ a[2] \in dbCollections[a[1]] /\ Comes(c, a) /\ a[1] \in Box
      BY DEF LInv, Awaited, TypeOK
    <2>2. Comes(c, a)'
      BY <2>1, <1>1, <1>2 DEF Comes, Req
    <2> QED BY <2>1, <2>2, <1>1, <1>2 DEF Listening
  <1>4. Opened'
    BY <1>1 DEF LInv, TypeOK, Opened
  <1> QED BY <1>3, <1>4

(* Every step keeps what is awaited. *)
LEMMA AwaitedStep ==
  ASSUME LInv, [Next]_vars
  PROVE  Awaited' /\ Opened'
  <1>1. ASSUME NEW b \in Box,
               Start(b) \/ GetPeerId(b) \/ Connect(b) \/ StartNode(b) \/ Register(b) \/ SetUp(b)
        PROVE  Awaited' /\ Opened'
    <2>1. UNCHANGED asked /\ UNCHANGED dbCollections /\ UNCHANGED opened /\ UNCHANGED inbox
      BY <1>1 DEF Start, GetPeerId, Connect, StartNode, Register, SetUp, libp2p
    <2>2. \A c \in Box : Listening(c) => Listening(c)'
      BY <1>1 DEF Start, GetPeerId, Connect, StartNode, Register, SetUp, Goes, Listening, LInv, TypeOK
    <2> QED BY <2>1, <2>2, NothingTaken
  <1>2. ASSUME NEW b \in Box, StartFails(b) \/ Killed(b)
        PROVE  Awaited' /\ Opened'
    BY <1>2, EndsAwaited DEF StartFails, Killed
  <1>3. ASSUME NEW b \in Box, HandleDBNameReceived(b)
        PROVE  Awaited' /\ Opened'
    BY <1>3, HandleReqAwaited, HandleListAwaited, EndsAwaited DEF HandleDBNameReceived, HandleListTooEarly
  <1>4. CASE UNCHANGED vars
    BY <1>4, NothingTaken DEF vars, libp2p, Listening
  <1> QED
    BY <1>1, <1>2, <1>3, <1>4, AskAwaited, LoadDBAwaited, LoseAwaited DEF Next

(* A box that starts replicates every collection that another box had when it
   was asked, unless a message is lost or one of the two ends. *)
THEOREM LearnsCollectionsHolds == Spec => []LearnsCollections
  <1>1. Init => IInv /\ LInv
    BY Initially, InitiallyNothing
  <1>2. IInv /\ LInv /\ [Next]_vars => (IInv /\ LInv)'
    BY Inductive, AwaitedStep DEF IInv, LInv
  <1>3. LInv => LearnsCollections
    BY DEF LInv, Awaited, Comes, LearnsCollections
  <1> QED BY <1>1, <1>2, <1>3, PTL DEF Spec, SafeSpec
=============================================================================
