--------------------------- MODULE BoxGraphProofs ---------------------------
(***************************************************************************)
(* Proofs, for any requests and documents and any number of writes of      *)
(* another box, that a collection is opened twice only by overlapping      *)
(* requests, and that the subscriber is sent the states of its database in *)
(* order and ends up with the last.                                        *)
(*                                                                         *)
(* The invariant follows everything the subscriber was sent or is about to *)
(* be sent: it is sorted by version, and its last element is the database  *)
(* as it is.                                                               *)
(***************************************************************************)
EXTENDS BoxGraph, Integers, SequenceTheorems, TLAPS

\* What the subscriber was sent and what iterateLater() still holds for it.
All == <<first>> \o Passed(values)

ServedHaveOpened ==
  /\ \A r \in Requests : pc[r] \in Served => db[r] \in 1 .. opened
  /\ \A w \in Writers : pending[w] # {} => db[w] \in 1 .. opened

(* As long as nobody overlaps, one request opens and the others find it open. *)
OpenedByOne ==
  /\ cache = opened
  /\ \/ overlap
     \/ opened = 0 /\ \A q, r \in Requests : pc[q] = "opening" /\ pc[r] = "opening" => q = r
     \/ opened = 1 /\ \A r \in Requests : pc[r] # "opening"

ToldAll ==
  IF Listening
    THEN /\ Up => All[Len(All)] = Snapshot(db[Subscriber])
         /\ \A i, j \in 1 .. Len(All) : i < j => All[i].version <= All[j].version
    ELSE values = NewChannel

IInv == TypeOK /\ ServedHaveOpened /\ OpenedByOne /\ ToldAll

USE DEF process

-----------------------------------------------------------------------------
(* Channel operations keep the type. *)
LEMMA SendType ==
  ASSUME NEW V, NEW c \in Channel(V), NEW v \in V
  PROVE  Send(c, v) \in Channel(V)
<1>1. Append(c.buf, v) \in Seq(V)
  BY AppendProperties DEF Channel
<1> QED
  BY <1>1 DEF Channel, Send, Chan

(* Receiving keeps the type, and gives a value of it. *)
LEMMA ReceiveType ==
  ASSUME NEW V, NEW c \in Channel(V), c.buf # <<>>
  PROVE  Receive(c) \in Channel(V) /\ Head(c.buf) \in V
<1>1. Head(c.buf) \in V /\ Tail(c.buf) \in Seq(V)
  BY HeadTailProperties DEF Channel
<1>2. Append(c.out, Head(c.buf)) \in Seq(V)
  BY <1>1, AppendProperties DEF Channel
<1> QED
  BY <1>1, <1>2 DEF Channel, Receive, Chan
(* A new channel has every type. *)
LEMMA NewType == ASSUME NEW V PROVE NewChannel \in Channel(V)
BY DEF Channel, NewChannel, Chan

-----------------------------------------------------------------------------
(* How what came before a channel and the parts of the channel regroup. *)
LEMMA Regroup ==
  ASSUME NEW V, NEW o \in Seq(V), NEW out \in Seq(V), NEW buf \in Seq(V)
  PROVE  /\ o \o out \in Seq(V) /\ o \o (out \o buf) \in Seq(V)
         /\ o \o (out \o buf) = (o \o out) \o buf
<1>1. out \o buf \in Seq(V) /\ o \o out \in Seq(V)
  BY ConcatProperties
<1>2. o \o (out \o buf) \in Seq(V)
  BY <1>1, ConcatProperties
<1>3. (o \o out) \o buf = o \o (out \o buf)
  BY ConcatAssociative
<1> QED
  BY <1>1, <1>2, <1>3

(* The same with a value appended to the last of the three. *)
LEMMA RegroupAppend ==
  ASSUME NEW V, NEW o \in Seq(V), NEW out \in Seq(V), NEW buf \in Seq(V), NEW v \in V
  PROVE  o \o (out \o Append(buf, v)) = Append(o \o (out \o buf), v)
<1> DEFINE w == <<v>>
<1>1. w \in Seq(V)
  OBVIOUS
<1>2. Append(buf, v) = buf \o w /\ out \o buf \in Seq(V) /\ o \o (out \o buf) \in Seq(V)
  BY AppendIsConcat, Regroup
<1>3. Append(o \o (out \o buf), v) = (o \o (out \o buf)) \o w
  BY <1>2, AppendIsConcat
<1> HIDE DEF w
<1>4. (out \o buf) \o w = out \o (buf \o w)
  BY <1>1, ConcatAssociative
<1>5. (o \o (out \o buf)) \o w = o \o ((out \o buf) \o w)
  <2> DEFINE p == out \o buf
  <2> HIDE DEF p
  <2>1. p \in Seq(V)
    BY <1>2 DEF p
  <2>2. (o \o p) \o w = o \o (p \o w)
    BY <1>1, <2>1, ConcatAssociative
  <2> QED
    BY <2>2 DEF p
<1> QED
  BY <1>2, <1>3, <1>4, <1>5

(* A value that moves from the one to the other changes nothing of the whole. *)
LEMMA RegroupHead ==
  ASSUME NEW V, NEW out \in Seq(V), NEW buf \in Seq(V), buf # <<>>
  PROVE  Append(out, Head(buf)) \o Tail(buf) = out \o buf
<1> DEFINE h == Head(buf)
           w == <<h>>
           u == Tail(buf)
<1>1. h \in V /\ u \in Seq(V) /\ w \in Seq(V)
  BY HeadTailProperties
<1>2. buf = w \o u
  <2>1. /\ Len(buf) \in Nat \ {0} /\ Len(u) = Len(buf) - 1 /\ h = buf[1]
        /\ \A i \in 1 .. Len(u) : u[i] = buf[i + 1]
    BY HeadTailProperties, EmptySeq
  <2>2. buf \in [1 .. Len(buf) -> V]
    BY LenProperties
  <2> QED
    BY <1>1, <2>1, <2>2
<1>3. Append(out, h) = out \o w
  BY <1>1, AppendIsConcat
<1> HIDE DEF h, w, u
<1>4. (out \o w) \o u = out \o (w \o u)
  BY <1>1, ConcatAssociative
<1> QED
  BY <1>2, <1>3, <1>4 DEF h, u

-----------------------------------------------------------------------------
(* A message that is sent comes last, with f in front of all. *)
LEMMA PassedSend ==
  ASSUME NEW V, NEW f \in V, NEW c \in Channel(V), NEW v \in V
  PROVE  /\ <<f>> \o Passed(c) \in Seq(V)
         /\ <<f>> \o Passed(Send(c, v)) = Append(<<f>> \o Passed(c), v)
<1> DEFINE o == <<f>>
           out == c.out
           buf == c.buf
<1>1. out \in Seq(V) /\ buf \in Seq(V) /\ o \in Seq(V)
  BY DEF Channel
<1>2. Send(c, v).out = out /\ Send(c, v).buf = Append(buf, v)
  BY DEF Send, Chan
<1>3. Passed(Send(c, v)) = out \o Append(buf, v) /\ Passed(c) = out \o buf
  BY <1>2 DEF Passed
<1> HIDE DEF o, out, buf
<1>4. o \o (out \o buf) \in Seq(V)
  BY <1>1, Regroup
<1>5. o \o (out \o Append(buf, v)) = Append(o \o (out \o buf), v)
  BY <1>1, RegroupAppend, SMTT(30)
<1> QED
  BY <1>3, <1>4, <1>5 DEF o

(* Receiving does not change what was passed. *)
LEMMA PassedReceive ==
  ASSUME NEW V, NEW c \in Channel(V), c.buf # <<>>
  PROVE  Passed(Receive(c)) = Passed(c)
<1>1. c.out \in Seq(V) /\ c.buf \in Seq(V)
  BY DEF Channel
<1>2. Receive(c).out = Append(c.out, Head(c.buf)) /\ Receive(c).buf = Tail(c.buf)
  BY DEF Receive, Chan
<1> QED
  BY <1>1, <1>2, RegroupHead DEF Passed

(* What was received is the beginning of what was passed. *)
LEMMA ReceivedBegins ==
  ASSUME NEW V, NEW f \in V, NEW c \in Channel(V)
  PROVE  /\ <<f>> \o c.out \in Seq(V)
         /\ <<f>> \o Passed(c) = (<<f>> \o c.out) \o c.buf
<1> DEFINE o == <<f>>
           out == c.out
           buf == c.buf
<1>1. out \in Seq(V) /\ buf \in Seq(V) /\ o \in Seq(V)
  BY DEF Channel
<1> HIDE DEF o, out, buf
<1>2. o \o out \in Seq(V) /\ o \o (out \o buf) = (o \o out) \o buf
  BY <1>1, Regroup
<1> QED
  BY <1>2 DEF o, out, buf, Passed

-----------------------------------------------------------------------------
(* The invariant holds at first. *)
LEMMA InitEstablishes == Init => IInv
<1> SUFFICES ASSUME Init PROVE IInv
  OBVIOUS
<1> USE DEF Init
<1>1. disk \in Docs /\ first \in Snapshots /\ values \in Channel(Snapshots)
  BY NewType DEF Docs, Snapshots
<1>2. TypeOK
  <2>1. view \in Seq(Docs) /\ version \in Seq(Nat) /\ Len(view) = 0 /\ Len(version) = 0
    BY EmptySeq
  <2>2. opened \in Nat /\ cache \in 0 .. opened /\ remote \in 0 .. MaxRemote
    BY RequestsAssumption
  <2>3. db \in [Requests -> 0 .. opened] /\ \A r \in Requests : pc[r] = "idle"
    OBVIOUS
  <2>4. pc \in [Requests -> {"idle", "unsupported", "asked", "opening"} \cup Served]
    OBVIOUS
  <2>5. op \in [Writers -> {"put", "del"}]
    OBVIOUS
  <2>6. ids \in [Writers -> SUBSET Ids] /\ pending \in [Writers -> SUBSET Ids]
    OBVIOUS
  <2> QED
    BY <1>1, <2>1, <2>2, <2>3, <2>4, <2>5, <2>6 DEF TypeOK
<1>3. ServedHaveOpened /\ OpenedByOne /\ ToldAll
  BY DEF ServedHaveOpened, Served, OpenedByOne, ToldAll, Listening, Requests
<1> QED
  BY <1>2, <1>3 DEF IInv

-----------------------------------------------------------------------------
(* Type correctness, one lemma for the actions that reach the databases. *)
Change(d, docs) ==
  /\ d \in 1 .. opened
  /\ view' = [view EXCEPT ![d] = docs]
  /\ disk' = docs
  /\ version' = [version EXCEPT ![d] = @ + 1]
  /\ OnChange(d)
  /\ UNCHANGED <<registered, opened, cache, pc, db, op, ids, first, overlap>>

(* A change keeps the types, gives one database a new version, and leaves the
   others alone. *)
LEMMA ChangeType ==
  ASSUME TypeOK, NEW d, NEW docs \in Docs, Change(d, docs)
  PROVE  /\ view' \in Seq(Docs) /\ version' \in Seq(Nat) /\ disk' \in Docs
         /\ Len(view') = opened /\ Len(version') = opened
         /\ Snapshot(d)' = [version |-> version[d] + 1, docs |-> docs]
         /\ Snapshot(d)' \in Snapshots /\ version[d] \in Nat
         /\ \A e \in 1 .. opened \ {d} : Snapshot(e)' = Snapshot(e)
         /\ values' \in Channel(Snapshots)
<1>1. d \in 1 .. Len(view) /\ d \in 1 .. Len(version) /\ version[d] \in Nat
  BY ElementOfSeq DEF Change, TypeOK
<1>2. /\ view' \in Seq(Docs) /\ Len(view') = Len(view)
      /\ \A e \in 1 .. Len(view) : view'[e] = IF e = d THEN docs ELSE view[e]
  BY <1>1, ExceptSeq DEF Change, TypeOK
<1>3. /\ version' \in Seq(Nat) /\ Len(version') = Len(version)
      /\ \A e \in 1 .. Len(version) : version'[e] = IF e = d THEN version[d] + 1 ELSE version[e]
  <2>1. version' = [version EXCEPT ![d] = version[d] + 1] /\ version[d] + 1 \in Nat
    BY <1>1 DEF Change
  <2> QED
    BY <1>1, <2>1, ExceptSeq DEF TypeOK
<1>4. /\ Snapshot(d)' = [version |-> version[d] + 1, docs |-> docs]
      /\ \A e \in 1 .. opened \ {d} : Snapshot(e)' = Snapshot(e)
  BY <1>1, <1>2, <1>3 DEF Snapshot, TypeOK
<1>5. Snapshot(d)' \in Snapshots
  BY <1>1, <1>4 DEF Snapshots
<1>6. values' \in Channel(Snapshots)
  <2>1. values \in Channel(Snapshots)
    BY DEF TypeOK
  <2>2. values' = Send(values, Snapshot(d)') \/ values' = values
    BY DEF Change, OnChange, Snapshot
  <2> QED
    BY <1>5, <2>1, <2>2, SendType
<1> QED
  BY <1>1, <1>2, <1>3, <1>4, <1>5, <1>6 DEF Change, TypeOK

(* The write of a mutation is a change of its database. *)
LEMMA WrittenChanges ==
  ASSUME TypeOK, ServedHaveOpened, NEW w \in Writers, NEW i \in Ids, Written(w, i)
  PROVE  \E docs \in Docs : Change(db[w], docs)
<1> DEFINE d == db[w]
           v == IF op[w] = "put" THEN w ELSE Nobody
           docs == [view[d] EXCEPT ![i] = v]
<1>1. d \in 1 .. Len(view)
  BY DEF Written, ServedHaveOpened, TypeOK
<1>2. view[d] \in Docs
  BY <1>1, ElementOfSeq DEF TypeOK
<1>3. docs \in Docs
  BY <1>2 DEF Docs
<1>4. view' = [view EXCEPT ![d] = docs]
  BY DEF Written
<1>5. view'[d] = docs
  BY <1>1, <1>4, ExceptSeq, <1>3 DEF TypeOK
<1>6. Change(d, docs)
  BY <1>1, <1>4, <1>5 DEF Written, Change, TypeOK
<1> QED
  BY <1>3, <1>6

(* So is a write that arrives from another box. *)
LEMMA ReplicatedChanges ==
  ASSUME TypeOK, NEW d \in 1 .. opened, NEW i \in Ids, Replicated(d, i)
  PROVE  \E docs \in Docs : Change(d, docs)
<1> DEFINE docs == [view[d] EXCEPT ![i] = Remote]
<1>1. d \in 1 .. Len(view)
  BY DEF TypeOK
<1>2. view[d] \in Docs
  BY <1>1, ElementOfSeq DEF TypeOK
<1>3. docs \in Docs
  BY <1>2 DEF Docs
<1>4. view' = [view EXCEPT ![d] = docs]
  BY DEF Replicated
<1>5. view'[d] = docs
  BY <1>1, <1>4, ExceptSeq, <1>3 DEF TypeOK
<1>6. Change(d, docs)
  BY <1>1, <1>4, <1>5 DEF Replicated, Change, reqs
<1> QED
  BY <1>3, <1>6

(* A database that is opened is added, and the others stay as they are. *)
LEMMA OpenType ==
  ASSUME TypeOK, NEW r \in Requests, Opened(r)
  PROVE  /\ view' \in Seq(Docs) /\ version' \in Seq(Nat)
         /\ Len(view') = opened + 1 /\ Len(version') = opened + 1
         /\ \A e \in 1 .. opened : Snapshot(e)' = Snapshot(e)
<1>1. view' = Append(view, disk) /\ version' = Append(version, 0)
  BY DEF Opened, OpenDatabase
<1>2. /\ view' \in Seq(Docs) /\ Len(view') = opened + 1
      /\ \A e \in 1 .. opened : view'[e] = view[e]
  BY <1>1, AppendProperties DEF TypeOK
<1>3. /\ version' \in Seq(Nat) /\ Len(version') = opened + 1
      /\ \A e \in 1 .. opened : version'[e] = version[e]
  BY <1>1, AppendProperties DEF TypeOK
<1> QED
  BY <1>2, <1>3 DEF Snapshot

(* A mutation that starts keeps the types. *)
LEMMA StartType ==
  ASSUME TypeOK, NEW w \in Writers, NEW o \in {"put", "del"}, NEW s \in SUBSET Ids,
         NEW underway \in SUBSET Ids, NEW next \in {"writing", "failed"},
         Start(w, o, s, underway, next)
  PROVE  TypeOK'
<1> USE DEF Start, dbs, subs
<1>1. pc' \in [Requests -> {"idle", "unsupported", "asked", "opening"} \cup Served]
  BY DEF TypeOK, Served
<1>2. op' \in [Writers -> {"put", "del"}] /\ ids' \in [Writers -> SUBSET Ids]
  BY DEF TypeOK
<1>3. pending' \in [Writers -> SUBSET Ids]
  BY DEF TypeOK
<1> QED
  BY <1>1, <1>2, <1>3 DEF TypeOK

(* Every resolver of a mutation starts in the same way. *)
LEMMA ResolverStarts ==
  ASSUME NEW w \in Writers, Put(w) \/ UpdateQuery(w) \/ Delete(w)
  PROVE  /\ pc[w] = "loaded"
         /\ \E o \in {"put", "del"}, s \in SUBSET Ids, underway \in SUBSET Ids,
               next \in {"writing", "failed"} : Start(w, o, s, underway, next)
<1>1. CASE Put(w)
  BY <1>1 DEF Put
<1>2. CASE UpdateQuery(w)
  <2>1. pc[w] = "loaded" /\ {} \in SUBSET Ids
    BY <1>2 DEF UpdateQuery
  <2>2. CASE Start(w, "put", {}, {}, "failed")
    BY <2>1, <2>2
  <2>3. ASSUME NEW filter \in SUBSET Ids \ {{}},
               Start(w, "put", Existing(db[w], filter), Existing(db[w], filter), "writing")
        PROVE  \E s \in SUBSET Ids : Start(w, "put", s, s, "writing")
    <3>1. Existing(db[w], filter) \in SUBSET Ids
      BY DEF Existing
    <3> QED
      BY <2>3, <3>1
  <2> QED
    BY <1>2, <2>1, <2>2, <2>3 DEF UpdateQuery
<1>3. CASE Delete(w)
  <2>1. PICK s \in SUBSET Ids \ {{}} :
          IF Existing(db[w], s) = s
            THEN Start(w, "del", s, s, "writing")
            ELSE \E before \in SUBSET Existing(db[w], s) : Start(w, "del", s, before, "failed")
    BY <1>3 DEF Delete
  <2>2. SUBSET Existing(db[w], s) \subseteq SUBSET Ids
    BY DEF Existing
  <2> QED
    BY <1>3, <2>1, <2>2 DEF Delete
<1> QED
  BY <1>1, <1>2, <1>3

(* Every step keeps the types. *)
LEMMA TypeNext == TypeOK /\ ServedHaveOpened /\ [Next]_vars => TypeOK'
<1> SUFFICES ASSUME TypeOK, ServedHaveOpened, [Next]_vars PROVE TypeOK'
  OBVIOUS
<1> DEFINE PC == {"idle", "unsupported", "asked", "opening"} \cup Served
<1>1. CASE Register
  BY <1>1 DEF Register, TypeOK, dbs, reqs, subs, Snapshots
<1>2. ASSUME NEW r \in Requests, Request(r) PROVE TypeOK'
  <2>1. pc' \in [Requests -> PC]
    BY <1>2 DEF Request, TypeOK
  <2> QED
    BY <1>2, <2>1 DEF Request, TypeOK, dbs, subs, Snapshots
<1>3. ASSUME NEW r \in Requests, LoadDB(r) PROVE TypeOK'
  <2>1. pc' \in [Requests -> PC] /\ overlap' \in BOOLEAN
    BY <1>3 DEF LoadDB, TypeOK, Served
  <2>2. db' \in [Requests -> 0 .. opened]
    BY <1>3 DEF LoadDB, TypeOK
  <2> QED
    BY <1>3, <2>1, <2>2 DEF LoadDB, TypeOK, dbs, subs, Snapshots
<1>4. ASSUME NEW r \in Requests, Opened(r) PROVE TypeOK'
  <2> USE DEF Opened, OpenDatabase
  <2>1. pc' \in [Requests -> PC]
    BY <1>4 DEF TypeOK, Served
  <2>2. opened' \in Nat /\ cache' \in 0 .. opened' /\ db' \in [Requests -> 0 .. opened']
    BY <1>4 DEF TypeOK
  <2>3. /\ view' \in Seq(Docs) /\ version' \in Seq(Nat)
        /\ Len(view') = opened' /\ Len(version') = opened'
    BY <1>4, OpenType
  <2> QED
    BY <1>4, <2>1, <2>2, <2>3 DEF TypeOK, subs, Snapshots
<1>5. ASSUME NEW w \in Writers, Put(w) \/ UpdateQuery(w) \/ Delete(w) PROVE TypeOK'
  BY <1>5, ResolverStarts, StartType
<1>6. ASSUME NEW w \in Writers, Answer(w) PROVE TypeOK'
  <2>1. pc' \in [Requests -> PC]
    BY <1>6 DEF Answer, TypeOK, Served
  <2> QED
    BY <1>6, <2>1 DEF Answer, TypeOK, dbs, subs, Snapshots
<1>7. ASSUME NEW d, NEW docs \in Docs, Change(d, docs), remote' \in 0 .. MaxRemote,
             pending' \in [Writers -> SUBSET Ids]
      PROVE  TypeOK'
  <2>1. box' \in {"up", "crashed"}
    BY <1>7 DEF Change, OnChange, TypeOK
  <2> QED
    BY <1>7, <2>1, ChangeType DEF Change, TypeOK
<1>8. ASSUME NEW w \in Writers, NEW i \in Ids, Written(w, i) PROVE TypeOK'
  <2>1. remote' \in 0 .. MaxRemote /\ pending' \in [Writers -> SUBSET Ids]
    BY <1>8 DEF Written, TypeOK
  <2> QED
    BY <1>7, <1>8, <2>1, WrittenChanges
<1>9. ASSUME NEW d \in 1 .. opened, NEW i \in Ids, Replicated(d, i) PROVE TypeOK'
  <2>1. remote' \in 0 .. MaxRemote /\ pending' \in [Writers -> SUBSET Ids]
    BY <1>9, RequestsAssumption DEF Replicated, TypeOK, reqs
  <2> QED
    BY <1>7, <1>9, <2>1, ReplicatedChanges
<1>10. CASE Stream
  <2>1. CASE Subscribe
    <3>1. pc' \in [Requests -> PC]
      BY <2>1 DEF Subscribe, TypeOK, Served
    <3>2. first' \in Snapshots
      <4>1. db[Subscriber] \in 1 .. opened
        BY <2>1 DEF Subscribe, ServedHaveOpened, Served, Requests
      <4>2. view[db[Subscriber]] \in Docs /\ version[db[Subscriber]] \in Nat
        BY <4>1, ElementOfSeq DEF TypeOK
      <4> QED
        BY <2>1, <4>2 DEF Subscribe, Snapshot, Snapshots
    <3> QED
      BY <2>1, <3>1, <3>2 DEF Subscribe, TypeOK, dbs
  <2>2. CASE YieldFirst
    <3>1. pc' \in [Requests -> PC]
      BY <2>2 DEF YieldFirst, TypeOK, Served
    <3> QED
      BY <2>2, <3>1 DEF YieldFirst, TypeOK, dbs, subs
  <2>3. CASE YieldNext
    <3>1. values' \in Channel(Snapshots)
      BY <2>3, ReceiveType DEF YieldNext, CanReceive, TypeOK
    <3> QED
      BY <2>3, <3>1 DEF YieldNext, TypeOK, dbs, reqs
  <2> QED
    BY <1>10, <2>1, <2>2, <2>3 DEF Stream
<1>11. CASE SubscriberLeaves
  <2>1. pc' \in [Requests -> PC]
    BY <1>11 DEF SubscriberLeaves, TypeOK, Served
  <2> QED
    BY <1>11, <2>1 DEF SubscriberLeaves, TypeOK, dbs, subs
<1>12. CASE QueryFails
  <2>1. pc' \in [Requests -> PC]
    BY <1>12 DEF QueryFails, TypeOK, Served
  <2> QED
    BY <1>12, <2>1 DEF QueryFails, TypeOK, dbs, subs, Snapshots
<1>13. CASE UNCHANGED vars
  BY <1>13 DEF vars, dbs, reqs, subs, TypeOK
<1> QED
  BY <1>1, <1>2, <1>3, <1>4, <1>5, <1>6, <1>8, <1>9, <1>10, <1>11, <1>12, <1>13
     DEF Next, Serve, Mutate

-----------------------------------------------------------------------------
(* Who has a database, and who opens one. *)
LEMMA OpensNothing ==
  ASSUME ServedHaveOpened, OpenedByOne, UNCHANGED <<opened, cache, overlap, db>>,
         \A r \in Requests : /\ pc'[r] = "opening" => pc[r] = "opening"
                             /\ pc'[r] \in Served => pc[r] \in Served,
         \A w \in Writers : pending'[w] # {} => pending[w] # {} \/ pc[w] \in Served
  PROVE  (ServedHaveOpened /\ OpenedByOne)'
<1>1. ServedHaveOpened'
  BY DEF ServedHaveOpened, Requests
<1>2. OpenedByOne'
  BY DEF OpenedByOne
<1> QED
  BY <1>1, <1>2

(* Every step keeps what is said of open databases. *)
LEMMA OpenedNext ==
  TypeOK /\ ServedHaveOpened /\ OpenedByOne /\ [Next]_vars => (ServedHaveOpened /\ OpenedByOne)'
<1> SUFFICES ASSUME TypeOK, ServedHaveOpened, OpenedByOne, [Next]_vars
             PROVE  (ServedHaveOpened /\ OpenedByOne)'
  OBVIOUS
<1>0. opened \in Nat /\ DOMAIN pc = Requests /\ DOMAIN db = Requests /\ DOMAIN pending = Writers
  BY DEF TypeOK
<1>1. CASE Register \/ UNCHANGED vars
  BY <1>1, OpensNothing DEF Register, vars, dbs, reqs
<1>2. ASSUME NEW r \in Requests, Request(r) PROVE (ServedHaveOpened /\ OpenedByOne)'
  BY <1>0, <1>2, OpensNothing DEF Request, dbs, Served
<1>3. ASSUME NEW r \in Requests, LoadDB(r) PROVE (ServedHaveOpened /\ OpenedByOne)'
  <2>1. CASE cache # 0
    <3>1. /\ UNCHANGED <<opened, cache, overlap, pending>> /\ opened \in 1 .. opened
          /\ pc' = [pc EXCEPT ![r] = "loaded"] /\ db' = [db EXCEPT ![r] = opened]
      BY <1>0, <1>3, <2>1 DEF LoadDB, dbs, OpenedByOne
    <3>2. ServedHaveOpened'
      BY <1>0, <3>1 DEF ServedHaveOpened, Requests
    <3>3. OpenedByOne'
      BY <1>0, <3>1 DEF OpenedByOne
    <3> QED
      BY <3>2, <3>3
  <2>2. CASE cache = 0
    <3>1. /\ UNCHANGED <<opened, cache, db, pending>> /\ opened = 0
          /\ pc' = [pc EXCEPT ![r] = "opening"]
          /\ overlap' = (overlap \/ \E q \in Requests : pc[q] = "opening")
      BY <1>3, <2>2 DEF LoadDB, dbs, OpenedByOne
    <3>2. ServedHaveOpened'
      BY <1>0, <3>1 DEF ServedHaveOpened, Served
    <3>3. OpenedByOne'
      BY <1>0, <3>1 DEF OpenedByOne
    <3> QED
      BY <3>2, <3>3
  <2> QED
    BY <2>1, <2>2
<1>4. ASSUME NEW r \in Requests, Opened(r) PROVE (ServedHaveOpened /\ OpenedByOne)'
  <2>1. /\ opened' = opened + 1 /\ cache' = opened + 1 /\ UNCHANGED <<overlap, pending>>
        /\ pc[r] = "opening" /\ pc' = [pc EXCEPT ![r] = "loaded"]
        /\ db' = [db EXCEPT ![r] = opened + 1]
    BY <1>4 DEF Opened, OpenDatabase
  <2>2. ServedHaveOpened'
    BY <1>0, <2>1 DEF ServedHaveOpened, Requests
  <2>3. OpenedByOne'
    BY <1>0, <2>1 DEF OpenedByOne
  <2> QED
    BY <2>2, <2>3
<1>5. ASSUME NEW w \in Writers, Put(w) \/ UpdateQuery(w) \/ Delete(w)
      PROVE  (ServedHaveOpened /\ OpenedByOne)'
  <2>1. pc[w] \in Served
    BY <1>5, ResolverStarts DEF Served
  <2>2. PICK o \in {"put", "del"}, s \in SUBSET Ids, underway \in SUBSET Ids,
             next \in {"writing", "failed"} : Start(w, o, s, underway, next)
    BY <1>5, ResolverStarts
  <2> QED
    BY <1>0, <2>1, <2>2, OpensNothing DEF Start, dbs
<1>6. ASSUME NEW w \in Writers, Answer(w) PROVE (ServedHaveOpened /\ OpenedByOne)'
  BY <1>0, <1>6, OpensNothing DEF Answer, dbs, Served
<1>7. ASSUME NEW w \in Writers, NEW i \in Ids, Written(w, i)
      PROVE  (ServedHaveOpened /\ OpenedByOne)'
  BY <1>0, <1>7, OpensNothing DEF Written
<1>8. ASSUME NEW d \in 1 .. opened, NEW i \in Ids, Replicated(d, i)
      PROVE  (ServedHaveOpened /\ OpenedByOne)'
  BY <1>8, OpensNothing DEF Replicated, reqs
<1>9. CASE Stream \/ QueryFails \/ SubscriberLeaves
  BY <1>0, <1>9, OpensNothing
     DEF Stream, QueryFails, Subscribe, YieldFirst, YieldNext, SubscriberLeaves, dbs, reqs, Served
<1> QED
  BY <1>1, <1>2, <1>3, <1>4, <1>5, <1>6, <1>7, <1>8, <1>9 DEF Next, Serve, Mutate

-----------------------------------------------------------------------------
(* What the subscriber is told. *)
LEMMA TellsNothing ==
  ASSUME ToldAll, Listening' = Listening, first' = first, values' = values, Up' => Up,
         Listening /\ Up' => Snapshot(db[Subscriber])' = Snapshot(db[Subscriber])
  PROVE  ToldAll'
BY DEF ToldAll, All

(* Whoever listens has a database. *)
LEMMA ListeningServed ==
  ASSUME ServedHaveOpened, Listening
  PROVE  db[Subscriber] \in 1 .. opened
BY DEF ServedHaveOpened, Listening, Served, Requests

(* A change of the subscriber's database is appended, any other is not. *)
LEMMA ChangeTold ==
  ASSUME IInv, Up, NEW d, NEW docs \in Docs, Change(d, docs)
  PROVE  ToldAll'
<1> DEFINE sub == db[Subscriber]
<1>1. UNCHANGED <<pc, db, first>> /\ Listening' = Listening /\ TypeOK
  BY DEF Change, IInv, Listening
<1>2. /\ Snapshot(d)' = [version |-> version[d] + 1, docs |-> docs]
      /\ Snapshot(d)' \in Snapshots /\ version[d] \in Nat
      /\ \A e \in 1 .. opened \ {d} : Snapshot(e)' = Snapshot(e)
  BY <1>1, ChangeType
<1>0. Up /\ (box' = box \/ (~Up' /\ values' = values))
  BY DEF Change, OnChange, Up
<1>5. CASE ~Up' \* onChange has thrown
  BY <1>0, <1>1, <1>5, TellsNothing DEF IInv, Up
<1>3. CASE Up' /\ ~(Listening /\ sub = d)
  <2>1. values' = values /\ Up
    BY <1>0, <1>3 DEF Change, OnChange, Up
  <2>2. Listening => Snapshot(sub)' = Snapshot(sub)
    BY <1>1, <1>2, <1>3, ListeningServed DEF IInv, Snapshot
  <2> QED
    BY <1>1, <2>1, <2>2, TellsNothing DEF IInv
<1>4. CASE Up' /\ Listening /\ sub = d
  <2> DEFINE v == Snapshot(d)'
             a == All
  <2>1. values' = Send(values, v)
    BY <1>0, <1>4 DEF Change, OnChange, Snapshot, Up
  <2>2. first \in Snapshots /\ values \in Channel(Snapshots)
    BY <1>1 DEF TypeOK
  <2>3. a \in Seq(Snapshots) /\ All' = Append(a, v)
    BY <1>1, <1>2, <2>1, <2>2, PassedSend DEF All
  <2>4. /\ a[Len(a)] = Snapshot(d)
        /\ \A i, j \in 1 .. Len(a) : i < j => a[i].version <= a[j].version
    BY <1>0, <1>4 DEF IInv, ToldAll
  <2>5. v.version = version[d] + 1 /\ a[Len(a)].version = version[d]
    BY <1>2, <2>4 DEF Snapshot
  <2>6. v \in Snapshots
    BY <1>2
  <2>7. Snapshot(sub)' = v
    BY <1>1, <1>4 DEF Snapshot
  <2> HIDE DEF v, a, sub
  <2>8. /\ Len(All') = Len(a) + 1 /\ Len(a) \in Nat /\ All'[Len(a) + 1] = v
        /\ \A i \in 1 .. Len(a) : All'[i] = a[i]
    BY <2>3, <2>6, AppendProperties, LenProperties
  <2>9. \A i \in 1 .. Len(a) : a[i].version \in Nat /\ a[i].version <= version[d]
    <3> TAKE i \in 1 .. Len(a)
    <3>1. a[i].version \in Nat
      <4>1. a \in Seq(Snapshots)
        BY <2>3
      <4>2. a[i] \in Snapshots
        BY <4>1, ElementOfSeq
      <4> QED
        BY <4>2 DEF Snapshots
    <3>2. a[i].version <= a[Len(a)].version
      <4>1. CASE i = Len(a)
        BY <3>1, <4>1
      <4>2. CASE i < Len(a)
        BY <2>4, <2>8, <4>2
      <4> QED
        BY <2>8, <4>1, <4>2
    <3> QED
      BY <2>5, <3>1, <3>2
  <2>10. \A i, j \in 1 .. Len(a) + 1 : i < j => All'[i].version <= All'[j].version
    <3> TAKE i, j \in 1 .. Len(a) + 1
    <3> HAVE i < j
    <3>1. CASE j \in 1 .. Len(a)
      <4>1. i \in 1 .. Len(a)
        BY <2>8, <3>1
      <4>2. All'[i] = a[i] /\ All'[j] = a[j]
        BY <2>8, <3>1, <4>1
      <4> QED
        BY <2>4, <3>1, <4>1, <4>2
    <3>2. CASE j = Len(a) + 1
      <4>1. i \in 1 .. Len(a)
        BY <2>8, <3>2
      <4>2. All'[i] = a[i] /\ All'[j] = v
        BY <2>8, <3>2, <4>1
      <4>3. a[i].version \in Nat /\ a[i].version <= version[d]
        BY <2>9, <4>1
      <4>4. v.version = version[d] + 1 /\ version[d] \in Nat
        BY <1>2, <2>5
      <4>5. a[i].version <= v.version
        BY <4>3, <4>4
      <4> QED
        BY <4>2, <4>5
    <3> QED
      BY <2>8, <3>1, <3>2
  <2>11. All'[Len(All')] = Snapshot(sub)'
    BY <2>7, <2>8
  <2> QED
    BY <1>1, <1>4, <2>8, <2>10, <2>11 DEF ToldAll, sub
<1> QED
  BY <1>3, <1>4, <1>5

(* Every step keeps what is said of the subscriber. *)
LEMMA ToldNext == IInv /\ [Next]_vars => ToldAll'
<1> SUFFICES ASSUME IInv, [Next]_vars PROVE ToldAll'
  OBVIOUS
<1> USE DEF Up
<1>0. ToldAll /\ TypeOK /\ ServedHaveOpened /\ Subscriber \notin Writers
  BY RequestsAssumption DEF IInv
<1>1. CASE Register \/ UNCHANGED vars
  BY <1>0, <1>1, TellsNothing DEF Register, vars, dbs, reqs, subs, Listening, Snapshot
<1>2. ASSUME NEW r \in Requests, Request(r) PROVE ToldAll'
  <2>1. Listening' = Listening
    BY <1>0, <1>2 DEF Request, Listening, TypeOK
  <2> QED
    BY <1>0, <1>2, <2>1, TellsNothing DEF Request, dbs, subs, Snapshot
<1>3. ASSUME NEW r \in Requests, LoadDB(r) PROVE ToldAll'
  <2>1. Listening' = Listening /\ (Listening => db'[Subscriber] = db[Subscriber])
    <3>1. pc[r] = "asked" /\ DOMAIN pc = Requests /\ DOMAIN db = Requests
      BY <1>0, <1>3 DEF LoadDB, TypeOK
    <3>2. pc' = [pc EXCEPT ![r] = "loaded"] \/ pc' = [pc EXCEPT ![r] = "opening"]
      BY <1>3 DEF LoadDB
    <3>3. db' = [db EXCEPT ![r] = cache] \/ db' = db
      BY <1>3 DEF LoadDB
    <3>4. Listening' = Listening
      BY <3>1, <3>2 DEF Listening, Requests
    <3>5. r = Subscriber => ~Listening
      BY <3>1 DEF Listening
    <3>6. Listening => db'[Subscriber] = db[Subscriber]
      BY <3>1, <3>3, <3>5 DEF Requests
    <3> QED
      BY <3>4, <3>6
  <2> QED
    BY <1>0, <1>3, <2>1, TellsNothing DEF LoadDB, dbs, subs, Snapshot
<1>4. ASSUME NEW r \in Requests, Opened(r) PROVE ToldAll'
  <2>1. Listening' = Listening /\ (Listening => db'[Subscriber] = db[Subscriber])
    BY <1>0, <1>4 DEF Opened, OpenDatabase, Listening, TypeOK
  <2>2. \A e \in 1 .. opened : Snapshot(e)' = Snapshot(e)
    BY <1>0, <1>4, OpenType
  <2>3. Listening => Snapshot(db[Subscriber])' = Snapshot(db[Subscriber])
    BY <1>0, <2>1, <2>2, ListeningServed DEF Snapshot
  <2> QED
    BY <1>0, <1>4, <2>1, <2>3, TellsNothing DEF Opened, OpenDatabase, subs
<1>5. ASSUME NEW w \in Writers, Put(w) \/ UpdateQuery(w) \/ Delete(w) PROVE ToldAll'
  <2>1. PICK o \in {"put", "del"}, s \in SUBSET Ids, underway \in SUBSET Ids,
             next \in {"writing", "failed"} : Start(w, o, s, underway, next)
    BY <1>5, ResolverStarts
  <2>2. Listening' = Listening
    BY <1>0, <2>1 DEF Start, Listening, TypeOK
  <2> QED
    BY <1>0, <2>1, <2>2, TellsNothing DEF Start, dbs, subs, Snapshot
<1>6. ASSUME NEW w \in Writers, Answer(w) PROVE ToldAll'
  <2>1. Listening' = Listening
    BY <1>0, <1>6 DEF Answer, Listening, TypeOK
  <2> QED
    BY <1>0, <1>6, <2>1, TellsNothing DEF Answer, dbs, subs, Snapshot
<1>7. ASSUME NEW w \in Writers, NEW i \in Ids, Up, Written(w, i) PROVE ToldAll'
  BY <1>0, <1>7, WrittenChanges, ChangeTold
<1>8. ASSUME NEW d \in 1 .. opened, NEW i \in Ids, Up, Replicated(d, i) PROVE ToldAll'
  BY <1>0, <1>8, ReplicatedChanges, ChangeTold
<1>9. CASE Subscribe
  <2>1. /\ ~Listening /\ Listening' /\ first' = Snapshot(db[Subscriber])
        /\ Snapshot(db[Subscriber])' = Snapshot(db[Subscriber])
    BY <1>0, <1>9 DEF Subscribe, Listening, dbs, Snapshot, TypeOK, Requests
  <2>2. All' = <<first'>>
    <3>1. values' = Chan(<<>>, <<>>, "open", "reading")
      BY <1>0, <1>9, <2>1 DEF Subscribe, ToldAll, NewChannel
    <3>2. values'.out = <<>> /\ values'.buf = <<>>
      BY <3>1 DEF Chan
    <3> QED
      BY <3>2 DEF All, Passed
  <2> QED
    BY <2>1, <2>2 DEF ToldAll
<1>10. CASE YieldFirst \/ QueryFails \/ SubscriberLeaves
  <2>1. Listening' = Listening
    BY <1>0, <1>10 DEF YieldFirst, QueryFails, SubscriberLeaves, Listening, TypeOK, Requests
  <2> QED
    BY <1>0, <1>10, <2>1, TellsNothing DEF YieldFirst, QueryFails, SubscriberLeaves, dbs, subs, Snapshot
<1>11. CASE YieldNext
  <2>1. Passed(values') = Passed(values)
    BY <1>0, <1>11, PassedReceive DEF YieldNext, CanReceive, TypeOK
  <2>2. All' = All /\ Listening /\ Listening'
    BY <1>11, <2>1 DEF YieldNext, All, Listening, reqs
  <2> QED
    BY <1>0, <1>11, <2>2 DEF ToldAll, YieldNext, Snapshot, dbs, reqs
<1> QED
  BY <1>1, <1>2, <1>3, <1>4, <1>5, <1>6, <1>7, <1>8, <1>9, <1>10, <1>11
     DEF Next, Serve, Mutate, Stream

-----------------------------------------------------------------------------
(* The inductive invariant holds throughout. *)
THEOREM Invariance == SafeSpec => []IInv
<1>1. Init => IInv
  BY InitEstablishes
<1>2. IInv /\ [Next]_vars => IInv'
  BY TypeNext, OpenedNext, ToldNext DEF IInv
<1> QED
  BY <1>1, <1>2, PTL DEF SafeSpec

(* Every variable keeps its type: BoxGraph as loadDB() and OrbitDB keep it. *)
THEOREM TypeCorrect == SafeSpec => []TypeOK
<1>1. IInv => TypeOK
  BY DEF IInv
<1> QED
  BY <1>1, Invariance, PTL

(* Only requests that overlap while the collection is being opened, the
   window of lines 86 to 88, open it twice. *)
THEOREM OneDatabaseHolds == SafeSpec => []OneDatabase
<1>1. IInv => OneDatabase
  BY DEF IInv, OneDatabase, OpenedByOne, TypeOK
<1> QED
  BY <1>1, Invariance, PTL

(* While the box is up, the subscriber that was sent everything has its database
   as it is: no change between the listeners, the first result and the generator
   is lost. *)
THEOREM SubscriberConvergesHolds == SafeSpec => []SubscriberConverges
<1>1. ASSUME IInv, UpToDate PROVE Last.docs = view[db[Subscriber]]
  <2>1. Listening /\ values.buf = <<>> /\ values.out \in Seq(Snapshots)
    BY <1>1 DEF UpToDate, Listening, IInv, TypeOK, Channel
  <2>2. Passed(values) = values.out
    <3> DEFINE out == values.out
    <3>1. out \in Seq(Snapshots)
      BY <2>1
    <3> HIDE DEF out
    <3>2. out \o <<>> = out
      BY <3>1, ConcatEmptySeq
    <3> QED
      BY <2>1, <3>2 DEF Passed, out
  <2>3. Last = All[Len(All)]
    BY <2>2 DEF Last, Sent, All
  <2> QED
    BY <1>1, <2>1, <2>3 DEF IInv, ToldAll, Snapshot, UpToDate
<1>2. IInv => SubscriberConverges
  BY <1>1 DEF SubscriberConverges
<1> QED
  BY <1>2, Invariance, PTL

(* The subscriber is never sent an older state after a newer one. *)
THEOREM SnapshotsInOrderHolds == SafeSpec => []SnapshotsInOrder
<1>1. ASSUME IInv, pc[Subscriber] = "streaming"
      PROVE  \A i, j \in 1 .. Len(Sent) : i < j => Sent[i].version <= Sent[j].version
  <2> DEFINE s == Sent
             buf == values.buf
             a == All
  <2>1. s \in Seq(Snapshots) /\ buf \in Seq(Snapshots) /\ a = s \o buf
    <3>1. first \in Snapshots /\ values \in Channel(Snapshots)
      BY <1>1 DEF IInv, TypeOK
    <3>2. values.buf \in Seq(Snapshots)
      BY <3>1 DEF Channel
    <3> QED
      BY <3>1, <3>2, ReceivedBegins DEF Sent, All
  <2>2. \A i, j \in 1 .. Len(a) : i < j => a[i].version <= a[j].version
    BY <1>1 DEF IInv, ToldAll, Listening
  <2> HIDE DEF s, buf, a
  <2>3. /\ Len(s) \in Nat /\ Len(buf) \in Nat /\ Len(a) = Len(s) + Len(buf)
        /\ \A i \in 1 .. Len(s) : a[i] = s[i]
    BY <2>1, ConcatProperties, LenProperties
  <2> QED
    BY <2>2, <2>3 DEF s
<1>2. IInv => SnapshotsInOrder
  BY <1>1 DEF SnapshotsInOrder
<1> QED
  BY <1>2, Invariance, PTL
=============================================================================
