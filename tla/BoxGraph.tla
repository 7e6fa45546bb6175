------------------------------ MODULE BoxGraph ------------------------------
(***************************************************************************)
(* One collection of the box under concurrent graphql requests: mutations  *)
(* and one subscription, from the stream handler of the graph protocol to  *)
(* the OrbitDB database and back.                                          *)
(*                                                                         *)
(* loadDB() keeps the open database of a collection, but only once it has  *)
(* been loaded: requests that come in the meantime open it again.  Each    *)
(* docs() of OrbitDB gives a database with its own documents in memory and *)
(* its own events; load() reads what was written before.  A change and its *)
(* event are one step.                                                     *)
(*                                                                         *)
(* A document is abstracted to who wrote it last, a filter to the set of   *)
(* documents it selects.  The announcement of databases in loadDB() never  *)
(* runs, for its condition compares an array with 0.                       *)
(***************************************************************************)
EXTENDS Channels

CONSTANTS
  Writers,    \* mutation requests
  Subscriber, \* the subscription request
  Ids,        \* documents of the collection
  Nobody,     \* writer of a document that does not exist
  Remote,     \* another box that replicates the database
  MaxRemote   \* bound: writes of Remote

Requests == Writers \cup {Subscriber}

ASSUME RequestsAssumption ==
  /\ Subscriber \notin Writers /\ MaxRemote \in Nat
  /\ Nobody \notin Writers \cup {Remote} /\ Remote \notin Writers

VARIABLES
  box,        \* the box's process: "up" or "crashed"
  registered, \* are the resolution methods set?
  opened,     \* databases docs() has opened: 1 .. opened
  cache,      \* dbCollections[collection]: a database, or 0
  view,       \* documents in the memory of each database
  version,    \* changes of each database
  disk,       \* documents that load() finds: of the database changed last
  remote,     \* writes of Remote so far
  pc, db,     \* where each request is, and its database
  op, ids,    \* what a mutation does, and to which documents
  pending,    \* documents whose put() or del() is under way
  first,      \* the result of the subscription's query
  values,     \* iterateLater() between onChange and the generator
  overlap     \* history: was the collection opened while it was being opened?

process == <<box, registered>>
dbs  == <<opened, cache, view, version, disk, remote>>
reqs == <<pc, db, op, ids, pending>>
subs == <<first, values>>
vars == <<process, dbs, reqs, subs, overlap>>

Docs == [Ids -> Writers \cup {Remote, Nobody}]

Snapshots == [version : Nat, docs : Docs]

Snapshot(d) == [version |-> version[d], docs |-> view[d]]

Init ==
  /\ box = "up" /\ registered = FALSE
  /\ opened = 0 /\ cache = 0 /\ view = <<>> /\ version = <<>>
  /\ disk = [i \in Ids |-> Nobody] /\ remote = 0
  /\ pc = [r \in Requests |-> "idle"] /\ db = [r \in Requests |-> 0]
  /\ op = [w \in Writers |-> "put"] /\ ids = [w \in Writers |-> {}]
  /\ pending = [w \in Writers |-> {}]
  /\ first = [version |-> 0, docs |-> disk]
  /\ values = NewChannel
  /\ overlap = FALSE

-----------------------------------------------------------------------------
(* registerGraph() handles the protocol several awaits before it sets the
   resolution methods. *)
Register ==
  /\ ~registered
  /\ registered' = TRUE
  /\ UNCHANGED <<box, dbs, reqs, subs, overlap>>

(* The handler has the request.  Before the registration resolve() throws, and
   so does the handler: nothing is answered, and should the rejection end the
   process there is nothing left to say. *)
Request(r) ==
  /\ pc[r] = "idle"
  /\ pc' = [pc EXCEPT ![r] = IF registered THEN "asked" ELSE "unsupported"]
  /\ UNCHANGED <<process, dbs, db, op, ids, pending, subs, overlap>>

(* loadDB() up to its first await, or up to its return. *)
LoadDB(r) ==
  /\ pc[r] = "asked"
  /\ IF cache # 0
       THEN /\ pc' = [pc EXCEPT ![r] = "loaded"]
            /\ db' = [db EXCEPT ![r] = cache]
            /\ UNCHANGED overlap
       ELSE /\ pc' = [pc EXCEPT ![r] = "opening"]
            /\ overlap' = (overlap \/ \E q \in Requests : pc[q] = "opening")
            /\ UNCHANGED db
  /\ UNCHANGED <<process, dbs, op, ids, pending, subs>>

(* docs() and load() are done. *)
OpenDatabase(r, kept) ==
  /\ pc[r] = "opening"
  /\ opened' = opened + 1 /\ cache' = kept
  /\ view' = Append(view, disk) /\ version' = Append(version, 0)
  /\ pc' = [pc EXCEPT ![r] = "loaded"]
  /\ db' = [db EXCEPT ![r] = opened']
  /\ UNCHANGED <<process, disk, remote, op, ids, pending, subs, overlap>>

(* Mutant: line 88 is missing. *)
OpenedNotKept(r) == OpenDatabase(r, cache)

(* Mutant: the wait for 'replicated' runs and has no time limit. *)
OpenedAwaitsPeers(r) == remote > 0 /\ OpenDatabase(r, opened + 1)

(* The database is kept, whether or not another one has been meanwhile. *)
Opened(r) == OpenDatabase(r, opened + 1)

-----------------------------------------------------------------------------
(* The resolvers of the mutations. *)

Existing(d, s) == {i \in s : view[d][i] # Nobody}

Start(w, o, s, underway, next) ==
  /\ op' = [op EXCEPT ![w] = o]
  /\ ids' = [ids EXCEPT ![w] = s]
  /\ pending' = [pending EXCEPT ![w] = underway]
  /\ pc' = [pc EXCEPT ![w] = next]
  /\ UNCHANGED <<process, dbs, db, subs, overlap>>

(* create() and update().  put() throws of a value without an id: those before
   it are under way, those after it never start. *)
Put(w) ==
  /\ pc[w] = "loaded"
  /\ \E s \in SUBSET Ids \ {{}} :
       \/ Start(w, "put", s, s, "writing")
       \/ \E before \in SUBSET s : Start(w, "put", s, before, "failed")

(* updateQuery() writes the documents its query has found, as it found them, or
   its filter throws of one. *)
UpdateQuery(w) ==
  /\ pc[w] = "loaded"
  /\ \/ \E filter \in SUBSET Ids \ {{}} :
          LET s == Existing(db[w], filter) IN Start(w, "put", s, s, "writing")
     \/ Start(w, "put", {}, {}, "failed")

(* delete().  del() throws of an id that does not exist. *)
Delete(w) ==
  /\ pc[w] = "loaded"
  /\ \E s \in SUBSET Ids \ {{}} :
       IF Existing(db[w], s) = s
         THEN Start(w, "del", s, s, "writing")
         ELSE \E before \in SUBSET Existing(db[w], s) : Start(w, "del", s, before, "failed")

Listening == pc[Subscriber] \in {"answering", "streaming", "gone"}

\* A first query that threw has left its listeners as well.
Listens(d) == db[Subscriber] = d /\ (Listening \/ pc[Subscriber] = "failed")

(* The listeners of the subscription: onChange queries again.  Its filter may
   throw of the documents as they now are; onChange is asynchronous, and nobody
   handles its rejection, which ends the process. *)
OnChange(d) ==
  \/ /\ values' = IF Listening /\ db[Subscriber] = d
                   THEN Send(values, [version |-> version'[d], docs |-> view'[d]])
                   ELSE values
     /\ UNCHANGED box
  \/ Listens(d) /\ box' = "crashed" /\ UNCHANGED values

(* One put() or del() has been written; OrbitDB emits 'write'. *)
Written(w, i) ==
  /\ i \in pending[w]
  /\ LET d == db[w]
         v == IF op[w] = "put" THEN w ELSE Nobody
     IN  /\ view' = [view EXCEPT ![d][i] = v]
         /\ disk' = view'[d]
         /\ version' = [version EXCEPT ![d] = @ + 1]
         /\ OnChange(d)
  /\ pending' = [pending EXCEPT ![w] = @ \ {i}]
  /\ UNCHANGED <<registered, opened, cache, remote, pc, db, op, ids, first, overlap>>

(* Mutant: nobody listens to 'replicated' (line 240). *)
ReplicatedUnheard(d, i) ==
  /\ d \in 1 .. opened /\ remote < MaxRemote
  /\ remote' = remote + 1
  /\ view' = [view EXCEPT ![d][i] = Remote]
  /\ disk' = view'[d]
  /\ version' = [version EXCEPT ![d] = @ + 1]
  /\ UNCHANGED <<process, opened, cache, reqs, first, values, overlap>>

(* A write of another box arrives; OrbitDB emits 'replicated'. *)
Replicated(d, i) ==
  /\ d \in 1 .. opened /\ remote < MaxRemote
  /\ remote' = remote + 1
  /\ view' = [view EXCEPT ![d][i] = Remote]
  /\ disk' = view'[d]
  /\ version' = [version EXCEPT ![d] = @ + 1]
  /\ OnChange(d)
  /\ UNCHANGED <<registered, opened, cache, reqs, first, overlap>>

(* Promise.all() is done: the result goes back. *)
Answer(w) ==
  /\ pc[w] = "writing" /\ pending[w] = {}
  /\ pc' = [pc EXCEPT ![w] = "ok"]
  /\ UNCHANGED <<process, dbs, db, op, ids, pending, subs, overlap>>

-----------------------------------------------------------------------------
(* read() of a subscription: it listens, then queries, without an await in
   between. *)
Subscribe ==
  /\ pc[Subscriber] = "loaded"
  /\ first' = Snapshot(db[Subscriber])
  /\ pc' = [pc EXCEPT ![Subscriber] = "answering"]
  /\ UNCHANGED <<process, dbs, db, op, ids, pending, values, overlap>>

(* The query throws: the subscriber is answered an error.  The listeners stay,
   but what they send after an error is not followed here. *)
QueryFails ==
  /\ pc[Subscriber] = "loaded"
  /\ pc' = [pc EXCEPT ![Subscriber] = "failed"]
  /\ UNCHANGED <<process, dbs, db, op, ids, pending, subs, overlap>>

(* Mutant: the first result is queried when it is sent. *)
YieldFirstLate ==
  /\ pc[Subscriber] = "answering"
  /\ first' = Snapshot(db[Subscriber])
  /\ pc' = [pc EXCEPT ![Subscriber] = "streaming"]
  /\ UNCHANGED <<process, dbs, db, op, ids, pending, values, overlap>>

(* The generator sends the result of the query, then what onChange has found. *)
YieldFirst ==
  /\ pc[Subscriber] = "answering"
  /\ pc' = [pc EXCEPT ![Subscriber] = "streaming"]
  /\ UNCHANGED <<process, dbs, db, op, ids, pending, subs, overlap>>

YieldNext ==
  /\ pc[Subscriber] = "streaming" /\ CanReceive(values)
  /\ values' = Receive(values)
  /\ UNCHANGED <<process, dbs, reqs, first, overlap>>

(* The client or its connection goes away.  The listeners stay. *)
SubscriberLeaves ==
  /\ pc[Subscriber] \in {"answering", "streaming"}
  /\ pc' = [pc EXCEPT ![Subscriber] = "gone"]
  /\ UNCHANGED <<process, dbs, db, op, ids, pending, subs, overlap>>

-----------------------------------------------------------------------------
(* What the box does once it has a request. *)
Serve(r) == LoadDB(r) \/ Opened(r)
Mutate(w) == Put(w) \/ UpdateQuery(w) \/ Delete(w) \/ Answer(w) \/ \E i \in Ids : Written(w, i)
Stream == Subscribe \/ YieldFirst \/ YieldNext

Up == box = "up"

Next ==
  /\ Up
  /\ \/ Register
     \/ \E r \in Requests : Request(r) \/ Serve(r)
     \/ \E w \in Writers : Mutate(w)
     \/ \E d \in 1 .. opened, i \in Ids : Replicated(d, i)
     \/ Stream \/ QueryFails \/ SubscriberLeaves

SafeSpec == Init /\ [][Next]_vars

(* While the box is up, OrbitDB opens and writes what it is asked to. *)
Spec ==
  /\ SafeSpec
  /\ \A r \in Requests : WF_vars(Up /\ Serve(r))
  /\ \A w \in Writers : WF_vars(Up /\ Mutate(w))
  /\ WF_vars(Up /\ Stream)

-----------------------------------------------------------------------------
Served == {"loaded", "writing", "ok", "failed", "answering", "streaming", "gone"}

(* Every variable keeps its type; what is kept open has been opened. *)
TypeOK ==
  /\ box \in {"up", "crashed"} /\ registered \in BOOLEAN /\ overlap \in BOOLEAN
  /\ opened \in Nat /\ cache \in 0 .. opened
  /\ view \in Seq(Docs) /\ version \in Seq(Nat)
  /\ Len(view) = opened /\ Len(version) = opened
  /\ disk \in Docs /\ remote \in 0 .. MaxRemote
  /\ pc \in [Requests -> {"idle", "unsupported", "asked", "opening"} \cup Served]
  /\ db \in [Requests -> 0 .. opened]
  /\ op \in [Writers -> {"put", "del"}] /\ ids \in [Writers -> SUBSET Ids]
  /\ pending \in [Writers -> SUBSET Ids]
  /\ first \in Snapshots /\ values \in Channel(Snapshots)

\* What the subscriber was sent, oldest first.
Sent == <<first>> \o values.out

Last == Sent[Len(Sent)]

\* The subscriber was sent everything there is to send.
UpToDate == Up /\ pc[Subscriber] = "streaming" /\ values.buf = <<>>

(* A subscriber that was sent everything has the documents of its database as
   they are, however writes, replications and its first result interleave. *)
SubscriberConverges == UpToDate => Last.docs = view[db[Subscriber]]

(* It is never sent an older state after a newer one. *)
SnapshotsInOrder ==
  pc[Subscriber] = "streaming" =>
    \A i, j \in 1 .. Len(Sent) : i < j => Sent[i].version <= Sent[j].version

(* A collection is opened twice only by requests that overlap: whoever comes
   after the first was served shares its database. *)
OneDatabase == opened > 1 => overlap

(* A mutation that reaches the resolvers is answered, unless the query of a
   subscription that listens throws: then the process ends, perhaps with part
   of the mutation written. *)
MutationsAnswered ==
  \A w \in Writers :
    pc[w] = "asked" ~> pc[w] \in {"ok", "failed"} \/ (~Up /\ Listens(db[Subscriber]))

(* 'got created item': a value whose creation was answered, and that nobody
   has written since, is in what an up-to-date subscriber was sent. *)
GotCreatedItem ==
  \A w \in Writers, i \in Ids :
    /\ UpToDate
    /\ pc[w] = "ok" /\ op[w] = "put" /\ i \in ids[w]
    /\ remote = 0 /\ \A v \in Writers \ {w} : i \notin ids[v]
    => Last.docs[i] = w
=============================================================================
