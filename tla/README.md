# Verification of Fula

TLA+ models of the Fula box and its client libraries, TLC runs that check them
on small instances, and TLAPS proofs of the results that matter most for every
instance. File names below are relative to the repository's root. Line numbers
are in `PROJECT.json`, which maps every definition to the code it stands for.

Contents: 1 the system, 2 the modules, 3 the runs, 4 fairness, 5 the proofs,
6 what the code does otherwise than it says, 7 what is not modelled, 8 the plan.

## 1. The system

A **box** is a small computer at home that stores files in IPFS and documents in
OrbitDB. **Clients**, in a browser or a phone, open libp2p streams to it. Both
sides are JavaScript: one thread, which runs from one `await` to the next
without interruption. What goes wrong goes wrong between two awaits, so an
action of a model is such a stretch of one asynchronous function.

| component | state | operations | talks to |
|---|---|---|---|
| `libraries/async-later`: `iterateLater`, `resolveLater`, `toAsyncIterable` | a queue of deferred promises, the newest one resolvable | `next`, `complete`, the generator | everything below |
| `async-later`: `partition`, `firstValue` | a counter, two `iterateLater` iterables | the loop, reading either half | the stream handlers |
| `protocols/file`: `save`, `sendFile`, `streamFile`, the handler | a Subject per upload, `incomingFiles` | send, store, declare the id | client, box, libp2p |
| `protocols/file`: `receiveMeta`, `receiveContent` | the two retrieval methods | ask, answer or answer `EMPTY` | client, box |
| encryption (`save.ts`, `fula-client/src/index.ts`) | two byte positions and a buffer | encrypt, decrypt, pad and strip block by block | aes-js |
| `fula-client`: `FulaConnection` | a status, delayed callbacks, listeners on the connection manager | connect, start, stop | libp2p |
| generated schemas (`file`, `graph`, `google/protobuf`) | none | write, read, to and from JSON | the protocols |
| `protocols/graph` and `apps/box/src/graph` | open databases by collection, the query resolution methods | load, query, mutate, subscribe | OrbitDB, client |
| `gql-engine` | none | execute an operation, filter, select fields | the graph handler |
| `apps/box/src/app.ts`, `utils.ts`, `config.ts`, `graph/index.ts` | the start of the box, its identity, back-off, names of databases | start, register the protocols, announce databases | IPFS, other boxes |
| `fula-client-react` hooks | a state per hook, the effect of each client | request, subscribe, unmount | fula-client |
| `rn-fula` bridge | messages between webview and native side, by id | call, stream, answer | fula-client |
| `fula-sec` | none | an identity from a password and its signature; encrypt for identities | - |
| `apps/firmware`: wifi | the access point, the wifi link, chains of commands | enable, disable, connect | systemd, journal |
| `apps/firmware`: server | a count of requests, the file of properties | serve, save, shut down | wifi |
| `examples/gallery` | identity, client, photos, loads and uploads under way | sign in, load, upload | fula-client, wallet |
| `examples/doc-sync` | a meeting, a watched file, a subscription | update, show | fula-client, disk |
| `examples/todo`, React Native screen, cluster, signal server, scripts | not modelled | | |

**What is hard**, and what makes each part correct. Every hazard is listed in
`PROJECT.json` at its line, with the property that would catch it.

* *async-later.* Producer and consumer share a queue across awaits. Values must
  arrive in order and once; an end must reach the consumer, after all values.
  `partition()` runs a loop nobody awaits: the halves must be the source cut at
  the index whichever half is read, and an error of the source ends the process.
* *Upload.* Request and content share one stream; the content goes through four
  queues, each with a consumer of its own. The stream can be reset or lost, which
  can look like a clean end; IPFS can fail; the box can lose power between the
  content and its manifest; the protocol is handled several awaits before
  anybody listens. An id that reaches the client must denote its whole file.
* *Retrieval.* The manifest is read twice, on two streams; an error comes back as
  `Response.EMPTY`. The client must get the file, or know that it has not, also
  when the box was started again after the upload.
* *Messages.* A field that has its default is not written, a oneof has one field,
  a Struct has no place for `undefined`. What arrives must be what was sent.
* *Encryption.* Sender and receiver decide about the padding of the last block
  from different lengths. A file must come back as it was.
* *FulaConnection.* An event is looked at 100 ms late. The status must not stay
  wrong when peers come and go faster than that.
* *Graph.* `loadDB()` awaits between its check and its assignment; a
  subscription adds listeners and queries while mutations and replication go
  on. Subscribers must be sent every state, in order, and end with the last.
* *Wifi.* The event that ends a command has the name of the command, not of the
  process; chains overlap; the process can be ended in the middle of one, and its
  command may end before the next start or after it. Every chain must end, and
  one that meets no other must do what it promises.
* *Hooks.* A request may be made before the last is answered, a client replaced
  while its subscription sends. A component must show what belongs to its last
  request and its present client, and must not load for ever.
* *Bridge.* A listener hears only what comes while it is registered, one deferred
  holds one chunk, a file is cut into groups and collected in batches, an answer
  may not be one that JSON can write. A call must get its own answer, a file must
  be whole, every call must settle.
* *Box start.* The process can be killed while it writes its identity; boxes ask
  each other for their databases over messages that are lost and overtake each
  other, before and after each of them listens.
* *Firmware server.* A request whose body does not parse is counted and never
  discounted; the last one ends a process that is to stop, in the middle of its own
  answer; the file of properties is written without waiting and read at once.
* *Applications.* The gallery's loads and uploads overlap with signing in; an
  identity is made by an effect that sees password and signature change; a
  document is read, watched and announced in three steps, by two programs.

## 2. The modules

```
Channels ---- AsyncChannel <== refined by == IterateLater
  |  
  +-- Partition -- instance --> FileUpload --+
  +-- FileRetrieve ----------- instance -----+--> FileTransfer --> MCFileTransfer
  |   Protobuf -- instance --> FileSchema ---+         == refines ==> FileStore
  |       +---- instance ----> GraphSchema --> OrbitFilter --> GraphCall --+
  +-- BoxGraph                                            QueryHooks ------+--> MCGraphHooks

AccessPoint, FirmwareServer -------> Firmware --> MCFirmware
EncryptedFile, Wallet, Gallery, DocSync ------> MCApps
FulaConnection      BoxStart      NativeBridge

proofs, of the module of the same name:
IterateLaterProofs  FileTransferProofs  BoxGraphProofs    BoxStartProofs
FirmwareProofs      NativeBridgeProofs  AppsProofs (of MCApps)
ClientProofs (of FulaConnection and QueryHooks)
```

An arrow is EXTENDS or, where it says so, INSTANCE. `MCApps` and `Firmware` put
programs side by side that share nothing: a behaviour is of one of them, chosen
at the start.

**Channels** gives the values of one asynchronous iterable: what is buffered,
what the reader has had, how the producer left it (open, closed, failed, cut) and
what the reader has met. It is what `iterateLater()`, a Subject and a libp2p
stream have in common. **AsyncChannel** makes one such channel a specification.

**IterateLater** is `iterateLater()` as it is written: the queue of deferreds,
`nextInLine`, the generator that pops, awaits and yields, `complete()` that may
be called twice (as `partition()` does), a rejected deferred, an unhandled
rejection when the consumer has left. It implements `AsyncChannel`, with its
liveness; the models above it use the channel in its place.

**Partition** is the loop of `partition()` for any index. What feeds it and what
reads its halves are those of the module that has an instance of it.

**FileUpload** is one upload from `sendFile()` or `streamFile()` to the id. It
uses the actions of `Partition` with index 1 for the handler's split of Request
and content. One action is one stretch of one function: the client's generator,
its reading of the reply, the partition loop, the handler (its first message, the
dispatch to `save()`, the reply, the closing), `save()`'s loop over the bytes, the
box's subscriber with its two `ipfs.add`. A frame is a number, 0 for the Request
and i for the i-th chunk; IPFS is content addressed, so an id *is* the content
its manifest names. `ClientReset`, `LoseConnection`, `AddFails` and `PowerLoss`
are the failures, each possible at every moment.

**FileRetrieve** is `receiveFile()` over its two streams with the box's two
retrieval methods. An error of `cat()` may hit the manifest, on either stream,
or the content in the middle. Its handler is then rejected, and the stream, which
the box closes all the same, tells the client. A connection that is lost may also
end the box: the retrieval splits its request with `partition()`, whose loop rejects
with nobody to handle it.

**Protobuf** is the code that is generated for a class, once for all classes: a
class is the sequence of its fields, `Write` and `Read` go over it. A field is
always there, optional, in a oneof, a message, repeated or a map; unknown fields
are kept. **FileSchema** has the classes of the file protocol and the way of a
Meta: request, manifest, answer. **GraphSchema** has `Request`, `Result` and the
Struct, Value and ListValue of `google/protobuf`, with their conversion from and
to JSON and the values at which it throws.

**FileTransfer** joins them: a file with a Meta is uploaded by `FileUpload`, its
messages are the bytes `FileSchema` writes, the id it resolves to is then asked
for by `FileRetrieve`. What the messages are is left to operator constants, to
which **MCFileTransfer** gives the encodings of `FileSchema`. The box of both is
the same process; between them it may lose power and be started again (`Restart`,
`RegisterAgain`), with what IPFS has.

**FileStore** is what a client may rely on: a store of one file in six actions,
which keeps a prefix once and for good (`Keep`), tells the id of the whole file
only when that is kept (`Tell`), or nothing (`GiveUp`), and gives the whole file
back (`Fetch`) unless the fetch was disturbed. `FileTransfer` implements it: what
is kept are the contents that IPFS has together with their manifest, and the fetch
is disturbed when its connection is lost or IPFS fails to find the manifest again.
A truncated fetch that resolves, which the code cannot tell from a whole one, is a
behaviour of the store too, but only of one that was disturbed.

**EncryptedFile** is the pair of block loops. A byte of the file is its position,
a byte of padding the negative of the padding's length, a byte that does not
decrypt 0. CBC is modelled by what it depends on, the place within its call.

**FulaConnection** has all the connection objects of one client, for they share
the manager's listeners: `on()` returns the manager, so `removeAllListeners()` of
one object deafens all. Timers of one object run in the order they were set.

**BoxGraph** is one collection of the box under concurrent requests, from the
handler of the graph protocol to OrbitDB and back: `loadDB()` in two steps, the
mutations with their batches of `put()` or `del()` that can throw in the middle,
the subscription with `onChange` and its generator, writes of another box. The
subscription's filter may throw: in its first query (`QueryFails`), which is an
answer, or in `onChange`, whose rejection nobody handles and which ends the box.
A document is who wrote it last; every `docs()` gives a database with documents
and events of its own.

**OrbitFilter** evaluates a JSON filter as `orbit-filter.ts` does, with
JavaScript's comparisons between types and with its refusals, which throw.
**GraphCall** is a query from the arguments of `graphql()` through the messages,
the choice of the operation, the filter and the selection of fields to what the
client resolves to. It also says, apart from the code, what a filter means
(`Selects`) and which calls are clear enough to have a meaning (`Clear`).

**QueryHooks** is a component with `useLazyQuery()` and `useSubscription()`. An
answer can come in any order and sets the state of the hook; each client has the
effect of its own, which learns only at its next value that it was cleaned up. What
a call is answered is an operator constant; **MCGraphHooks** gives it the value
that `GraphCall` computes.

**NativeBridge** is `rn-fula`: two queues of messages, and on either side an
emitter that hands a message to who listens at that moment, by the id of the
call. The page answers when its Fula client does. The calls are of five kinds:
`start`, `connect`, `meta`, `send` and `receive`. Of these `connect` has a step of its
own, `Connected`: what it would answer is the `FulaConnection`, which JSON cannot
write, so that it is answered as failed. A chunk has a number and no size, for
those of a received file have any. `gen` is the state of
`observableToAsyncGenerator()` with its single deferred, `read` and `buffer` the
batches of `streamSend()`. `lost` and `unheard` record what came to nobody. The
field in which the page looks for the function's name is a constant.

**BoxStart** is `app()` of each box: its identity from the disk or a new one, the
node, the back-off to IPFS, the registrations in their order, and the topic on
which boxes ask for and announce their databases. An identity is the number of
the start that made it. `Killed` is possible at every moment, in the middle of
writing the identity too; `Lose` loses a message.

**AccessPoint** has the command chains of the wifi service. The commands are
names in a sequence; what one does to the device is `Effect`. `Finish` is the end
of a process, the line in the journal, and what every listener does about it,
for the listeners run one after the other in one event. `Boot` is the start of
the firmware, for the first time or after an `End`. `End` comes at any moment; each
command under way goes on or dies with the process, and one that goes on may end
before the next start or after it.

**FirmwareServer** is the server's count of requests, its shutdown and the file of
properties, the writing of which is two steps that others may come between and
either of which may fail. The counting middleware runs before koa sends the
response; after a SIGINT the last request ends the process there (`Leaves`) and is
`cut` instead of answered.
**Firmware** has it beside the wifi service, with the names of their promises.

**Wallet** is the sign-in of the gallery: the password is typed, signed by a
wallet, and an effect on both makes an identity. **Gallery** is the page of the
photos: effects that load, uploads that store a file and then a record, and the
two other programs that write into the same collection. **DocSync** is `fsync`
and the page of `fuludocs` with the meeting between them. From `OpenedTwice` on the
box has two databases for the collection of the meeting, the case of
`box_graph_created`, and a subscription may or may not be told of an update.

## 3. The runs

| run | instance | checked | states |
|---|---|---|---|
| `iterate_later` | 2 values, 4 calls | `DeliversInOrder`, `ImplementsChannel`, `CompletionReachesConsumer` | 1 357 |
| `file_transfer` | 3 chunks, 9 Metas, 1 restart | `TransferInv`, `CrashHasCause`, `ReceivedIsSent`, `MetaArrives`, `ImplementsStore`, `UploadSettles`, `RetrieveSettles` | 256 581 |
| `fula_connection` | 2 peers, 2 objects, 3 timers each | `StatusAgrees`, `StayingPeerMeansOnline` | 69 757 |
| `box_graph` | 2 mutations, 1 subscription, 1 document, 1 foreign write | `OneDatabase`, `SubscriberConverges`, `SnapshotsInOrder`, `MutationsAnswered` | 149 693 |
| `graph_hooks` | 2 requests, 2 clients, some 70 arguments | `TellsLastRequest`, `ShowsWhatIsAsked`, `ArgumentsArrive`, `ShowsCurrentClient`, `StopsLoading` | 190 352 |
| `native_bridge` | 3 calls of any kind, 5 groups in slices of 2, 5 chunks | `TypeOK` (with: resolved only by the page's own call), `UploadedUnlessLate`, `ReceivedIsStored`, `SettlesUnlessLost` | 238 178 |
| `box_start` | 2 boxes, 2 starts each, 1 collection, 2 attempts | `OneIdentity`, `LearnsCollections`, `StartEnds` | 163 579 |
| `firmware` | 2 starts, 1 request for the wifi; 3 requests to the server | `NobodyWaitsInVain`, `SettledRight`, `ConnectedToOwn`, `EveryChainEnds`; `StopsAsAsked`, `SavedUnlessDisturbed` | 332 019 |
| `apps` | see below | `RoundTrip`; `IdentityRecoverable`, `IdentityComes`; `GalleryIsRight`; `DocArrives`, `NeverOlder` | 336 017 |
| `encrypted_file_decrypts`, `box_graph_created`, `native_bridge_start` | smaller | each finds a disagreement, see 6 | |

What the properties say in more words:

* *file_transfer.* `TransferInv` has the parts that hold of every prefix of a
  transfer: the halves of `partition()` are the source cut after the Request and
  end only when nothing can come, what IPFS stores is a prefix of the file, an id
  the client gets denotes the whole of it (`IdDenotesFile`), what
  the client has of the content is its beginning or `EMPTY` alone. `ReceivedIsSent`
  is the end of it all: over a connection that held, and if IPFS found the
  manifest again, the client has the file it sent. `CrashHasCause` names the
  three ways in which a transfer may end the process of the box. `RetrieveSettles`
  excuses a box that is gone or was asked before it had registered, and nothing
  else: a manifest that is not found, a `cat()` that fails in the middle of the
  content and a lost connection all reach the client. `ImplementsStore`
  is the refinement of `FileStore`: beyond the invariants, no step takes back,
  changes or repeats what the client was told, stored or given.
* *box_graph.* `MutationsAnswered` has one excuse, a listener that throws while the
  mutation writes: the box ends with part of it written and nobody is answered.
* *graph_hooks.* `ShowsWhatIsAsked` compares what a component shows with what the
  filter means, a definition that follows no line of the code. `ArgumentsArrive`
  allows one change of the arguments, falsy variables become null.
* *native_bridge.* The page of this repository looks for a field that requests
  do not have (6), so that no call gets far; this run checks the rest of the
  bridge with the field's declared name. `UploadedUnlessLate` says that
  an uploaded file is the sent one less exactly the chunks nobody was reading
  for. `ReceivedIsStored` says that a received file is all of its chunks, once each
  and in order, and that every piece but the last ends with a third chunk. Each piece
  is base64 of its own, so padding stands inside the file wherever the bytes up to a
  third chunk are no multiple of three (6). `SettlesUnlessLost` names what
  leaves a call pending (`Hangs`): a failed answer, every `connect()`, a content that
  broke off, a message that came to nobody.
* *box_start.* `LearnsCollections`: of every collection another box had when it
  was asked, the asker has opened it, or the question or the answer is on its way,
  unless a message was lost or one of the two ended.
* *firmware.* `SettledRight` is about the last chain of the access point, if it
  began while no command of another one was under way. What went before may be a
  chain whose process was ended after any of its commands. `StopsAsAsked`: after a
  SIGINT the server stops with the last request it has, cuts off no other, and the
  response of that one is lost; a request whose body did not parse keeps it up for
  ever.
* *apps.* `GalleryIsRight` allows what the code does to overlapping loads and says
  what a gallery at rest shows otherwise. `DocArrives` names five things that keep
  the page from the document as it is: a write before the watch began, updates that
  overlapped, a file shown late, a call that failed, a box with two databases for
  the collection. `NeverOlder` fails by the second, the third and the last.

Why these bounds are enough:

* *iterate_later.* Two values tell a swap from a repetition. Four calls fill the
  queue, let the generator catch up with `nextInLine` and fall behind again. The
  order of delivery is proved for all.
* *file_transfer.* Three chunks are a first, a middle and a last one. Every
  failure is possible at each point; one upload suffices, for uploads share
  nothing but `incomingFiles`, which is a Subject without memory. The Metas have
  every combination of a name, a type and a size that is empty and not, dates before
  and after 1970, and one with a preview. One restart: the box keeps nothing but
  what IPFS has.
* *fula_connection.* `MaxTimers` bounds the events within 100 ms; three are a
  peer that comes, goes and comes again. Two objects are needed because `stop()`
  of one affects the other. `StatusAgrees` is proved for any bound.
* *box_graph.* Two mutations and a subscription let `loadDB()` overlap in every
  way; a second document only makes batches longer (its checks pass too, in
  a space twice as large, without the foreign write). `MaxRemote` bounds
  the other box. The safety properties are proved for any of them.
* *graph_hooks.* Two requests overlap or do not. `Later` bounds the second
  request to two arguments, for answers do not depend on earlier ones. The
  filters have every operator, every refusal, comparisons across types, and
  nesting of two levels; the query texts one and two operations.
* *native_bridge.* Three calls are two that overlap and a third with an
  answer of its own. Five groups in slices of two leave one at the end; the file
  that is received has five chunks, so that a batch of three is followed by a
  smaller one.
* *box_start.* Two starts are one that is killed and the one after it; with two
  boxes each asks and is asked. Two attempts at IPFS are one that fails and one
  that is the last. The safety properties are proved for all of these.
* *firmware.* Two starts of the wifi are one that is ended, at any of its commands,
  and the one after it; the
  request connects or disables. `MaxUnderWay` bounds the commands that are under
  way when a chain starts: with 1, two chains overlap, and a third starts once
  they have run down to one command. Chains themselves are of full length. Three
  requests to the server are two posts and a read, one of the posts shorter.
* *apps.* `EncryptedFile`: the code depends on the size modulo the block and
  modulo the AES block only; blocks of 9, AES blocks of 3 and sizes of 0 to 30
  have every residue in files of none to four blocks. `Wallet`: two passwords and
  three edits, one that is signed, one that is not, and the first again.
  `Gallery`: two files, two clients, two loads that overlap, an identity and
  another uploader's. `DocSync`: three versions and three subscriptions, so that
  two updates overlap and a subscription comes before, between and after them.

`CHECK_DEADLOCK FALSE` is set wherever the modelled episode ends: a transfer is
over, all calls are made, all starts are used up. `FulaConnection` goes on
forever and has the check.

A mutant of a mapped definition, listed in `PROJECT.json`, shows for every
property that a plausible mistake in the code would violate it: a dropped guard
(`DisconnectedBlindly`), a swapped order (`SaveCompleteEarly`, `EnablingTooEarly`),
an effect that depends on too little (`EffectOfSignature`), a key forgotten on the
way out (`RequestUnnamed`), a forgotten assignment (`OpenedNotKept`).

## 4. Fairness

`SafeSpec` is a specification without fairness, `Spec` adds the fairness that
the liveness properties need:

* *Code that can run does run.* A promise that settles resumes its function from
  the microtask queue; as long as the process lives nothing can put it off
  forever. Hence weak fairness of each asynchronous function as a whole
  (`Generator`, `PartitionLoop`, `Handler`, `Adder`, `Client`, `Stream`, the start of a
  box, ...), one condition for each independent actor.
* *A timer fires* (`Timer`), *a command ends and the journal is read* (`Finish`),
  *OrbitDB does what it is asked to* (`Serve`, `Mutate`), *either side of the bridge
  takes its messages* (`NativeMessage`, `WebMessage`), *the watcher polls*
  (`Updating`), *a call of a hook is answered or its connection is closed*.
* *Nothing is assumed of failures*, users, peers, networks and power, or of the
  reader of a half it may abandon. In particular nothing tells a client that a
  box has gone: `UploadSettles` and `RetrieveSettles` name the cases in which
  the code leaves the promise pending. Nobody must start a box again: `Restart`
  has no fairness, nor has the end of a Fula call that the bridge waits for
  as a failure (`ClientFails`, `ContentFails`).

## 5. The proofs

| theorem | says | assumes |
|---|---|---|
| `IterateLaterProofs!TypeCorrect`, `DeliversInOrderHolds`, `RefinesChannel` | `iterateLater()` delivers in order, ends after the last value, and implements the safety part of `AsyncChannel` | the markers are no values |
| `FileTransferProofs!TypeCorrect`, `IdDenotesFileHolds`, `StoresPrefixesHolds` | an id the client gets denotes the whole file | `N` is a natural number |
| `FileTransferProofs!TransferInvHolds`, `ReceivedIsSentHolds`, `CrashHasCauseHolds` | a file that is uploaded and received over connections that held is the file that was sent, over a restart of the box too; nothing is mixed up on the way; the box ends for a named reason | the same |
| `FileTransferProofs!RefinesStore` | a transfer is a `FileStore`, step by step | the same |
| `FileTransferProofs!MetaArrivesHolds` | a transfer loses nothing of a Meta | its three encodings, one after the other, lose nothing of the Metas |
| `ClientProofs!StatusAgreesHolds` | a listening object whose timers have run is right | `MaxTimers` is a natural number |
| `BoxGraphProofs!TypeCorrect`, `OneDatabaseHolds`, `SubscriberConvergesHolds`, `SnapshotsInOrderHolds` | the subscription's promises, for any requests and documents, while the box is up | the names of requests and writers are distinct |
| `FirmwareProofs!TypeCorrect`, `NobodyWaitsInVainHolds` | no chain waits for an event that will not come | names of chains and networks are distinct |
| `FirmwareProofs!SettledRightHolds`, `ConnectedToOwnHolds` | a chain that met no other of its group leaves the device as it promises, wherever the process before was ended | the same |
| `FirmwareProofs!StopsAsAskedHolds`, `SavedUnlessDisturbedHolds`, `FirmwareRunsWifi` | the server stops with its last request, the only one it cuts off; properties that were posted are read; the wifi beside the server | properties have lengths |
| `BoxStartProofs!TypeCorrect`, `OneIdentityHolds`, `LearnsCollectionsHolds` | one identity over any number of restarts; collections are opened or on their way | the bounds are natural numbers, there is an attempt |
| `ClientProofs!HooksTypeCorrect`, `TellsLastRequestHolds`, `LoadingEndsHolds`, `ShowsCurrentClientHolds` | a hook tells the state of its last request and shows its present client, any answers | later arguments are arguments, the bounds are natural numbers |
| `NativeBridgeProofs!TypeCorrect`, `UploadedUnlessLateHolds`, `ReceivedIsStoredHolds` | a call settles by its own answer; an upload is its file less what came to nobody; a download is its file, in pieces that end with every third chunk; any number of calls | lengths are natural numbers, the amount of a slice not 0 |
| `AppsProofs!RoundTripHolds` | an encrypted file of any size comes back, but where the padding fills the last block | the block is a multiple of the AES block, and longer (16 384 and 16 in the code) |
| `AppsProofs!IdentityRecoverableHolds`, `NeverOlderHolds`, `GalleryIsRightHolds` | an identity can be made again; the page of a document does not go back; a gallery at rest shows what its identity can read | a DID is something, and so is another uploader |

Each rests on an inductive invariant, called `IInv` where there is one, for the
property alone is not inductive:

* *IterateLater.* The order of what was yielded says nothing of what is queued.
  `QueueInv` says what each deferred holds: one for each value sent, then the end
  if there was one, then `nextInLine`. `GeneratorInv` says how far the generator
  is in it. Refinement: each step maps to a step of the channel or a stutter.
* *FileUpload.* `IdDenotesFile` is about the two ends of five channels. The
  invariant follows the frames along them: each channel holds its frames in
  numerical order, as many as the one before has handed over, and is closed only
  if the one before has ended. So the content that `ipfs.add` has read to its
  end is the file, unless the source broke off, and then the reply never gets
  through. The facts about channels stand first, over plain sequences.
* *FileTransfer.* The upload keeps its invariant in the whole, with the first
  half of the partition (`FirstInv`) and with what must have happened for a
  stream to be lost or something to be stored (`CauseInv`). Of the retrieval,
  `MetaInv` says what the first request can have led to, `ChunksInv` how many
  chunks of the content are where, and that they are its beginning or `EMPTY` alone,
  `EndInv` that its stream ends with its handler. `MessagesInv`: the manifest in IPFS
  is that of the Request, and so is what was decoded. `JointInv`: only a client that
  has an id has received a file, and a process that ended has its cause.
* *FileStore.* `UploadIsStore` and `RetrievalIsStore` map each step. Most are not
  seen; `AddManifest` is `Keep`, because nothing was kept before (`CauseInv`) and
  what was read is a prefix (`PartOfFile`); `ClientSettle` is `Tell`, because every
  id on its way is good (`ReplyInv`); `ContentEnd` is `Fetch`, by the invariant after
  the step. A promise settles once, for its reader does.
* *FulaConnection.* A status may be wrong while timers are pending. `OwedStatus`
  says what is owed: if the status is wrong, the timer that puts it right is
  pending. `StopsDeaf`: nobody listens while the manager stops.
* *BoxGraph.* `ToldAll` joins what was sent, what is queued and the first result,
  which is sent last of the three although it was queried before the others: the
  whole is sorted by version and its last element is the database as it is.
  `OpenedByOne`: without overlap at most one request is opening.
* *AccessPoint.* `NobodyWaitsInVain` is inductive with the types: the only process
  whose end can hurt a chain is its own, and that end wakes it. The two others
  follow the device along the one chain of its group: `Underway` says what the
  device is like at each step of a chain of the access point, `Own` what the
  configuration and the supplicant are at each step of a connection. `Processes`: a
  chain has processes of its own steps only, so in a group without overlap the
  last chain's is the only one; and the two groups have no command in common, so
  that no process of one changes what the other is about (`APLeavesWifi`,
  `WifiLeavesAP`).
* *FirmwareServer.* `CountInv`: the counter is the number of the requests that were
  counted and not discounted, so that a server which is leaving has one of them,
  and one that is off has none: the request that was the last is `cut`. `FileInv`:
  if nothing met it, only the last post is being written, to a file that is empty
  until it is whole.
* *BoxStart.* `OnDisk`: every node was made with the identity that the disk holds
  now. It is inductive because an identity is on the disk, whole, before the node
  is made, and a process that is killed while writing leaves none for a node,
  ever. `Awaited` joins what is opened, what is asked and what is answered, with
  the names that a box knows, and `Opened` says that it has opened them.
* *QueryHooks.* `OneAtATime`: without overlap only the last request is pending, so
  that the answer that comes is its own. `CurrentEffect`: only the effect of the
  present client, of a mounted component, takes itself for mounted.
* *NativeBridge.* What a caller has says nothing of the two queues. `WebQueue` and
  `NativeQueue`: the messages of a call are in them in the order of its stream, its
  request or its `START` first, each chunk below the next, its end last.
  `UploadKept`: what has come, what came to nobody and what is on its way are
  disjoint, in this order, and together the file (`SlicesFacts`: the slices of
  `fileReader2()` are); so when the generator has heard of the end, nothing is
  on its way. `DownloadKept`: `streamSend()` holds the last chunks it has read,
  after a multiple of three that has arrived or is on its way. That a call is
  done only with the kind of end its kind has is `KindFits`.
* *EncryptedFile.* `Ciphertext` and `Plaintext` say, byte by byte, what all of the
  file becomes; `EncryptedInv`, that each loop has dealt with the beginning of them
  up to `startP`, a multiple of the block. The two loops decide about the last block
  from different lengths; `LastBlock`, `TotalFits` and `FullBlocks`, about
  remainders, say when these decisions agree.
* *Wallet.* `UntouchedInv`: as long as no password was changed after it was given
  to the wallet, what is being signed is the password as it is, and what is
  signed too, unless there is an identity already.
* *DocSync.* Versions are ordered all along their way: `SentInOrder` from the
  updates to what each subscription has yet to show, `ShownInOrder` from what is
  shown to the last of these.
* *Gallery.* `AloneInv`: undisturbed, what is shown is what is due, each photo
  once, but for what the only load has still to show. That rests on `FilesInv`: a
  cid is one file's, of one record or of an upload that has none yet.

Model-checked only:

* liveness, that of `AsyncChannel` in `ImplementsChannel` included (its safety part
  is `RefinesChannel`): out of the prover's reach, with `ENABLED`;
* `ShowsWhatIsAsked` and `ArgumentsArrive`: what the recursive definitions of
  `Protobuf`, `GraphSchema` and `OrbitFilter` compute for every input would need an
  induction theorem with an operator as its parameter, which the installed
  provers cannot instantiate. For the same reason that the encodings of
  `FileSchema` lose nothing is an assumption of `MetaArrivesHolds`; the run
  `file_transfer` shows it for its Metas. No module with theorems reaches a
  RECURSIVE operator.

## 6. Where the code and its texts disagree

* `encrypted_file_decrypts`: `receiveDecryptedFile` strips the padding only if the
  last block is shorter than a full one, but for sizes of 16368 to 16383 modulo
  16384 the padding fills the block: the file comes back with its padding.
  `RoundTrip` shows that this is the whole extent of the fault.
* `box_graph_created`: a subscription and a mutation that both open a collection
  get a database each, and the subscriber is never told of the document.
* `native_bridge_start`: the page calls `adaptor[data.func]`, the request and the
  type `RPCRequest` name the function in `function`: each call is answered as
  failed. The native side's listener says `return reject` and calls nothing, so
  `await fula.start()` never goes on.

Seen in the code and not the subject of a run, because no text of the
repository promises anything or nothing interleaves:

* *files*: an error of `ipfs.add` leaves the client waiting forever
  (`UploadSettles` excludes it by name); an IPFS error while the manifest is read
  for the content is answered by `Response.EMPTY`, which the client takes for the
  content (`ReceivedIsSent` excludes it); sending a file in several blocks gives
  `save()` several values where its comment says one; a connection that closes
  cleanly cuts a received file short.
* *connections and graph*: the timers of `FulaConnection` outlive `stop()`;
  `start()` on a connected object says `Connecting`; concurrent updates of a document
  are lost; listeners of a subscription are never removed, and one whose filter
  throws ends the box.
* *box*: a box that is killed while it writes its first identity never starts
  again, for what is on the disk does not parse; a list of databases that
  reaches it before its own question has been sent finds `options` unset and ends
  it; a client that loses its connection while it asks for a file may end it, by
  the loop of `partition()`.
* *hooks, bridge*: overlapping requests leave the older answer if it comes later;
  a chunk that comes while nobody reads is dropped; `connect()` over the bridge never
  settles, though the client in the page has connected; a received file whose
  chunks are not multiples of three bytes, three by three, has padding inside its
  base64.
* *firmware*: when two chains run the same commands, one's callback is called
  while its own command is still under way; `dhcpd` is restarted where the unit is
  `dhcpcd`; a body that does not parse is counted as a request for ever; the last
  response after a SIGINT is not sent; two posts of properties that overlap leave
  a mixture in the file.
* *applications*: overlapping loads of the gallery add photos twice; a password
  that is changed while it is being signed makes an identity that nobody can
  make again; a document that is written before it is watched, or updated twice
  at once, may be shown in an older version.

## 7. What is not modelled

* External code is modelled by how the code uses it, and marked external in the
  map: libp2p (streams that end, reset or are lost; connection events), IPFS (an
  add or a cat that works or throws; pubsub that loses and reorders), OrbitDB
  (documents, events, replication as a write that arrives), aes-js (padding and
  what CBC depends on), graphql's parser and executor, systemd and wpa_supplicant
  (`Effect`), `fs.writeFile` (an opening that truncates, then the data).
* How scalars are packed into bytes and CBOR are left out; a byte string of a
  message is its fields with their numbers. Back-pressure does not exist in the
  code and queues are unbounded.
* `AccessPoint` joins the end of a command with its event: the delay of the
  journal is left out, so is `since`, which has a resolution of a second. A process
  of an earlier start that ends late, and wakes a chain of the present one, is in.
  `disconnect()` touches none of its state. `killall` is over when the supplicant is,
  where in the code it returns when the signal is sent. A device that loses power
  is covered by `Init`, which has every state of it, and is not a step.
* Two requests to `FirmwareServer` that finish in one turn of the microtask queue
  are not modelled; each counts down in a step of its own.
* In `Wallet` the DID of a signature is always made, in `DocSync` the database a
  subscription has is a choice and not followed.
* In `BoxGraph` filters are sets of documents; what filters select is in
  `OrbitFilter`, over documents that do not change; that a filter may throw is a
  choice at each query of a subscription. After a first query that threw, what the
  listeners left behind still send is not followed. An operation has one field;
  aliases and fragments are left out. In `OrbitFilter` an `in` with an object that
  is no list throws also where an operator before it, in the same condition, has
  already failed and the code would not come to it.
* In `BoxStart` the transports and the announced addresses are left out, and
  `graceful()`, which only the tests call; `readSubscribe` has no caller.
* `AsymEncryption` of `fula-sec` has no caller and no state. `values` and
  `concurrently` of async-later are loops of one line and `Promise.all`.
* `todo` is a `useLazyQuery()` and a `useSubscription()` and nothing else, the React
  Native screen one call of each kind over the bridge: `QueryHooks` and
  `NativeBridge` are about these. Of the gallery's other applications the uploads
  are in, their own pages are not.
* The deployment files, the signal server's configuration and the generated
  scripts of the build tool are no part of the program.

## 8. The plan

The parts were written in the order of their importance: transport (`Channels`,
`IterateLater`, `Partition`), files (`FileUpload`, `FileRetrieve`,
`EncryptedFile`), `FulaConnection`, the graph (`BoxGraph`), the wifi service; then
messages and the transfer of a file as a whole (`Protobuf`, `FileTransfer`),
queries (`OrbitFilter`, `GraphCall`, `QueryHooks`), the bridge, the start of the
box, the firmware's server, the applications.

What is left:

1. The announced databases and the subscription of `BoxGraph` in one model: a
   collection that is learnt from another box while it is being subscribed to.
2. Two components on one client: `QueryHooks` over `FulaConnection`, with the
   provider's choice of a client.
