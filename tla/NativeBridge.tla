---------------------------- MODULE NativeBridge ----------------------------
(***************************************************************************)
(* rn-fula: a React Native application calls the Fula client of a page in  *)
(* a WebView.  Requests, answers and the chunks of files are messages that *)
(* go both ways in order; an event emitter on either side hands a message  *)
(* to who listens for it at that moment, and drops it when nobody does.    *)
(*                                                                         *)
(* Either side runs a message, with the promises it settles, to the end    *)
(* before it takes the next.  The Fula client in the page is external: it  *)
(* answers or fails when it likes.                                         *)
(***************************************************************************)
EXTENDS Naturals, Sequences

CONSTANTS
  Call,    \* the calls of the application
  Field,   \* where the page looks for the function of a request
  Content, \* the length of a file that is sent, in base64, and
  Amount,  \* of the chunks it is read in, both in groups of four characters
  Stored   \* the chunks of a file that is received, numbered from 1

ASSUME BridgeAssumption ==
  Content \in Nat /\ Amount \in Nat \ {0} /\ Stored \in Nat

Kind == {"start", "connect", "meta", "send", "receive"}  \* "meta": receiveMeta()

VARIABLES
  page,     \* the WebView: "absent", then "loading", then "ready"
  started,  \* in the page: has fulaClient been set?
  kind,     \* of each call
  native,   \* of each call: what its promise waits for
  web,      \* of each call: where the page is with it
  gen,      \* observableToAsyncGenerator() of an upload
  read,     \* of a download: the chunks that streamSend() has read,
  buffer,   \* and those of them it has not posted yet
  value,    \* what has come of a file: to the Fula client, or to the caller
  lost,     \* the chunks that came to nobody, and
  unheard,  \* the other messages that did (two history variables)
  toWeb, toNative

missing  == <<lost, unheard>>
channels == <<toWeb, toNative>>
vars     == <<page, started, kind, native, web, gen, read, buffer, value, missing, channels>>

Message(c, what, data) == [id |-> c, what |-> what, data |-> data]
Post(c, what, data)    == toNative' = Append(toNative, Message(c, what, data))
At(state, c, s)        == state' = [state EXCEPT ![c] = s]

(* Mutant: the next chunk is read from behind its first group. *)
ByteStartGap(i) == IF i = 1 THEN 0 ELSE (i - 1) * Amount + 1

(* byteStart of fileReader2() in the i-th turn of its loop: the byteEnd of the
   turn before.  slice() stops at the end of the content. *)
ByteStart(i) == (i - 1) * Amount

\* A chunk of a file that is sent is the set of its groups.
Slice(i) == {g \in 0 .. Content - 1 : ByteStart(i) <= g /\ g < i * Amount}

\* The loop ends when byteStart has reached the end of the content.
Slices == [i \in 1 .. (Content + Amount - 1) \div Amount |-> Slice(i)]

Init ==
  /\ page = "absent" /\ started = FALSE
  /\ kind \in [Call -> Kind]
  /\ native = [c \in Call |-> "idle"] /\ web = [c \in Call |-> "none"]
  /\ gen = [c \in Call |-> [at |-> "unstarted", finished |-> FALSE]]
  /\ read = [c \in Call |-> 0] /\ buffer = [c \in Call |-> <<>>] /\ value = [c \in Call |-> <<>>]
  /\ lost = [c \in Call |-> {}] /\ unheard = [c \in Call |-> {}]
  /\ toWeb = <<>> /\ toNative = <<>>

-----------------------------------------------------------------------------
(* The native side. *)

\* The WebView mounts; its page loads and listens.
PageNext ==
  /\ \/ page = "absent" /\ page' = "loading"
     \/ page = "loading" /\ page' = "ready"
  /\ UNCHANGED <<started, kind, native, web, gen, read, buffer, value, missing, channels>>

(* Only an upload posts more than its request; it reads a file that is in
   memory by then, and listens for the answer when it has posted all of it. *)
Posts(c) ==
  <<Message(c, "request", "function")>> \o
  IF kind[c] # "send" THEN <<>>
  ELSE <<Message(c, "START", {})>> \o [i \in DOMAIN Slices |-> Message(c, "CHUNK", Slices[i])]
       \o <<Message(c, "END", {})>>

(* RPC(), RPCStreamArgs() and RPCStreamResponse().  Without a WebView they
   reject; a page that does not listen yet misses what is posted. *)
CallOut(c) ==
  /\ native[c] = "idle"
  /\ At(native, c, IF page = "absent" THEN "rejected"
                   ELSE IF kind[c] = "receive" THEN "callback" ELSE "answer")
  /\ toWeb' = IF page = "ready" THEN toWeb \o Posts(c) ELSE toWeb
  /\ unheard' = [unheard EXCEPT ![c] = IF page = "loading" THEN {"request"} ELSE {}]
  /\ UNCHANGED <<page, started, kind, web, gen, read, buffer, value, lost, toNative>>

(* Mutant: an answer settles whatever call listens for one. *)
NativeResponseAny(m) ==
  /\ m.what \in {"done", "failed"}
  /\ native' = [c \in Call |-> IF native[c] # "answer" THEN native[c]
                               ELSE IF m.what = "done" THEN "resolved" ELSE "dropped"]
  /\ UNCHANGED value

(* emitter.emit(response.id): `return reject` takes the listener away and
   settles nothing; a call that listens for a stream hears nothing. *)
NativeResponse(m) ==
  /\ m.what \in {"done", "failed"}
  /\ IF native[m.id] = "answer"
       THEN At(native, m.id, IF m.what = "done" THEN "resolved" ELSE "dropped")
       ELSE UNCHANGED native
  /\ UNCHANGED value

(* _streamListener(): receiveFile() subscribes before the next message. *)
NativeStream(m) ==
  \/ /\ m.what = "START" /\ native[m.id] = "callback"
     /\ At(native, m.id, "receiving") /\ UNCHANGED value
  \/ /\ m.what = "CHUNK" /\ native[m.id] = "receiving"
     /\ value' = [value EXCEPT ![m.id] = Append(@, m.data)] /\ UNCHANGED native
  \/ /\ m.what = "END" /\ native[m.id] = "receiving"
     /\ At(native, m.id, "resolved") /\ UNCHANGED value

NativeMessage ==
  /\ toNative # <<>>
  /\ NativeResponse(Head(toNative)) \/ NativeStream(Head(toNative))
  /\ toNative' = Tail(toNative)
  /\ UNCHANGED <<page, started, kind, web, gen, read, buffer, missing, toWeb>>

-----------------------------------------------------------------------------
(* The page. *)

Fails(c) == At(web, c, "failed") /\ Post(c, "failed", {})

(* adaptor[data.func](data): whatever it throws becomes a failed answer. *)
WebRequest(m) ==
  /\ m.what = "request"
  /\ LET k == kind[m.id]
     IN  IF m.data # Field \/ (k \in {"connect", "meta", "receive"} /\ ~started) THEN Fails(m.id)
         ELSE At(web, m.id, CASE k = "start" -> "starting" [] k \in {"connect", "meta"} -> "asking"
                              [] k = "send" -> "waiting" [] k = "receive" -> "retrieving")
              /\ UNCHANGED toNative
  /\ UNCHANGED <<gen, value, missing>>

(* The START of an upload wakes sendFile(), which calls the Fula client. *)
WebStart(m) ==
  /\ m.what = "START"
  /\ IF web[m.id] = "waiting"
       THEN IF started THEN At(web, m.id, "opening") /\ UNCHANGED toNative ELSE Fails(m.id)
       ELSE UNCHANGED <<web, toNative>>
  /\ UNCHANGED <<gen, value, missing>>

(* next() resolves the deferred and puts a new one in its place: the value is
   for who awaits the old one, and for nobody else. *)
WebChunk(m) ==
  /\ m.what = "CHUNK"
  /\ IF gen[m.id].at = "awaiting"
       THEN /\ gen' = [gen EXCEPT ![m.id].at = "yielded"]
            /\ value' = [value EXCEPT ![m.id] = Append(@, m.data)]
            /\ UNCHANGED lost
       ELSE /\ lost' = [lost EXCEPT ![m.id] = @ \cup {m.data}]
            /\ UNCHANGED <<gen, value>>
  /\ UNCHANGED <<web, unheard, toNative>>

(* Mutant: complete() is not remembered. *)
WebEndForgotten(m) ==
  /\ m.what = "END"
  /\ gen' = [gen EXCEPT ![m.id] =
               IF @.at = "awaiting" THEN [at |-> "ended", finished |-> TRUE] ELSE @]
  /\ unheard' = [unheard EXCEPT ![m.id] = @ \cup IF gen[m.id].at = "unstarted" THEN {"END"} ELSE {}]
  /\ UNCHANGED <<web, value, lost, toNative>>

(* complete() wakes who awaits, and is remembered for who comes back later;
   before the subscription it is lost. *)
WebEnd(m) ==
  /\ m.what = "END"
  /\ gen' = [gen EXCEPT ![m.id] =
               CASE @.at = "awaiting"  -> [at |-> "ended", finished |-> TRUE]
                 [] @.at = "unstarted" -> @
                 [] OTHER              -> [@ EXCEPT !.finished = TRUE]]
  /\ unheard' = [unheard EXCEPT ![m.id] = @ \cup IF gen[m.id].at = "unstarted" THEN {"END"} ELSE {}]
  /\ UNCHANGED <<web, value, lost, toNative>>

WebMessage ==
  /\ toWeb # <<>>
  /\ WebRequest(Head(toWeb)) \/ WebStart(Head(toWeb)) \/ WebChunk(Head(toWeb)) \/ WebEnd(Head(toWeb))
  /\ toWeb' = Tail(toWeb)
  /\ UNCHANGED <<page, started, kind, native, read, buffer>>

\* createClient() and receiveMeta() have answered.
Answered(c) ==
  /\ web[c] \in {"starting", "asking"} /\ kind[c] # "connect"
  /\ started' = (started \/ web[c] = "starting")
  /\ At(web, c, "done") /\ Post(c, "done", {})
  /\ UNCHANGED <<page, kind, native, gen, read, buffer, value, missing, toWeb>>

(* connect() has answered: with the FulaConnection, which holds the node, which
   holds itself, so JSON.stringify() throws in postOnSuccess() and the handler
   answers that it has failed. *)
Connected(c) ==
  /\ web[c] = "asking" /\ kind[c] = "connect"
  /\ At(web, c, "connected") /\ Post(c, "failed", {})
  /\ UNCHANGED <<page, started, kind, native, gen, read, buffer, value, missing, toWeb>>

(* An upload: the Fula client has a stream and reads the generator, the first
   time or again.  Its first read subscribes. *)
Pull(c) ==
  /\ \/ web[c] = "opening" /\ At(web, c, "uploading")
        /\ gen' = [gen EXCEPT ![c].at = "awaiting"]
     \/ web[c] = "uploading" /\ gen[c].at = "yielded" /\ UNCHANGED web
        /\ gen' = [gen EXCEPT ![c].at = IF gen[c].finished THEN "ended" ELSE "awaiting"]
  /\ UNCHANGED <<page, started, kind, native, read, buffer, value, missing, channels>>

Uploaded(c) ==
  /\ web[c] = "uploading" /\ gen[c].at = "ended"
  /\ At(web, c, "done") /\ Post(c, "done", {})
  /\ UNCHANGED <<page, started, kind, native, gen, read, buffer, value, missing, toWeb>>

(* A download: receiveStreamFile() has the Meta, streamSend() begins. *)
Retrieved(c) ==
  /\ web[c] = "retrieving"
  /\ At(web, c, "streaming") /\ Post(c, "START", {})
  /\ UNCHANGED <<page, started, kind, native, gen, read, buffer, value, missing, toWeb>>

(* Chunks to a message. *)
Batch == 3

(* Mutant: the chunk that finds the buffer full is not kept. *)
ReadChunkDrops(c) ==
  /\ web[c] = "streaming" /\ read[c] < Stored
  /\ read' = [read EXCEPT ![c] = @ + 1]
  /\ IF Len(buffer[c]) < Batch
       THEN buffer' = [buffer EXCEPT ![c] = Append(@, read'[c])] /\ UNCHANGED toNative
       ELSE buffer' = [buffer EXCEPT ![c] = <<>>] /\ Post(c, "CHUNK", buffer[c])
  /\ UNCHANGED <<page, started, kind, native, web, gen, value, missing, toWeb>>

(* One turn of the loop of streamSend(). *)
ReadChunk(c) ==
  /\ web[c] = "streaming" /\ read[c] < Stored
  /\ read' = [read EXCEPT ![c] = @ + 1]
  /\ IF Len(buffer[c]) < Batch
       THEN buffer' = [buffer EXCEPT ![c] = Append(@, read'[c])] /\ UNCHANGED toNative
       ELSE buffer' = [buffer EXCEPT ![c] = <<read'[c]>>] /\ Post(c, "CHUNK", buffer[c])
  /\ UNCHANGED <<page, started, kind, native, web, gen, value, missing, toWeb>>

ReadEnd(c) ==
  /\ web[c] = "streaming" /\ read[c] = Stored
  /\ At(web, c, "done")
  /\ toNative' = toNative
       \o (IF buffer[c] = <<>> THEN <<>> ELSE <<Message(c, "CHUNK", buffer[c])>>)
       \o <<Message(c, "END", {})>>
  /\ UNCHANGED <<page, started, kind, native, gen, read, buffer, value, missing, toWeb>>

(* The Fula client rejects: the handler answers that it has failed. *)
ClientFails(c) ==
  /\ web[c] \in {"starting", "asking", "opening", "uploading", "retrieving"}
  /\ Fails(c)
  /\ gen' = [gen EXCEPT ![c].at = IF @ = "unstarted" THEN @ ELSE "ended"]
  /\ UNCHANGED <<page, started, kind, native, read, buffer, value, missing, toWeb>>

(* The content breaks off: the promise of streamSend() never settles. *)
ContentFails(c) ==
  /\ web[c] = "streaming"
  /\ At(web, c, "stuck")
  /\ UNCHANGED <<page, started, kind, native, gen, read, buffer, value, missing, channels>>

WebStep == \E c \in Call : Answered(c) \/ Connected(c) \/ Pull(c) \/ Uploaded(c)
                           \/ Retrieved(c) \/ ReadChunk(c) \/ ReadEnd(c)

-----------------------------------------------------------------------------
Next ==
  \/ PageNext
  \/ \E c \in Call : CallOut(c)
  \/ NativeMessage \/ WebMessage \/ WebStep
  \/ \E c \in Call : ClientFails(c) \/ ContentFails(c)

(* Messages are taken and the Fula client goes on; it need not fail. *)
Spec == /\ Init /\ [][Next]_vars
        /\ WF_vars(NativeMessage) /\ WF_vars(WebMessage)
        /\ \A c \in Call : WF_vars(Answered(c) \/ Connected(c) \/ Pull(c) \/ Uploaded(c)
                                     \/ Retrieved(c) \/ ReadChunk(c) \/ ReadEnd(c))

-----------------------------------------------------------------------------
Settled(c) == native[c] \in {"resolved", "rejected"}

(* Every variable keeps its type, and a call resolves only by what the page has
   finished for that very call. *)
TypeOK ==
  /\ page \in {"absent", "loading", "ready"} /\ started \in BOOLEAN
  /\ kind \in [Call -> Kind]
  /\ \A c \in Call :
       /\ native[c] \in {"idle", "answer", "callback", "receiving", "resolved", "rejected", "dropped"}
       /\ web[c] \in {"none", "starting", "asking", "waiting", "opening", "uploading",
                      "retrieving", "streaming", "done", "connected", "failed", "stuck"}
       /\ gen[c].at \in {"unstarted", "awaiting", "yielded", "ended"}
       /\ read[c] \in 0 .. Stored /\ Len(buffer[c]) <= 3
       /\ native[c] = "resolved" => web[c] = "done"

Elements(s) == {s[i] : i \in DOMAIN s}

\* Everything in an earlier piece comes before everything in a later one.
InOrder(pieces) ==
  \A i, j \in DOMAIN pieces : i < j => \A g \in pieces[i], h \in pieces[j] : g < h

(* What a caller gets for an upload is the id of its own file, less exactly
   the chunks that came while the Fula client was not reading: none is sent
   twice, out of order, or into the file of another call. *)
UploadedUnlessLate ==
  \A c \in Call : kind[c] = "send" /\ native[c] = "resolved" =>
    /\ InOrder(value[c])
    /\ Elements(value[c]) \cap lost[c] = {}
    /\ UNION (Elements(value[c]) \cup lost[c]) = 0 .. Content - 1

(* A file that is received is all of its chunks, once each and in their order,
   and every piece but the last ends with a third chunk.  Of base64 this says
   only where padding may come to stand inside: at each third chunk up to which
   the bytes of the file are no multiple of three.  The box reads its chunks
   from IPFS and nothing gives them such a size. *)
ReceivedIsStored ==
  \A c \in Call : kind[c] = "receive" /\ native[c] = "resolved" =>
    /\ InOrder([i \in DOMAIN value[c] |-> Elements(value[c][i])])
    /\ \A i \in DOMAIN value[c] : \A j, k \in DOMAIN value[c][i] :
         j < k => value[c][i][j] < value[c][i][k]
    /\ UNION {Elements(value[c][i]) : i \in DOMAIN value[c]} = 1 .. Stored
    /\ \A i \in 1 .. Len(value[c]) - 1 : value[c][i][Len(value[c][i])] % 3 = 0

\* Nothing will ever settle the call: its answer was a failure, that of a
\* connect() that succeeded too; its content broke off; its request, or the end
\* of its upload, came when nobody listened.
Hangs(c) == web[c] \in {"connected", "failed", "stuck"} \/ unheard[c] # {}

(* A call settles, or it hangs for one of the reasons named above, among them
   every failed answer; and one that hangs is not rejected either. *)
SettlesUnlessLost ==
  \A c \in Call : /\ native[c] # "idle" ~> Settled(c) \/ Hangs(c)
                  /\ [](Hangs(c) => ~Settled(c))

(* "await fula.start()" goes on, if the page listens. *)
StartSettles ==
  \A c \in Call :
    kind[c] = "start" /\ native[c] # "idle" /\ unheard[c] = {} ~> Settled(c)
=============================================================================
