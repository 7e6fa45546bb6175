----------------------------- MODULE FileUpload -----------------------------
(***************************************************************************)
(* One upload over the file protocol, from the client's sendFile() or      *)
(* streamFile() to the id it gets back:                                    *)
(*                                                                         *)
(*   client  --source-->  partition  --first-->  handler                   *)
(*                            |                                            *)
(*                         second --> save --content--> ipfs.add           *)
(*                                                         |               *)
(*   client  <--reply--  handler  <----- declareId --------+               *)
(*                                                                         *)
(* Every arrow is a Channel.  The frames of the file are numbered: frame 0 *)
(* is the Request, frame i the i-th chunk of the file.  IPFS is content    *)
(* addressed, so an id is the content its manifest points to.              *)
(*                                                                         *)
(* JavaScript runs from one await to the next without interruption, so an  *)
(* action is such a stretch of one of the asynchronous functions.          *)
(***************************************************************************)
EXTENDS Channels

CONSTANT N  \* chunks of the file

ASSUME NAssumption == N \in Nat

VARIABLES
  sent,       \* client: frames its generator has yielded
  client,     \* client: the promise of sendFile()
  stream,     \* the libp2p stream, "dead" once reset or its connection is lost
  source,     \* frames from the client to the box
  reply,      \* ids from the box to the client
  current, first, second,  \* the partition() of the handler
  box,        \* the box's process
  subscribed, \* has registerFile() subscribed to incomingFiles?
  handler,    \* where the protocol handler is
  content,    \* the Subject of save(), as the iterable given to ipfs.add
  adder,      \* the box's subscriber of incomingFiles
  stored      \* in IPFS: file contents, and manifests by the content they name

boxVars == <<box, subscribed, handler, content, adder, stored>>
halves  == <<current, first, second>>
vars    == <<sent, client, stream, source, reply, halves, boxVars>>

Frame == 0 .. N
Chunk == 1 .. N

Partition == INSTANCE Partition WITH Value <- Frame, Index <- 1

Init ==
  /\ sent = 0 /\ client = "waiting" /\ stream = "open"
  /\ source = NewChannel /\ reply = NewChannel
  /\ Partition!Init
  /\ box = "up" /\ subscribed = FALSE /\ handler = "head"
  /\ content = NewChannel /\ adder = "none"
  /\ stored = [contents |-> {}, manifests |-> {}]

-----------------------------------------------------------------------------
(* The client. *)

(* The stream pulls the next frame out of streamSendFile(): the Request, then
   the chunks.  The generator returns after the last one, which closes the
   stream for writing. *)
ClientYield ==
  /\ stream = "open" /\ source.status = "open"
  /\ IF sent <= N
       THEN source' = Send(source, sent) /\ sent' = sent + 1
       ELSE source' = Close(source) /\ sent' = sent
  /\ UNCHANGED <<client, stream, reply, halves, boxVars>>

(* Reading the file (or the source of streamFile) fails: the generator throws
   and the stream is reset. *)
ClientReset ==
  /\ stream = "open" /\ source.status = "open" /\ sent > 0
  /\ stream' = "dead"
  /\ source' = Fail(source)
  /\ reply' = Fail(reply)
  /\ UNCHANGED <<sent, client, halves, boxVars>>

(* The loop over the reply: it keeps the last message. *)
ClientMessage ==
  /\ CanReceive(reply)
  /\ reply' = Receive(reply)
  /\ UNCHANGED <<sent, client, stream, source, halves, boxVars>>

ClientSettle ==
  /\ \/ /\ CanEnd(reply)
        /\ reply' = End(reply)
        /\ client' = IF reply.out = <<>> THEN "rejected" ELSE "resolved"
     \/ /\ CanRaise(reply)
        /\ reply' = Raise(reply)
        /\ client' = "rejected"
  /\ UNCHANGED <<sent, stream, source, halves, boxVars>>

Client == ClientYield \/ ClientMessage \/ ClientSettle

(* The connection is lost.  What was under way is lost from some frame on;
   either side may see a clean end of its stream or an error. *)
LoseConnection ==
  /\ stream = "open"
  /\ stream' = "dead"
  /\ \E k \in 0 .. Len(source.buf), how \in {"closed", "failed"} :
       source' = IF source.reader = "reading" THEN Cut(source, k, how) ELSE source
  /\ \E k \in 0 .. Len(reply.buf), how \in {"closed", "failed"} :
       reply' = IF reply.reader = "reading" THEN Cut(reply, k, how) ELSE reply
  /\ UNCHANGED <<sent, client, halves, boxVars>>

-----------------------------------------------------------------------------
(* The box: the loop of partition(). *)

(* iterate() is not awaited: its rejection is unhandled and ends the process. *)
PartitionLoop ==
  /\ box = "up"
  /\ \/ (Partition!Iterate \/ Partition!IterateEnd) /\ UNCHANGED box
     \/ Partition!IterateError /\ box' = "crashed"
  /\ UNCHANGED <<sent, client, stream, reply, subscribed, handler, content, adder, stored>>

(* The handler's own promise is in the hands of libp2p: its rejection may be
   handled there or end the process. *)
HandlerRejects ==
  /\ handler' = "rejected"
  /\ box' \in {"up", "crashed"}

(* handle() awaits before the subscription of line 31 is made. *)
RegisterFile ==
  /\ box = "up" /\ ~subscribed
  /\ subscribed' = TRUE
  /\ UNCHANGED <<sent, client, stream, source, reply, halves, box, handler, content, adder, stored>>

(* Mutant: an offer without a subscriber makes save() throw. *)
HandlerDispatchThrows ==
  /\ box = "up" /\ handler = "head" /\ CanReceive(first)
  /\ first' = Leave(Receive(first))
  /\ IF subscribed
       THEN handler' = "saving" /\ adder' = "adding" /\ UNCHANGED box
       ELSE HandlerRejects /\ UNCHANGED adder
  /\ UNCHANGED <<sent, client, stream, source, reply, current, second,
                 subscribed, content, stored>>

(* firstValue() has the Request: save() offers the file to the subscriber,
   which asks for its content in the same stretch.  With no subscriber the
   Subject drops the offer. *)
HandlerDispatch ==
  /\ box = "up" /\ handler = "head" /\ CanReceive(first)
  /\ first' = Leave(Receive(first))
  /\ handler' = "saving"
  /\ adder' = IF subscribed THEN "adding" ELSE "none"
  /\ UNCHANGED <<sent, client, stream, source, reply, current, second,
                 box, subscribed, content, stored>>

(* firstValue() of an empty stream throws. *)
HandlerNoRequest ==
  /\ box = "up" /\ handler = "head" /\ CanEnd(first)
  /\ first' = End(first)
  /\ HandlerRejects
  /\ UNCHANGED <<sent, client, stream, source, reply, current, second,
                 subscribed, content, adder, stored>>

(* Has getContent() been called, that is, does content have an observer? *)
Observed == adder # "none"

(* Mutant: a message that comes before the last one was read is lost. *)
SaveMessageLosing ==
  /\ box = "up" /\ handler = "saving" /\ CanReceive(second)
  /\ second' = Receive(second)
  /\ content' = IF Observed /\ content.buf = <<>> THEN Send(content, Head(second.buf)) ELSE content
  /\ UNCHANGED <<sent, client, stream, source, reply, current, first,
                 box, subscribed, handler, adder, stored>>

SaveMessage ==
  /\ box = "up" /\ handler = "saving" /\ CanReceive(second)
  /\ second' = Receive(second)
  /\ content' = IF Observed THEN Send(content, Head(second.buf)) ELSE content
  /\ UNCHANGED <<sent, client, stream, source, reply, current, first,
                 box, subscribed, handler, adder, stored>>

(* Mutant: the pipeline of lines 23-27 is not awaited. *)
SaveCompleteEarly ==
  /\ box = "up" /\ handler = "saving"
  /\ content' = IF Observed THEN Close(content) ELSE content
  /\ handler' = "awaitingId"
  /\ UNCHANGED <<sent, client, stream, source, reply, current, first, second,
                 box, subscribed, adder, stored>>

SaveComplete ==
  /\ box = "up" /\ handler = "saving" /\ CanEnd(second)
  /\ second' = End(second)
  /\ content' = IF Observed THEN Close(content) ELSE content
  /\ handler' = "awaitingId"
  /\ UNCHANGED <<sent, client, stream, source, reply, current, first,
                 box, subscribed, adder, stored>>

(* The id goes back, then the stream is closed.  Writing to a dead stream
   throws, or the message is discarded. *)
Respond ==
  /\ box = "up" /\ handler = "awaitingId" /\ adder = "declared"
  /\ \/ stream = "open" /\ reply' = Send(reply, content.out) /\ handler' = "closing" /\ UNCHANGED box
     \/ stream = "dead" /\ UNCHANGED reply /\ handler' = "closing" /\ UNCHANGED box
     \/ stream = "dead" /\ UNCHANGED reply /\ HandlerRejects
  /\ UNCHANGED <<sent, client, stream, source, halves, subscribed, content, adder, stored>>

(* Mutant: line 33 of the handler is missing. *)
CloseStreamNot ==
  /\ box = "up" /\ handler = "closing"
  /\ handler' = "done"
  /\ UNCHANGED <<sent, client, stream, source, halves, reply,
                 box, subscribed, content, adder, stored>>

CloseStream ==
  /\ box = "up" /\ handler = "closing"
  /\ \/ stream = "open" /\ reply' = Close(reply) /\ handler' = "done" /\ UNCHANGED box
     \/ stream = "dead" /\ UNCHANGED reply /\ handler' = "done" /\ UNCHANGED box
     \/ stream = "dead" /\ UNCHANGED reply /\ HandlerRejects
  /\ UNCHANGED <<sent, client, stream, source, halves, subscribed, content, adder, stored>>

Handler == HandlerDispatch \/ HandlerNoRequest \/ SaveMessage \/ SaveComplete
             \/ Respond \/ CloseStream

-----------------------------------------------------------------------------
(* The box's subscriber and the IPFS node it calls. *)

AddPull ==
  /\ box = "up" /\ adder = "adding" /\ CanReceive(content)
  /\ content' = Receive(content)
  /\ UNCHANGED <<sent, client, stream, source, reply, halves,
                 box, subscribed, handler, adder, stored>>

AddContent ==
  /\ box = "up" /\ adder = "adding" /\ CanEnd(content)
  /\ content' = End(content)
  /\ stored' = [contents |-> stored.contents \cup {content.out}, manifests |-> stored.manifests]
  /\ adder' = "addingManifest"
  /\ UNCHANGED <<sent, client, stream, source, reply, halves, box, subscribed, handler>>

AddManifest ==
  /\ box = "up" /\ adder = "addingManifest"
  /\ stored' = [contents |-> stored.contents, manifests |-> stored.manifests \cup {content.out}]
  /\ adder' = "declared"
  /\ UNCHANGED <<sent, client, stream, source, reply, halves, box, subscribed, handler, content>>

(* Either add rejects: the error is logged and the id never declared. *)
AddFails ==
  /\ box = "up" /\ adder \in {"adding", "addingManifest"}
  /\ content' = IF adder = "adding" THEN Leave(content) ELSE content
  /\ adder' = "failed"
  /\ UNCHANGED <<sent, client, stream, source, reply, halves, box, subscribed, handler, stored>>

Adder == AddPull \/ AddContent \/ AddManifest

(* The box loses power: what IPFS has stored stays. *)
PowerLoss ==
  /\ box = "up"
  /\ box' = "off"
  /\ UNCHANGED <<sent, client, stream, source, reply, halves,
                 subscribed, handler, content, adder, stored>>

-----------------------------------------------------------------------------
Next ==
  \/ Client \/ ClientReset \/ LoseConnection
  \/ RegisterFile \/ PartitionLoop \/ Handler
  \/ Adder \/ AddFails \/ PowerLoss

SafeSpec == Init /\ [][Next]_vars

(* Running code is not put off forever.  Nothing is assumed of failures, and
   nothing makes the transport notice a box that has gone. *)
Spec ==
  /\ SafeSpec
  /\ WF_vars(Client) /\ WF_vars(RegisterFile) /\ WF_vars(PartitionLoop)
  /\ WF_vars(Handler) /\ WF_vars(Adder)

-----------------------------------------------------------------------------
(* Every variable keeps its type. *)
TypeOK ==
  /\ sent \in 0 .. N + 1
  /\ client \in {"waiting", "resolved", "rejected"}
  /\ stream \in {"open", "dead"}
  /\ source \in Channel(Frame) /\ first \in Channel(Frame) /\ second \in Channel(Frame)
  /\ current \in Nat
  /\ content \in Channel(Frame)
  /\ reply \in Channel(Seq(Frame))
  /\ box \in {"up", "crashed", "off"}
  /\ subscribed \in BOOLEAN
  /\ handler \in {"head", "saving", "awaitingId", "closing", "done", "rejected"}
  /\ adder \in {"none", "adding", "addingManifest", "declared", "failed"}
  /\ stored \in [contents : SUBSET Seq(Frame), manifests : SUBSET Seq(Frame)]

(* The file the client sends, chunk by chunk. *)
File == [i \in Chunk |-> i]

(* The id sendFile() resolves to: the last message of the reply. *)
Id == reply.out[Len(reply.out)]

(* An id the client gets denotes its whole file: chunks neither missing nor
   out of order, content and manifest both stored, even when the connection is
   lost, or the box loses power, at the worst moment. *)
IdDenotesFile ==
  client = "resolved" => /\ Id = File
                         /\ Id \in stored.contents
                         /\ Id \in stored.manifests

(* What IPFS stores of an upload, if only part of it, is a prefix of the file:
   the Request never ends up in the content. *)
StoresPrefixes ==
  \A c \in stored.contents \cup stored.manifests :
    Len(c) <= N /\ \A i \in 1 .. Len(c) : c[i] = i

(* The offer found no subscriber (see RegisterFile). *)
OfferLost == handler # "head" /\ adder = "none"

(* The promise of sendFile() settles, unless IPFS failed, the box is gone or
   the offer was made before anybody was subscribed. *)
UploadSettles ==
  <>(client # "waiting" \/ adder = "failed" \/ box # "up" \/ OfferLost)
=============================================================================
