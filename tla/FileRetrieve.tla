---------------------------- MODULE FileRetrieve ----------------------------
(***************************************************************************)
(* receiveFile(id) of the client: a first stream asks the box for the meta *)
(* of the file, then a second one for its content.  The box looks the      *)
(* manifest up in IPFS on each of them; an error there makes the retrieval *)
(* method return undefined, and the handler answers Response.EMPTY.        *)
(*                                                                         *)
(* How a Request reaches the handler is in FileUpload; here a stream       *)
(* starts with its Request at the handler.                                 *)
(***************************************************************************)
EXTENDS Channels

CONSTANT N  \* chunks of the file in IPFS

VARIABLES
  client,     \* the client: awaiting "meta", then "content", then settled
  connected,
  box,        \* the box's process
  registered, \* has registerFile() set the retrieval methods?
  handler,    \* for each stream: where its handler is
  reply,      \* for each stream: the messages from the box
  read,       \* chunks ipfsNode.cat() has given
  failed      \* what ipfsNode.cat() has failed to read

vars == <<client, connected, box, registered, handler, reply, read, failed>>

Stream == {"meta", "content"}

(* The messages: the chunks by number, Response.EMPTY, an encoded Meta. *)
Empty == 0
Meta  == N + 1
Message == 0 .. N + 1

Init ==
  /\ client = "meta" /\ connected = TRUE
  /\ box = "up" /\ registered = FALSE
  /\ handler = [s \in Stream |-> IF s = "meta" THEN "requested" ELSE "closed"]
  /\ reply = [s \in Stream |-> NewChannel]
  /\ read = 0 /\ failed = {}

-----------------------------------------------------------------------------
(* The client. *)

(* receiveMeta(): every message is decoded as a Meta, EMPTY does not decode. *)
MetaMessage ==
  /\ client = "meta" /\ CanReceive(reply["meta"])
  /\ IF Head(reply["meta"].buf) = Empty
       THEN /\ client' = "rejected"
            /\ reply' = [reply EXCEPT !["meta"] = Leave(Receive(@))]
       ELSE /\ reply' = [reply EXCEPT !["meta"] = Receive(@)]
            /\ UNCHANGED client
  /\ UNCHANGED <<connected, box, registered, handler, read, failed>>

(* With the Meta there, the client opens the second stream; that may fail. *)
MetaEnd ==
  /\ client = "meta" /\ CanEnd(reply["meta"])
  /\ reply' = [reply EXCEPT !["meta"] = End(@)]
  /\ \/ /\ reply["meta"].out # <<>> /\ connected
        /\ client' = "content"
        /\ handler' = [handler EXCEPT !["content"] = "requested"]
     \/ client' = "rejected" /\ UNCHANGED handler
  /\ UNCHANGED <<connected, box, registered, read, failed>>

(* receiveFile() collects the chunks. *)
ContentMessage ==
  /\ client = "content" /\ CanReceive(reply["content"])
  /\ reply' = [reply EXCEPT !["content"] = Receive(@)]
  /\ UNCHANGED <<client, connected, box, registered, handler, read, failed>>

ContentEnd ==
  /\ client = "content" /\ CanEnd(reply["content"])
  /\ reply' = [reply EXCEPT !["content"] = End(@)]
  /\ client' = "resolved"
  /\ UNCHANGED <<connected, box, registered, handler, read, failed>>

StreamError ==
  /\ client \in Stream /\ CanRaise(reply[client])
  /\ reply' = [reply EXCEPT ![client] = Raise(@)]
  /\ client' = "rejected"
  /\ UNCHANGED <<connected, box, registered, handler, read, failed>>

Client == MetaMessage \/ MetaEnd \/ ContentMessage \/ ContentEnd \/ StreamError

(* The connection is lost: both streams end, cleanly or with an error, and lose
   what was under way from some message on.  An error ends the process of a box
   that has not yet seen the client end its side of a stream: the loop of
   partition() is still over it, and nobody handles its rejection. *)
LoseConnection ==
  /\ connected
  /\ connected' = FALSE
  /\ \E how \in {"closed", "failed"},
        k \in 0 .. Len(reply["meta"].buf), l \in 0 .. Len(reply["content"].buf) :
       /\ reply' = [meta    |-> Cut(reply["meta"], k, how),
                    content |-> Cut(reply["content"], l, how)]
       /\ box' = box \/ (how = "failed" /\ box = "up" /\ box' = "crashed")
  /\ UNCHANGED <<client, registered, handler, read, failed>>

-----------------------------------------------------------------------------
(* The box. *)

(* An await in handle() lets requests in before the methods are set. *)
RegisterFile ==
  /\ box = "up" /\ ~registered
  /\ registered' = TRUE
  /\ UNCHANGED <<client, connected, box, handler, reply, read, failed>>

(* The handler's promise is in the hands of libp2p: its rejection may be
   handled there or end the process.  The stream stays as it is. *)
HandlerRejects(s, pc) ==
  /\ handler' = [handler EXCEPT ![s] = pc]
  /\ box' \in {"up", "crashed"}

Goes(s, pc) == handler' = [handler EXCEPT ![s] = pc] /\ UNCHANGED box

(* The request is dispatched: the retrieval method is called, and throws when
   registerFile() has not set it yet. *)
Dispatch(s) ==
  /\ box = "up" /\ handler[s] = "requested"
  /\ IF registered THEN Goes(s, "retrieving") ELSE HandlerRejects(s, "unregistered")
  /\ UNCHANGED <<client, connected, registered, reply, read, failed>>

(* ipfsNode.cat() of the manifest; its error is logged and caught. *)
CatManifest(s) ==
  /\ box = "up" /\ handler[s] = "retrieving"
  /\ \/ Goes(s, "responding") /\ UNCHANGED failed
     \/ Goes(s, "empty") /\ failed' = failed \cup {s}
  /\ UNCHANGED <<client, connected, registered, reply, read>>

Write(s, message, pc) ==
  /\ box = "up" /\ connected
  /\ reply' = [reply EXCEPT ![s] = Send(@, message)]
  /\ Goes(s, pc)
  /\ UNCHANGED <<client, connected, registered, failed>>

RespondEmpty(s) ==
  /\ handler[s] = "empty"
  /\ Write(s, Empty, "closing") /\ UNCHANGED read

RespondMeta ==
  /\ handler["meta"] = "responding"
  /\ Write("meta", Meta, "closing") /\ UNCHANGED read

(* The stream pulls the chunks out of ipfsNode.cat(contentPath). *)
RespondChunk ==
  /\ handler["content"] = "responding" /\ read < N
  /\ Write("content", read + 1, "responding") /\ read' = read + 1

RespondEnd ==
  /\ box = "up" /\ connected
  /\ handler["content"] = "responding" /\ read = N
  /\ Goes("content", "closing")
  /\ UNCHANGED <<client, connected, registered, reply, read, failed>>

(* Mutant: an error of cat() closes the stream as if the content had ended. *)
CatContentFailsSilently ==
  /\ box = "up" /\ connected
  /\ handler["content"] = "responding"
  /\ failed' = failed \cup {"chunk"}
  /\ Goes("content", "closing")
  /\ UNCHANGED <<client, connected, registered, reply, read>>

(* Mutant: an error of cat() leaves the stream open. *)
CatContentFailsOpen ==
  /\ box = "up" /\ connected
  /\ handler["content"] = "responding"
  /\ failed' = failed \cup {"chunk"}
  /\ HandlerRejects("content", "rejected")
  /\ UNCHANGED <<client, connected, registered, reply, read>>

(* cat(contentPath) throws: the sink of the stream resets it. *)
CatContentFails ==
  /\ box = "up" /\ connected
  /\ handler["content"] = "responding"
  /\ failed' = failed \cup {"chunk"}
  /\ reply' = [reply EXCEPT !["content"] = Fail(@)]
  /\ HandlerRejects("content", "rejected")
  /\ UNCHANGED <<client, connected, registered, read>>

CloseStream(s) ==
  /\ box = "up" /\ connected /\ handler[s] = "closing"
  /\ reply' = [reply EXCEPT ![s] = Close(@)]
  /\ Goes(s, "done")
  /\ UNCHANGED <<client, connected, registered, read, failed>>

(* Writing to a stream that is gone throws, or is without effect. *)
WriteLost(s) ==
  /\ box = "up" /\ ~connected
  /\ handler[s] \in {"responding", "empty", "closing"}
  /\ Goes(s, "done") \/ HandlerRejects(s, "rejected")
  /\ UNCHANGED <<client, connected, registered, reply, read, failed>>

Handler ==
  \/ \E s \in Stream : \/ Dispatch(s) \/ CatManifest(s) \/ RespondEmpty(s)
                       \/ CloseStream(s) \/ WriteLost(s)
  \/ RespondMeta \/ RespondChunk \/ RespondEnd

-----------------------------------------------------------------------------
Next == Client \/ LoseConnection \/ RegisterFile \/ Handler \/ CatContentFails

SafeSpec == Init /\ [][Next]_vars

-----------------------------------------------------------------------------
(* Every variable keeps its type. *)
TypeOK ==
  /\ client \in Stream \cup {"resolved", "rejected"}
  /\ connected \in BOOLEAN /\ registered \in BOOLEAN
  /\ box \in {"up", "crashed", "off"}
  /\ handler \in [Stream -> {"closed", "requested", "retrieving", "responding",
                             "empty", "closing", "done", "rejected", "unregistered"}]
  /\ reply \in [Stream -> Channel(Message)]
  /\ read \in 0 .. N
  /\ failed \in SUBSET (Stream \cup {"chunk"})

File == [i \in 1 .. N |-> i]

(* The content of the File object receiveFile() builds. *)
Content == reply["content"].out

(* What the client has of the content at any moment is the beginning of the
   file, or EMPTY alone: never a mixture, a gap or chunks out of order. *)
ContentIsPrefix ==
  \/ Content = <<Empty>>
  \/ Len(Content) <= N /\ \A i \in 1 .. Len(Content) : Content[i] = i

(* A Meta and a File only come from a manifest that was read: a client whose
   meta request met an IPFS error never goes on to the content. *)
NoContentWithoutMeta == "meta" \in failed => handler["content"] = "closed"

(* Neither settled, nor left by a box that is gone or that was asked before it
   had registered. *)
Waiting ==
  client \in Stream /\ box = "up" /\ handler[client] # "unregistered"
=============================================================================
