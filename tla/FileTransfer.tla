---------------------------- MODULE FileTransfer ----------------------------
(***************************************************************************)
(* A file on its way to the box and back: the upload of FileUpload, then   *)
(* the retrieval of FileRetrieve by the id it has resolved to, against the *)
(* same process of the box.  Between them the box may lose power and be    *)
(* started again: it keeps what IPFS has stored, and nothing else.         *)
(*                                                                         *)
(* IPFS finds what it has stored, or fails: that the id is of something    *)
(* stored is what FileUpload says of it.                                   *)
(***************************************************************************)
EXTENDS FileUpload

CONSTANTS
  Metas,            \* what may be known of the file: its name, type, size, date, preview
  Cid,              \* the id of its content, or of its manifest
  RequestFor(_),    \* the messages of FileSchema: the Request with a Meta,
  ManifestOf(_, _), \* the manifest for a Request and the id of its content,
  AnswerTo(_)       \* what the box and the client decode from a manifest

VARIABLES
  meta,      \* of the file
  request,   \* the bytes of frame 0
  manifest,  \* the bytes of the manifest, once they are in IPFS
  found,     \* what the client and the box have of it in the second request
  restarted, \* has the box been started again since the upload?
  rclient, rconnected, rhandler, rreply, read, failed \* the retrieval

retrieval == <<rclient, rconnected, rhandler, rreply, read, failed>>
file      == <<meta, request, manifest>>
upload    == <<sent, client, stream, source, reply, halves, handler, content, adder, stored>>

R == INSTANCE FileRetrieve
       WITH client <- rclient, connected <- rconnected, registered <- subscribed,
            handler <- rhandler, reply <- rreply

TransferInit == /\ Init /\ R!Init /\ restarted = FALSE /\ meta \in Metas
                /\ request = RequestFor(meta) /\ manifest = <<>> /\ found = <<>>

\* The process that took the upload is still there, or its client waits for it.
Upload(A) ==
  /\ A /\ ~restarted
  /\ manifest' = IF AddManifest THEN ManifestOf(request, Cid) ELSE manifest
  /\ UNCHANGED <<meta, request, found, restarted, retrieval>>

\* receiveFile() is called with the id.
Retrieve(A) ==
  /\ A /\ client = "resolved"
  /\ found' = IF rclient = "meta" /\ rclient' = "content" THEN AnswerTo(manifest) ELSE found
  /\ UNCHANGED <<file, restarted, upload>>

(* The box is started again; its client calls only now. *)
Restart ==
  /\ client = "resolved" /\ rclient = "meta" /\ rhandler["meta"] = "requested"
  /\ box # "up" /\ ~restarted
  /\ box' = "up" /\ subscribed' = FALSE
  /\ restarted' = TRUE
  /\ UNCHANGED <<file, found, upload, retrieval>>

RegisterAgain == restarted /\ RegisterFile /\ UNCHANGED <<file, found, restarted, retrieval>>

TransferNext ==
  \/ Upload(Next)
  \/ Retrieve(R!Client) \/ Retrieve(R!LoseConnection)
  \/ Retrieve(R!Handler) \/ Retrieve(R!CatContentFails)
  \/ Restart \/ RegisterAgain

transferVars == <<vars, file, found, restarted, retrieval>>

TransferSafeSpec == TransferInit /\ [][TransferNext]_transferVars

(* As in the two modules; nothing makes anybody start the box again. *)
TransferSpec ==
  /\ TransferSafeSpec
  /\ WF_vars(Client /\ ~restarted) /\ WF_vars(PartitionLoop /\ ~restarted)
  /\ WF_vars(Handler /\ ~restarted) /\ WF_vars(Adder /\ ~restarted)
  /\ WF_vars(RegisterFile)
  /\ WF_(R!vars)(R!Client /\ client = "resolved")
  /\ WF_(R!vars)(R!Handler /\ client = "resolved")

-----------------------------------------------------------------------------
(* Either way, what passes through the box is never mixed up: of an upload, the
   halves of the handler's stream are the stream cut after the request, they
   end when no more can come to them, what IPFS stores is a prefix of the
   file, and an id the client gets denotes the whole; of a retrieval, the
   client has the beginning of the content or EMPTY alone, and a Meta and a
   File only from a manifest that was read. *)
TransferInv ==
  /\ TypeOK /\ R!TypeOK /\ restarted \in BOOLEAN
  /\ Partition!SplitsAtIndex
  /\ Partition!EndsAreTrue
  /\ StoresPrefixes /\ IdDenotesFile
  /\ R!ContentIsPrefix
  /\ R!NoContentWithoutMeta

(* A file that was received over a connection that held, when IPFS did not
   fail to find its manifest again, is the file that was sent and nothing
   less, whether or not the box lost power in between. *)
ReceivedIsSent ==
  rclient = "resolved" /\ rconnected /\ "content" \notin failed => R!Content = Id /\ Id = File

(* A client that goes on to the content was answered the name, the type, the
   size and the date that were sent, whichever of them are empty, and the box
   finds the content where it was put. *)
MetaArrives ==
  rclient \in {"content", "resolved"} =>
    /\ \A f \in {"name", "type", "size", "lastModified"} : found.meta[f] = meta[f]
    /\ found.path = Cid

(* A transfer ends the process of the box only by a stream that was lost or
   reset, by IPFS failing in the middle of the content, or by a request that
   came before the box, started again, had registered. *)
CrashHasCause ==
  box = "crashed" =>
    \/ stream = "dead" \/ ~rconnected \/ "chunk" \in failed
    \/ restarted /\ \E s \in R!Stream : rhandler[s] = "unregistered"

(* A retrieval that is made settles, unless the box is gone or was asked
   before it had registered: a lost connection, a manifest IPFS does not find
   and a cat() that fails in the middle of the content all reach the client. *)
RetrieveSettles == client = "resolved" ~> ~R!Waiting

-----------------------------------------------------------------------------
(* The transfer, seen as a store of one file. *)
Kept     == stored.contents \cap stored.manifests
Told     == IF client = "resolved" THEN Id ELSE <<>>
Held     == rconnected /\ "content" \notin failed
Download == IF rclient \in R!Stream THEN "waiting" ELSE rclient
Received == IF rclient = "resolved" THEN R!Content ELSE <<>>

Store == INSTANCE FileStore
           WITH Empty <- R!Empty, kept <- Kept, upload <- client, id <- Told,
                held <- Held, download <- Download, received <- Received

(* The transfer is a store that keeps the whole file or tells nothing of it,
   step by step: no interleaving, lost connection, reset or power loss makes it
   take back, change or tell twice what it has told the client. *)
ImplementsStore == Store!SafeSpec
=============================================================================
