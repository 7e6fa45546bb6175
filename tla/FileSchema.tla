----------------------------- MODULE FileSchema -----------------------------
(***************************************************************************)
(* The messages of the file protocol, and the way of a Meta through them:  *)
(* in the request of the upload, in the manifest that IPFS stores, and in  *)
(* the answer to a request for it.                                         *)
(***************************************************************************)
EXTENDS TLC

F(no, name, label, T) == [no |-> no, name |-> name, label |-> label, T |-> T]

MetaType ==
  << F(1, "name", "plain", "string"), F(2, "type", "plain", "string"),
     F(3, "size", "plain", "uint64"), F(4, "lastModified", "plain", "int64"),
     F(5, "preview", "optional", "bytes") >>

ChunkType ==
  << F(1, "id", "plain", "string"), F(2, "skip", "optional", "uint64"),
     F(3, "limit", "optional", "uint64") >>

RequestType ==
  << F(1, "meta", "oneof", "string"), F(2, "receive", "oneof", "Chunk"),
     F(3, "send", "oneof", "Meta") >>

FileType == << F(1, "meta", "message", "Meta"), F(2, "contentPath", "plain", "string") >>

FileTypes == [Meta |-> MetaType, Chunk |-> ChunkType, Request |-> RequestType, File |-> FileType]

P == INSTANCE Protobuf WITH Schema <- FileTypes

-----------------------------------------------------------------------------
(* Mutant: the size is left out of the request. *)
SendSizeless(m) ==
  P!ToBinary("Request",
    "send" :> [name |-> m.name, type |-> m.type, size |-> 0, lastModified |-> m.lastModified])

(* sendFile() and streamFile() send four fields of the file; a preview is not
   among them. *)
SendRequest(m) ==
  P!ToBinary("Request",
    "send" :> [name |-> m.name, type |-> m.type, size |-> m.size, lastModified |-> m.lastModified])

MetaRequest(id) == P!ToBinary("Request", "meta" :> id)

(* receiveContent(); nobody passes skip or limit. *)
ContentRequest(id) == P!ToBinary("Request", "receive" :> [id |-> id])

(* The handler decodes a request and calls what it asks for. *)
Decoded(wire) == P!FromBinary("Request", wire)

(* The manifest that is stored with an upload. *)
Manifest(wire, path) == P!ToBinary("File", [contentPath |-> path, meta |-> Decoded(wire).send])

(* The path of the content, as the box decodes it, and the Meta that it sends
   back for a manifest, as the client decodes it. *)
Answer(manifest) ==
  LET file == P!FromBinary("File", manifest)
  IN  [path |-> file.contentPath, meta |-> P!FromBinary("Meta", P!ToBinary("Meta", file.meta))]
=============================================================================
