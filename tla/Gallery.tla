------------------------------ MODULE Gallery ------------------------------
(***************************************************************************)
(* The gallery application: an effect loads the photos whenever the page,  *)
(* the status, the client or the identity changes, and does not stop the   *)
(* loads that are under way; an upload stores an encrypted file, then a    *)
(* record with the file's key encrypted for the identity.  The collection  *)
(* "gallery" is shared with the simple gallery, whose files are plain, and *)
(* with uploaders that have an identity of their own.  Module Wallet says  *)
(* which identities there may be; one is never taken back.                 *)
(*                                                                         *)
(* A file has a cid before it is stored.  A record is [cid, jwe]: jwe is   *)
(* the DID that can decrypt the key, None for a file without a key.  A     *)
(* photo is shown with what came of its file: the photo, or bytes that are *)
(* still encrypted.  Any call may fail, one of a closed client does.       *)
(***************************************************************************)
EXTENDS Naturals, Sequences, FiniteSets

CONSTANTS
  DIDs,        \* identities the user may have
  None,        \* no identity, no key
  Uploader,    \* the identity of another uploader
  MaxRecords,  \* bound: files
  MaxClients,  \* bound: clients created
  MaxLoads     \* bound: loads under way when the status or the identity changes

VARIABLES
  userDID,
  page, online,  \* is the page the gallery, is the status Online?
  fula,          \* the client in use, 0 for none
  clients, closed, setting, \* clients created, clients closed, onSet() that await one
  cids, plain,   \* files so far, and those that are not encrypted
  records,       \* the collection "gallery"
  loads,         \* loads under way: [did, fula, read, todo]
  uploads,       \* uploads under way: [did, fula, cid, stage]
  photos,        \* what is shown: [cid, clear], first to last
  due,           \* history: the cids that were readable, and those uploaded since
  alone          \* history: was the last load complete, and undisturbed?

app    == <<userDID, page, online, fula, clients, closed, setting>>
box    == <<cids, plain, records>>
shown  == <<photos, due>>
vars   == <<app, box, loads, uploads, shown, alone>>

Init ==
  /\ userDID = None
  /\ page = FALSE /\ online = FALSE
  /\ fula = 0 /\ clients = 0 /\ closed = {} /\ setting = 0
  /\ cids = 0 /\ plain = {} /\ records = {}
  /\ loads = <<>> /\ uploads = {}
  /\ photos = <<>> /\ due = {} /\ alone = TRUE

-----------------------------------------------------------------------------
(* The effect of [page, status, fula, userDID?.did], after a step that changes
   one of them: an identity that is set again is another object. *)
EffectOfLoad ==
  IF page' /\ online' /\ fula' # 0
    THEN /\ loads' = Append(loads, [did |-> userDID', fula |-> fula', read |-> FALSE, todo |-> {}])
         /\ alone' = (loads = <<>> /\ uploads = {})
    ELSE UNCHANGED <<loads, alone>>

(* onDIDSet(). *)
OnDIDSet(did) ==
  /\ Len(loads) < MaxLoads
  /\ userDID' = did
  /\ UNCHANGED <<page, online, fula, clients, closed, setting>>
  /\ EffectOfLoad
  /\ UNCHANGED <<box, uploads, shown>>

(* onSet(), from the page of the configuration, up to the await.  stop() of the
   client it closes reports Offline at once. *)
OnSet ==
  /\ ~page /\ clients + setting < MaxClients
  /\ setting' = setting + 1
  /\ IF fula = 0 THEN UNCHANGED <<closed, online>>
                 ELSE closed' = closed \cup {fula} /\ online' = FALSE
  /\ UNCHANGED <<userDID, page, fula, clients, box, loads, uploads, shown, alone>>

(* Its end.  A load that the effect starts before the status is Connecting has
   no connection yet and comes to nothing. *)
ClientCreated ==
  /\ setting > 0
  /\ setting' = setting - 1
  /\ clients' = clients + 1 /\ fula' = clients'
  /\ online' = FALSE /\ page' = TRUE
  /\ UNCHANGED <<userDID, closed, box, loads, uploads, shown, alone>>

ClientFails ==
  /\ setting > 0
  /\ setting' = setting - 1
  /\ UNCHANGED <<userDID, page, online, fula, clients, closed, box, loads, uploads, shown, alone>>

(* A 'status' of any connection that was made, be it of a closed client. *)
OnStatus ==
  /\ clients > 0 /\ Len(loads) < MaxLoads
  /\ online' = ~online
  /\ UNCHANGED <<userDID, page, fula, clients, closed, setting>>
  /\ EffectOfLoad
  /\ UNCHANGED <<box, uploads, shown>>

OnSetting ==
  /\ page /\ page' = FALSE
  /\ UNCHANGED <<userDID, online, fula, clients, closed, setting, box, loads, uploads, shown, alone>>

-----------------------------------------------------------------------------
Readable(r, did) == r.jwe \in {None, did}

Remove(i) == loads' = SubSeq(loads, 1, i - 1) \o SubSeq(loads, i + 1, Len(loads))

(* The records have come; the gallery is cleared. *)
LoadRead(i) ==
  /\ ~loads[i].read /\ loads[i].fula \notin closed
  /\ loads' = [loads EXCEPT ![i].read = TRUE, ![i].todo = records]
  /\ photos' = <<>>
  /\ due' = {r.cid : r \in {x \in records : Readable(x, loads[i].did)}}
  /\ UNCHANGED <<app, box, uploads, alone>>

(* The answer has no data. *)
LoadReadNothing(i) ==
  /\ ~loads[i].read /\ loads[i].fula \notin closed
  /\ Remove(i)
  /\ photos' = <<>> /\ due' = {}
  /\ UNCHANGED <<app, box, uploads, alone>>

(* The key of record r is encrypted for somebody else. *)
Skip(i, r) ==
  /\ r.jwe \notin {None, loads[i].did} /\ loads[i].did # None
  /\ loads' = [loads EXCEPT ![i].todo = @ \ {r}]
  /\ UNCHANGED <<app, box, uploads, shown, alone>>

(* The file of record r has come, in the clear if it was stored so or there is
   a key. *)
Show(i, r) ==
  /\ Readable(r, loads[i].did) /\ loads[i].fula \notin closed
  /\ loads' = [loads EXCEPT ![i].todo = @ \ {r}]
  /\ photos' = Append(photos, [cid |-> r.cid, clear |-> r.jwe # None \/ r.cid \in plain])
  /\ UNCHANGED <<app, box, uploads, due, alone>>

LoadDone(i) ==
  /\ loads[i].read /\ loads[i].todo = {}
  /\ Remove(i)
  /\ UNCHANGED <<app, box, uploads, shown, alone>>

(* A call fails, or there is no identity to decrypt a key with (line 47). *)
LoadFails(i) ==
  /\ ~loads[i].read \/ loads[i].todo # {}
  /\ Remove(i)
  /\ alone' = FALSE
  /\ UNCHANGED <<app, box, uploads, shown>>

Load(i) ==
  \/ LoadRead(i) \/ LoadReadNothing(i) \/ LoadDone(i) \/ LoadFails(i)
  \/ \E r \in loads[i].todo : Skip(i, r) \/ Show(i, r)

-----------------------------------------------------------------------------
(* onUpload(), with the identity and the client of the last render. *)
OnUpload ==
  /\ page /\ online /\ cids < MaxRecords
  /\ cids' = cids + 1
  /\ uploads' = uploads \cup {[did |-> userDID, fula |-> fula, cid |-> cids', stage |-> "sending"]}
  /\ alone' = (alone /\ loads = <<>>)
  /\ UNCHANGED <<app, plain, records, loads, shown>>

Proceed(u, stage) == uploads' = (uploads \ {u}) \cup {[u EXCEPT !.stage = stage]}

(* Mutant: without an identity there is no jwe, but there is a record. *)
CreateRecordUnkeyed(u) ==
  /\ u.stage = "sending" /\ u.fula \notin closed
  /\ records' = records \cup {[cid |-> u.cid, jwe |-> u.did]}
  /\ Proceed(u, "created")
  /\ UNCHANGED <<app, cids, plain, loads, shown, alone>>

(* The file is stored, the key encrypted and the record created.  Without an
   identity encrypt() throws, and the file stays without a record. *)
CreateRecord(u) ==
  /\ u.stage = "sending" /\ u.fula \notin closed /\ u.did # None
  /\ records' = records \cup {[cid |-> u.cid, jwe |-> u.did]}
  /\ Proceed(u, "created")
  /\ UNCHANGED <<app, cids, plain, loads, shown, alone>>

(* The answer to the mutation has come. *)
Uploaded(u) ==
  /\ u.stage = "created" /\ u.fula \notin closed
  /\ uploads' = uploads \ {u}
  /\ photos' = <<[cid |-> u.cid, clear |-> TRUE]>> \o photos
  /\ due' = due \cup {u.cid}
  /\ UNCHANGED <<app, box, loads, alone>>

UploadFails(u) ==
  /\ uploads' = uploads \ {u}
  /\ UNCHANGED <<app, box, loads, shown, alone>>

Upload(u) == CreateRecord(u) \/ Uploaded(u) \/ UploadFails(u)

-----------------------------------------------------------------------------
(* onUpload() of the simple gallery. *)
SimpleUpload ==
  /\ cids < MaxRecords
  /\ cids' = cids + 1 /\ plain' = plain \cup {cids'}
  /\ records' = records \cup {[cid |-> cids', jwe |-> None]}
  /\ UNCHANGED <<app, loads, uploads, shown, alone>>

(* upload() of the command-line uploader. *)
OtherUpload ==
  /\ cids < MaxRecords
  /\ cids' = cids + 1
  /\ records' = records \cup {[cid |-> cids', jwe |-> Uploader]}
  /\ UNCHANGED <<app, plain, loads, uploads, shown, alone>>

Next ==
  \/ \E did \in DIDs : OnDIDSet(did)
  \/ OnSet \/ ClientCreated \/ ClientFails \/ OnStatus \/ OnSetting
  \/ \E i \in 1 .. Len(loads) : Load(i)
  \/ OnUpload \/ \E u \in uploads : Upload(u)
  \/ SimpleUpload \/ OtherUpload

-----------------------------------------------------------------------------
\* What is shown is never a file that is still encrypted.
Clear == \A i \in 1 .. Len(photos) : photos[i].clear

(* A gallery at rest, whose last load neither overlapped another load or an
   upload nor broke off, shows every photo that its identity could read then or
   that was uploaded since, each once and nothing else; and no interleaving of
   signing in and uploading ever shows a file that is still encrypted. *)
GalleryIsRight ==
  /\ Clear
  /\ alone /\ loads = <<>> /\ uploads = {} =>
       /\ {photos[i].cid : i \in 1 .. Len(photos)} = due
       /\ Cardinality(due) = Len(photos)
=============================================================================
