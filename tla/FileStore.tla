----------------------------- MODULE FileStore ------------------------------
(***************************************************************************)
(* What the file protocol promises of one file: a store that keeps it for  *)
(* good, or nothing.  An id is told only of the whole file, once it is     *)
(* kept; and what is fetched with that id is the whole file, unless the    *)
(* fetch was disturbed.  That there are streams, partitions, a Subject, an *)
(* IPFS node, and a box that may lose power, cannot be told from here.     *)
(***************************************************************************)
EXTENDS Naturals, Sequences

CONSTANTS
  File,   \* a sequence of chunks
  Empty   \* the answer to a request whose manifest could not be read

VARIABLES
  kept,      \* the contents that are kept under their ids
  upload,    \* the client's promise of an id
  id,        \* the id it was told
  held,      \* has nothing disturbed the fetch?
  download,  \* the client's promise of the file
  received   \* the content it was given

uploading   == <<upload, id>>
downloading == <<download, received>>
vars        == <<kept, uploading, held, downloading>>

Init ==
  /\ kept = {} /\ held = TRUE
  /\ upload = "waiting" /\ id = <<>>
  /\ download = "waiting" /\ received = <<>>

Prefixes == {SubSeq(File, 1, k) : k \in 0 .. Len(File)}

\* Once, and as much of the file as has come.
Keep ==
  /\ kept = {}
  /\ \E content \in Prefixes : kept' = {content}
  /\ UNCHANGED <<uploading, held, downloading>>

Tell ==
  /\ upload = "waiting" /\ File \in kept
  /\ upload' = "resolved" /\ id' = File
  /\ UNCHANGED <<kept, held, downloading>>

GiveUp ==
  /\ upload = "waiting"
  /\ upload' = "rejected"
  /\ UNCHANGED <<kept, id, held, downloading>>

Disturb ==
  /\ upload = "resolved" /\ held
  /\ held' = FALSE
  /\ UNCHANGED <<kept, uploading, downloading>>

Fetch ==
  /\ upload = "resolved" /\ download = "waiting"
  /\ download' = "resolved"
  /\ received' \in IF held THEN {File} ELSE Prefixes \cup {<<Empty>>}
  /\ UNCHANGED <<kept, uploading, held>>

FetchFails ==
  /\ upload = "resolved" /\ download = "waiting"
  /\ download' = "rejected"
  /\ UNCHANGED <<kept, uploading, held, received>>

Next == Keep \/ Tell \/ GiveUp \/ Disturb \/ Fetch \/ FetchFails

SafeSpec == Init /\ [][Next]_vars
=============================================================================
