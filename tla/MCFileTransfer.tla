--------------------------- MODULE MCFileTransfer ---------------------------
EXTENDS FileTransfer, Integers

Schema == INSTANCE FileSchema

MCRequestFor(m)     == Schema!SendRequest(m)
MCManifestOf(w, id) == Schema!Manifest(w, id)
MCAnswerTo(w)       == Schema!Answer(w)

MCMetas ==
  [name : {"", "f"}, type : {"", "text"}, size : {0, 3}, lastModified : {1, -1}]
  \cup {[name |-> "f", type |-> "", size |-> 3, lastModified |-> 0, preview |-> <<>>]}
=============================================================================
