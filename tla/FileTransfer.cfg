\* One file of three chunks, with any Meta, uploaded and retrieved.
CONSTANTS
  N = 3
  Metas <- MCMetas
  Cid = "cid"
  RequestFor <- MCRequestFor
  ManifestOf <- MCManifestOf
  AnswerTo <- MCAnswerTo
SPECIFICATION TransferSpec
INVARIANTS TransferInv CrashHasCause ReceivedIsSent MetaArrives
PROPERTIES ImplementsStore UploadSettles RetrieveSettles
CHECK_DEADLOCK FALSE
