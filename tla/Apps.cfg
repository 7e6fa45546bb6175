\* Files of up to 30 bytes, two passwords, two records of the gallery, three
\* versions of the document.
CONSTANTS
  Aes = 3
  Block = 9
  MaxSize = 30
  None = none
  Message = {m1, m2}
  MaxEdits = 3
  DIDs = {d1}
  Uploader = uploader
  MaxRecords = 2
  MaxClients = 2
  MaxLoads = 2
  MaxVersions = 3
  MaxEffects = 3
SPECIFICATION AppsSpec
CHECK_DEADLOCK FALSE
INVARIANTS RoundTrip IdentityRecoverable GalleryIsRight
PROPERTIES IdentityComes DocArrives NeverOlder
