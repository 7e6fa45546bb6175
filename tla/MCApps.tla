------------------------------- MODULE MCApps -------------------------------
(* The programs on top of the client, one at a time: an encrypted file, the
   sign-in of the gallery, the gallery, and the document that is synchronised. *)
EXTENDS EncryptedFile, FiniteSets

CONSTANTS None, Message, MaxEdits, DIDs, Uploader, MaxRecords, MaxClients, MaxLoads,
          MaxVersions, MaxEffects

VARIABLES
  program, \* "cipher", "wallet", "gallery" or "docs"
  active, message, signature, signing, creating, authDid, ownDID, edits, touched,
  userDID, page, online, fula, clients, closed, setting, cids, plain, records,
  loads, uploads, photos, due, alone,
  doc, setup, initial, stat, armed, updates, meeting, docOnline, effects, current,
  missed, overlap, late, split, lost

W == INSTANCE Wallet WITH userDID <- ownDID
G == INSTANCE Gallery
D == INSTANCE DocSync WITH online <- docOnline

(* A DID is something, and so is the identity of another uploader. *)
ASSUME AppsAssumption ==
  /\ \A s, m \in Message : W!FulaDID(s, m) # None
  /\ Uploader # None

walletVars == <<active, message, signature, signing, creating, authDid, ownDID, edits, touched>>
galleryVars == <<userDID, page, online, fula, clients, closed, setting, cids, plain, records,
                 loads, uploads, photos, due, alone>>
docVars == <<doc, setup, initial, stat, armed, updates, meeting, docOnline, effects, current,
             missed, overlap, late, split, lost>>
allVars == <<program, vars, walletVars, galleryVars, docVars>>

AppsInit ==
  /\ program \in {"cipher", "wallet", "gallery", "docs"}
  /\ Init /\ (program # "cipher" => size = 0)
  /\ W!WalletInit /\ G!Init /\ D!Init

Cipher  == program = "cipher" /\ Next /\ UNCHANGED <<program, walletVars, galleryVars, docVars>>
SignIn  == program = "wallet" /\ W!WalletNext /\ UNCHANGED <<program, vars, galleryVars, docVars>>
Photos  == program = "gallery" /\ G!Next /\ UNCHANGED <<program, vars, walletVars, docVars>>
Syncing == program = "docs" /\ D!Next /\ UNCHANGED <<program, vars, walletVars, galleryVars>>

AppsNext == Cipher \/ SignIn \/ Photos \/ Syncing

AppsSpec == AppsInit /\ [][AppsNext]_allVars /\ W!Fairness /\ D!Fairness

(* Wallet.jsx: an identity is of a password and its own signature, unless the
   password was changed after it was given to the wallet. *)
IdentityRecoverable == W!IdentityRecoverable

(* Wallet.jsx: a password that is signed makes an identity. *)
IdentityComes == W!IdentityComes

(* App.js of the gallery: it shows what is readable, each photo once, and
   nothing that is still encrypted. *)
GalleryIsRight == G!GalleryIsRight

(* fsync.js and App.js of fuludocs: the page comes to show the document. *)
DocArrives == D!DocArrives

(* fsync.js and App.js of fuludocs: it does not go back to an older version. *)
NeverOlder == D!NeverOlder
=============================================================================
