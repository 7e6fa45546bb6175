------------------------------- MODULE Wallet -------------------------------
(***************************************************************************)
(* The sign-in of the gallery: a password is typed, a wallet signs it, and *)
(* an effect makes a FulaDID of the signature and the password as soon as  *)
(* there are both.                                                         *)
(*                                                                         *)
(* A wallet answers its requests in any order and whenever the user does,  *)
(* also after the disconnect.  The signature of a message by the one       *)
(* account is identified with the message, and the DID with the pair that  *)
(* FulaDID.create() hashes.                                                *)
(***************************************************************************)
EXTENDS Naturals, Sequences

CONSTANTS
  Message,  \* passwords
  None,     \* no password, no signature, no DID
  MaxEdits  \* bound: edits of the password

VARIABLES
  active,     \* is the wallet connected?
  message, signature,
  signing,    \* messages the wallet is asked to sign, each asked for once at a time
  creating,   \* the createDID() under way: the DIDs they will have, oldest first
  authDid,    \* the DID the component has
  userDID,    \* the DID it has told the application
  edits,      \* edits so far
  touched     \* history: was a password changed after it was given to the wallet?

wallet == <<active, message, signature, signing, creating, authDid, userDID, edits, touched>>

\* FulaDID.create(): what the identity depends on.
FulaDID(s, m) == [signature |-> s, message |-> m]

WalletInit ==
  /\ active = FALSE
  /\ message = None /\ signature = None
  /\ signing = {} /\ creating = <<>>
  /\ authDid = None /\ userDID = None
  /\ edits = 0 /\ touched = FALSE

-----------------------------------------------------------------------------
Create(s, m) == Append(creating, FulaDID(s, m))

(* Mutant: it depends on the signature alone. *)
EffectOfSignature ==
  creating' = IF /\ signature' # signature
                 /\ signature' # None /\ message' # None /\ authDid = None
                THEN Create(signature', message') ELSE creating

(* Mutant: without the test of authDid. *)
EffectAgain ==
  creating' = IF /\ <<signature', message'>> # <<signature, message>>
                 /\ signature' # None /\ message' # None
                THEN Create(signature', message') ELSE creating

(* The effect of [signature, message]. *)
Effect ==
  creating' = IF /\ <<signature', message'>> # <<signature, message>>
                 /\ signature' # None /\ message' # None /\ authDid = None
                THEN Create(signature', message') ELSE creating

-----------------------------------------------------------------------------
Activate ==
  /\ ~active
  /\ active' = TRUE
  /\ UNCHANGED <<message, signature, signing, creating, authDid, userDID, edits, touched>>

HandleInput(m) ==
  /\ active /\ m # message /\ edits < MaxEdits
  /\ edits' = edits + 1
  /\ message' = m
  /\ touched' = (touched \/ signing # {} \/ (signature # None /\ message # None /\ authDid = None))
  /\ UNCHANGED <<active, signature, signing, authDid, userDID>>
  /\ Effect

SignMessage ==
  /\ active /\ message # None /\ message \notin signing
  /\ signing' = signing \cup {message}
  /\ UNCHANGED <<active, message, signature, creating, authDid, userDID, edits, touched>>

(* The wallet has signed; the user may have typed on meanwhile. *)
Signed(m) ==
  /\ m \in signing
  /\ signing' = signing \ {m}
  /\ signature' = m
  /\ UNCHANGED <<active, message, authDid, userDID, edits, touched>>
  /\ Effect

Refused(m) ==
  /\ m \in signing
  /\ signing' = signing \ {m}
  /\ UNCHANGED <<active, message, signature, creating, authDid, userDID, edits, touched>>

(* disconnect() clears the password and the signature, not the identity. *)
Disconnect ==
  /\ active
  /\ active' = FALSE
  /\ message' = None /\ signature' = None
  /\ touched' = (touched \/ signing # {})
  /\ UNCHANGED <<signing, authDid, userDID, edits>>
  /\ Effect

(* The oldest createDID() is done. *)
Created ==
  /\ creating # <<>>
  /\ creating' = Tail(creating)
  /\ authDid' = Head(creating) /\ userDID' = Head(creating)
  /\ UNCHANGED <<active, message, signature, signing, edits, touched>>

WalletNext ==
  \/ Activate \/ SignMessage \/ Disconnect \/ Created
  \/ \E m \in Message \cup {None} : HandleInput(m)
  \/ \E m \in Message : Signed(m) \/ Refused(m)

(* createDID() waits for nobody. *)
Fairness == WF_wallet(Created)

-----------------------------------------------------------------------------
(* An identity is of a password and that password's signature, so whoever signs
   it again has the identity again and can open what was encrypted for it;
   unless the password was changed after it was given to the wallet. *)
IdentityRecoverable ==
  userDID # None /\ ~touched => userDID.signature = userDID.message

(* A password that is signed makes an identity, in whatever order typing,
   signing and disconnecting come. *)
IdentityComes == signature # None /\ message # None ~> userDID # None
=============================================================================
