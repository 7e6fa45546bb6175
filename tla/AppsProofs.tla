----------------------------- MODULE AppsProofs -----------------------------
(***************************************************************************)
(* The programs on top of the client, for every number of passwords,       *)
(* edits, records, loads, versions and subscriptions, and every size of a  *)
(* file and of its blocks.                                                 *)
(***************************************************************************)
EXTENDS MCApps, SequenceTheorems, FiniteSetTheorems, TLAPS

-----------------------------------------------------------------------------
(* A sequence without one of its elements has the others. *)
LEMMA WithoutOne ==
  ASSUME NEW S, NEW seq \in Seq(S), NEW i \in 1 .. Len(seq)
  PROVE  LET rest == SubSeq(seq, 1, i - 1) \o SubSeq(seq, i + 1, Len(seq))
         IN  /\ rest \in Seq(S) /\ Len(rest) = Len(seq) - 1
             /\ \A j \in 1 .. Len(rest) : \E k \in 1 .. Len(seq) : rest[j] = seq[k]
  <1> DEFINE n == Len(seq)
             s == SubSeq(seq, 1, i - 1)
             t == SubSeq(seq, i + 1, n)
  <1>1. n \in Nat /\ i \in 1 .. n /\ \A k \in 1 .. n : seq[k] \in S
    BY LenProperties, ElementOfSeq
  <1> HIDE DEF n
  <1>2. i - 1 \in Int /\ i + 1 \in Int /\ n \in Int
    BY <1>1
  <1>3. s \in Seq(S) /\ Len(s) = i - 1 /\ \A j \in 1 .. i - 1 : s[j] = seq[j]
    <2>1. \A k \in 1 .. i - 1 : seq[k] \in S
      BY <1>1
    <2> QED BY <1>1, <1>2, <2>1, SubSeqProperties
  <1>4. t \in Seq(S) /\ Len(t) = n - i /\ \A j \in 1 .. n - i : t[j] = seq[i + j]
    <2>1. \A k \in i + 1 .. n : seq[k] \in S
      BY <1>1
    <2> QED BY <1>1, <1>2, <2>1, SubSeqProperties
  <1> HIDE DEF s, t
  <1>5. /\ s \o t \in Seq(S) /\ Len(s \o t) = n - 1
        /\ \A j \in 1 .. n - 1 : (s \o t)[j] = IF j <= i - 1 THEN s[j] ELSE t[j - (i - 1)]
    <2>1. /\ s \o t \in Seq(S) /\ Len(s \o t) = Len(s) + Len(t)
          /\ \A j \in 1 .. Len(s) + Len(t) :
               (s \o t)[j] = IF j <= Len(s) THEN s[j] ELSE t[j - Len(s)]
      BY <1>3, <1>4, ConcatProperties
    <2>2. Len(s) + Len(t) = n - 1
      BY <1>1, <1>3, <1>4
    <2> QED BY <1>3, <2>1, <2>2
  <1>6. ASSUME NEW j \in 1 .. n - 1 PROVE \E k \in 1 .. n : (s \o t)[j] = seq[k]
    <2>1. CASE j <= i - 1
      BY <1>1, <1>3, <1>5, <2>1
    <2>2. CASE j > i - 1
      <3>1. j - (i - 1) \in 1 .. n - i /\ i + (j - (i - 1)) = j + 1 /\ j + 1 \in 1 .. n
        BY <1>1, <2>2
      <3>2. (s \o t)[j] = seq[j + 1]
        BY <1>1, <1>4, <1>5, <2>2, <3>1
      <3> QED BY <3>1, <3>2
    <2>3. j <= i - 1 \/ j > i - 1
      BY <1>1
    <2> QED BY <2>1, <2>2, <2>3
  <1> QED BY <1>1, <1>5, <1>6 DEF n, s, t

-----------------------------------------------------------------------------
(* The sign-in *)

DID == [signature : Message, message : Message]

WalletTypes ==
  /\ message \in Message \cup {None} /\ signature \in Message \cup {None}
  /\ signing \subseteq Message
  /\ creating \in Seq(DID) /\ authDid \in DID \cup {None}

(* As long as no password was changed after it was given to the wallet: the
   wallet is asked for the password as it is, so is what it has signed unless
   there is an identity already, and an identity is of one password. *)
UntouchedInv ==
  ~touched =>
    /\ \A m \in signing : m = message
    /\ signature # None /\ authDid = None => signature = message
    /\ \A i \in 1 .. Len(creating) : creating[i].signature = creating[i].message
    /\ ownDID # None => ownDID.signature = ownDID.message

WalletInv == WalletTypes /\ UntouchedInv

(* Nothing is signed at first. *)
LEMMA WalletInitially == W!WalletInit => WalletInv
  BY EmptySeq DEF W!WalletInit, WalletInv, WalletTypes, UntouchedInv

(* What the effect adds to the identities that are being made: at most one, of
   the password and the signature as they are after the step, and none without a
   password or when there is an identity. *)
LEMMA EffectAdds ==
  ASSUME WalletTypes, W!Effect, message' \in Message \cup {None}, signature' \in Message \cup {None}
  PROVE  /\ creating' \in Seq(DID)
         /\ \/ creating' = creating
            \/ /\ signature' # None /\ message' # None /\ authDid = None
               /\ Len(creating') = Len(creating) + 1
               /\ \A i \in 1 .. Len(creating) : creating'[i] = creating[i]
               /\ creating'[Len(creating) + 1] = [signature |-> signature', message |-> message']
  <1>1. CASE creating' = creating
    BY <1>1 DEF WalletTypes
  <1>2. CASE creating' # creating
    <2> DEFINE did == [signature |-> signature', message |-> message']
    <2>1. /\ creating' = Append(creating, did)
          /\ signature' # None /\ message' # None /\ authDid = None
      BY <1>2 DEF W!Effect, W!Create, W!FulaDID
    <2>2. did \in DID
      BY <2>1 DEF DID
    <2> HIDE DEF did
    <2>3. creating \in Seq(DID)
      BY DEF WalletTypes
    <2>4. /\ Append(creating, did) \in Seq(DID)
          /\ Len(Append(creating, did)) = Len(creating) + 1
          /\ \A i \in 1 .. Len(creating) : Append(creating, did)[i] = creating[i]
          /\ Append(creating, did)[Len(creating) + 1] = did
      BY <2>2, <2>3, AppendProperties
    <2> QED BY <2>1, <2>4 DEF did
  <1> QED BY <1>1, <1>2

(* An effect that adds a password and its signature, or nothing. *)
LEMMA EffectKeeps ==
  ASSUME WalletInv, W!Effect, message' \in Message \cup {None}, signature' \in Message \cup {None},
         ~touched,
         signature' # None /\ message' # None /\ authDid = None => signature' = message'
  PROVE  \A i \in 1 .. Len(creating') : creating'[i].signature = creating'[i].message
  <1>1. CASE creating' = creating
    BY <1>1 DEF WalletInv, UntouchedInv
  <1>2. CASE creating' # creating
    <2>1. /\ signature' # None /\ message' # None /\ authDid = None
          /\ Len(creating') = Len(creating) + 1
          /\ \A i \in 1 .. Len(creating) : creating'[i] = creating[i]
          /\ creating'[Len(creating) + 1] = [signature |-> signature', message |-> message']
      BY <1>2, EffectAdds DEF WalletInv
    <2>2. Len(creating) \in Nat
      BY LenProperties DEF WalletInv, WalletTypes
    <2> QED BY <2>1, <2>2 DEF WalletInv, UntouchedInv
  <1> QED BY <1>1, <1>2

(* Every step of the sign-in keeps the invariant. *)
LEMMA WalletStep ==
  ASSUME WalletInv, W!WalletNext
  PROVE  WalletInv'
  <1>0. WalletTypes /\ Len(creating) \in Nat
    BY LenProperties DEF WalletInv, WalletTypes
  <1>1. CASE W!Activate
    BY <1>1 DEF W!Activate, WalletInv, WalletTypes, UntouchedInv
  <1>2. CASE W!SignMessage
    BY <1>2 DEF W!SignMessage, WalletInv, WalletTypes, UntouchedInv
  <1>3. CASE W!Disconnect
    <2>1. /\ message' = None /\ signature' = None /\ W!Effect
          /\ touched' = (touched \/ signing # {}) /\ UNCHANGED <<signing, authDid, ownDID>>
      BY <1>3 DEF W!Disconnect
    <2>2. WalletTypes'
      BY <1>0, <2>1, EffectAdds DEF WalletTypes
    <2>3. ~touched' => ~touched /\ signing' = {}
      BY <2>1
    <2> QED BY <2>1, <2>2, <2>3, EffectKeeps DEF WalletInv, UntouchedInv
  <1>4. CASE W!Created
    <2>1. /\ creating # <<>> /\ creating' = Tail(creating)
          /\ authDid' = Head(creating) /\ ownDID' = Head(creating)
          /\ UNCHANGED <<message, signature, signing, touched>>
      BY <1>4 DEF W!Created
    <2>2. /\ Head(creating) \in DID /\ Head(creating) = creating[1]
          /\ Tail(creating) \in Seq(DID) /\ Len(Tail(creating)) = Len(creating) - 1
          /\ \A i \in 1 .. Len(creating) - 1 : Tail(creating)[i] = creating[i + 1]
          /\ Len(creating) >= 1
      BY <1>0, <2>1, HeadTailProperties, EmptySeq DEF WalletTypes
    <2>3. WalletTypes'
      BY <1>0, <2>1, <2>2 DEF WalletTypes
    <2>4. Head(creating) # None
      <3>1. PICK s \in Message, m \in Message : Head(creating) = [signature |-> s, message |-> m]
        BY <2>2 DEF DID
      <3> QED BY <3>1, AppsAssumption DEF W!FulaDID
    <2>5. UntouchedInv'
      BY <1>0, <2>1, <2>2, <2>4 DEF WalletInv, UntouchedInv
    <2> QED BY <2>3, <2>5 DEF WalletInv
  <1>5. ASSUME NEW m \in Message \cup {None}, W!HandleInput(m) PROVE WalletInv'
    <2>1. /\ message' = m /\ W!Effect /\ UNCHANGED <<signature, signing, authDid, ownDID>>
          /\ touched' = (touched \/ signing # {} \/ (signature # None /\ message # None /\ authDid = None))
      BY <1>5 DEF W!HandleInput
    <2>2. WalletTypes'
      BY <1>0, <2>1, EffectAdds DEF WalletTypes
    <2>3. ~touched' => ~touched /\ signing' = {} /\ ~(signature # None /\ authDid = None)
      BY <2>1 DEF WalletInv, UntouchedInv
    <2> QED BY <1>0, <2>1, <2>2, <2>3, EffectKeeps DEF WalletInv, UntouchedInv, WalletTypes
  <1>6. ASSUME NEW m \in Message, W!Signed(m) PROVE WalletInv'
    <2>1. /\ m \in signing /\ signing' = signing \ {m} /\ signature' = m /\ W!Effect
          /\ UNCHANGED <<message, authDid, ownDID, touched>>
      BY <1>6 DEF W!Signed
    <2>2. WalletTypes'
      BY <1>0, <2>1, EffectAdds DEF WalletTypes
    <2>3. ~touched => message = m
      BY <2>1 DEF WalletInv, UntouchedInv
    <2> QED BY <1>0, <2>1, <2>2, <2>3, EffectKeeps DEF WalletInv, UntouchedInv, WalletTypes
  <1>7. ASSUME NEW m \in Message, W!Refused(m) PROVE WalletInv'
    BY <1>7 DEF W!Refused, WalletInv, WalletTypes, UntouchedInv
  <1> QED BY <1>1, <1>2, <1>3, <1>4, <1>5, <1>6, <1>7 DEF W!WalletNext

(* An identity is of a password and that password's signature, so whoever signs
   it again has the identity again and can open what was encrypted for it;
   unless the password was changed after it was given to the wallet. *)
THEOREM IdentityRecoverableHolds == AppsSpec => []IdentityRecoverable
  <1>1. AppsInit => WalletInv
    BY WalletInitially DEF AppsInit
  <1>2. ASSUME WalletInv, [AppsNext]_allVars PROVE WalletInv'
    <2>1. CASE W!WalletNext
      BY <1>2, <2>1, WalletStep
    <2>2. CASE UNCHANGED walletVars
      BY <1>2, <2>2 DEF walletVars, WalletInv, WalletTypes, UntouchedInv
    <2> QED BY <1>2, <2>1, <2>2 DEF AppsNext, Cipher, SignIn, Photos, Syncing, allVars
  <1>3. WalletInv => IdentityRecoverable
    BY DEF WalletInv, UntouchedInv, IdentityRecoverable, W!IdentityRecoverable
  <1> QED BY <1>1, <1>2, <1>3, PTL DEF AppsSpec

-----------------------------------------------------------------------------
(* The document *)

\* A sequence of versions that does not go back, and its bounds.
Sorted(s) == \A i, j \in 1 .. Len(s) : i <= j => s[i] <= s[j]
Within(s, low, high) == \A i \in 1 .. Len(s) : low <= s[i] /\ s[i] <= high

(* A version that is not older than the newest may follow. *)
LEMMA SortedAppend ==
  ASSUME NEW s \in Seq(Nat), NEW low \in Nat, NEW high \in Nat, NEW v \in Nat,
         Sorted(s), Within(s, 0, high), high <= v
  PROVE  /\ Append(s, v) \in Seq(Nat) /\ Sorted(Append(s, v)) /\ Within(Append(s, v), 0, v)
         /\ Within(s, low, high) /\ low <= v => Within(Append(s, v), low, v)
  <1>1. /\ Append(s, v) \in Seq(Nat) /\ Len(Append(s, v)) = Len(s) + 1 /\ Len(s) \in Nat
        /\ \A i \in 1 .. Len(s) : Append(s, v)[i] = s[i] /\ s[i] \in Nat
        /\ Append(s, v)[Len(s) + 1] = v
    BY AppendProperties, LenProperties, ElementOfSeq
  <1> DEFINE n == Len(s)
             t == Append(s, v)
  <1>2. \A i \in 1 .. n : s[i] <= v
    BY <1>1 DEF Within
  <1>3. Len(t) = n + 1 /\ n \in Nat /\ t[n + 1] = v /\ \A i \in 1 .. n : t[i] = s[i] /\ s[i] \in Nat
    BY <1>1
  <1>4. \A i \in 1 .. Len(t) : i \in 1 .. n \/ i = n + 1
    BY <1>3
  <1>5. ASSUME NEW i \in 1 .. Len(t), NEW j \in 1 .. Len(t), i <= j PROVE t[i] <= t[j]
    <2>1. CASE j \in 1 .. n
      <3>1. i \in 1 .. n
        BY <1>3, <1>5, <2>1
      <3> QED BY <1>3, <1>5, <2>1, <3>1 DEF Sorted
    <2>2. CASE j = n + 1
      BY <1>2, <1>3, <1>4, <2>2
    <2> QED BY <1>4, <2>1, <2>2
  <1>6. Sorted(t)
    BY <1>5 DEF Sorted
  <1>7. Within(t, 0, v)
    BY <1>2, <1>3, <1>4 DEF Within
  <1>8. ASSUME Within(s, low, high), low <= v PROVE Within(t, low, v)
    BY <1>2, <1>3, <1>4, <1>8 DEF Within
  <1> QED BY <1>1, <1>6, <1>7, <1>8

(* What arrives before a connection breaks is as good. *)
LEMMA SortedPrefix ==
  ASSUME NEW s \in Seq(Nat), NEW n \in 0 .. Len(s)
  PROVE  LET t == SubSeq(s, 1, n)
         IN  /\ t \in Seq(Nat)
             /\ Sorted(s) => Sorted(t)
             /\ \A low, high \in Nat : Within(s, low, high) => Within(t, low, high)
  <1> DEFINE t == SubSeq(s, 1, n)
  <1>1. Len(s) \in Nat /\ \A i \in 1 .. n : s[i] \in Nat
    BY LenProperties, ElementOfSeq
  <1>2. t \in Seq(Nat) /\ Len(t) = n /\ \A i \in 1 .. n : t[i] = s[i]
    BY <1>1, SubSeqProperties
  <1>3. \A i \in 1 .. Len(t) : i \in 1 .. Len(s) /\ t[i] = s[i]
    BY <1>1, <1>2
  <1> HIDE DEF t
  <1>4. Sorted(s) => Sorted(t)
    BY <1>3 DEF Sorted
  <1>5. \A low, high \in Nat : Within(s, low, high) => Within(t, low, high)
    BY <1>3 DEF Within
  <1> QED BY <1>2, <1>4, <1>5 DEF t

(* What follows the oldest version is not older. *)
LEMMA SortedTail ==
  ASSUME NEW s \in Seq(Nat), s # <<>>
  PROVE  /\ Tail(s) \in Seq(Nat) /\ Head(s) \in Nat
         /\ Sorted(s) => Sorted(Tail(s))
         /\ \A low, high \in Nat :
              Within(s, low, high) => /\ low <= Head(s) /\ Head(s) <= high
                                      /\ Within(Tail(s), low, high)
                                      /\ Sorted(s) => Within(Tail(s), Head(s), high)
  <1> DEFINE t == Tail(s)
  <1>1. /\ t \in Seq(Nat) /\ Len(t) = Len(s) - 1 /\ Head(s) = s[1] /\ Head(s) \in Nat
        /\ \A i \in 1 .. Len(t) : t[i] = s[i + 1]
    BY HeadTailProperties
  <1>2. Len(s) \in Nat /\ Len(s) >= 1 /\ \A i \in 1 .. Len(s) : s[i] \in Nat
    BY LenProperties, EmptySeq, ElementOfSeq
  <1> HIDE DEF t
  <1>3. \A i \in 1 .. Len(t) : i + 1 \in 1 .. Len(s) /\ t[i] = s[i + 1]
    BY <1>1, <1>2
  <1>4. Sorted(s) => Sorted(t)
    <2> SUFFICES ASSUME Sorted(s), NEW i \in 1 .. Len(t), NEW j \in 1 .. Len(t), i <= j
                 PROVE  t[i] <= t[j]
      BY DEF Sorted
    <2>1. i + 1 <= j + 1
      BY <1>1, <1>2
    <2> QED BY <1>3, <2>1 DEF Sorted
  <1>5. 1 \in 1 .. Len(s)
    BY <1>2
  <1>6. ASSUME NEW low \in Nat, NEW high \in Nat, Within(s, low, high)
        PROVE  low <= Head(s) /\ Head(s) <= high /\ Within(t, low, high)
    BY <1>1, <1>3, <1>5, <1>6 DEF Within
  <1>7. ASSUME NEW low \in Nat, NEW high \in Nat, Within(s, low, high), Sorted(s)
        PROVE  Within(t, Head(s), high)
    <2> SUFFICES ASSUME NEW i \in 1 .. Len(t) PROVE s[1] <= t[i] /\ t[i] <= high
      BY <1>1 DEF Within
    <2>1. i + 1 \in 1 .. Len(s) /\ t[i] = s[i + 1] /\ 1 <= i + 1
      BY <1>1, <1>2, <1>3
    <2> QED BY <1>5, <1>7, <2>1 DEF Within, Sorted
  <1> QED BY <1>1, <1>4, <1>6, <1>7 DEF t

Subscription == [open : BOOLEAN, todo : Seq(Nat)]

DocTypes ==
  /\ doc \in Nat /\ initial \in Nat /\ meeting \in Nat /\ current \in Nat
  /\ updates \in Seq(Nat) /\ effects \in Seq(Subscription)
  /\ overlap \in BOOLEAN /\ late \in BOOLEAN /\ split \in BOOLEAN

(* Nothing is newer than the document, and nothing is updated before it is
   watched. *)
DocBounds ==
  /\ initial <= doc /\ meeting <= doc
  /\ \A i \in 1 .. Len(updates) : updates[i] <= doc
  /\ setup \in {"off", "creating"} => meeting = 0
  /\ setup \in {"off", "creating", "created"} => ~armed /\ updates = <<>>

(* Without updates that overlap there is one at a time, of a version that is not
   older than the meeting's, and so the box sends them in order. *)
SentInOrder ==
  ~overlap =>
    /\ Len(updates) <= 1
    /\ \A i \in 1 .. Len(updates) : updates[i] # 0 => meeting <= updates[i]
    /\ \A e \in 1 .. Len(effects) : Sorted(effects[e].todo) /\ Within(effects[e].todo, 0, meeting)

(* If no earlier subscription was late, and the box has one database for the
   collection, what the last one has yet to show is not older than what is
   shown. *)
ShownInOrder ==
  ~overlap /\ ~late /\ ~split =>
    /\ current <= meeting
    /\ effects # <<>> => Within(effects[Len(effects)].todo, current, meeting)

DocInv == DocTypes /\ DocBounds /\ SentInOrder /\ ShownInOrder

(* In the beginning there is a document and nobody shows it. *)
LEMMA DocInitially == D!Init => DocInv
  <1> SUFFICES ASSUME D!Init PROVE DocInv
    OBVIOUS
  <1>1. /\ doc = 1 /\ setup = "off" /\ initial = 0 /\ armed = FALSE /\ updates = <<>>
        /\ meeting = 0 /\ effects = <<>> /\ current = 0 /\ overlap = FALSE /\ late = FALSE /\ split = FALSE
    BY DEF D!Init
  <1>2. <<>> \in Seq(Nat) /\ <<>> \in Seq(Subscription) /\ Len(<<>>) = 0
    BY EmptySeq
  <1>3. DocTypes
    BY <1>1, <1>2 DEF DocTypes
  <1>4. DocBounds /\ SentInOrder
    BY <1>1, <1>2 DEF DocBounds, SentInOrder
  <1>5. ShownInOrder
    BY <1>1 DEF ShownInOrder
  <1> QED BY <1>3, <1>4, <1>5 DEF DocInv

(* What is known of a subscription. *)
LEMMA SubscriptionTypes ==
  ASSUME DocInv
  PROVE  /\ Len(effects) \in Nat /\ (effects # <<>> <=> Len(effects) >= 1)
         /\ \A e \in 1 .. Len(effects) :
              effects[e] \in Subscription /\ effects[e].todo \in Seq(Nat)
         /\ ~overlap => \A e \in 1 .. Len(effects) :
              Sorted(effects[e].todo) /\ Within(effects[e].todo, 0, meeting)
         /\ ~overlap /\ ~late /\ ~split => \A e \in 1 .. Len(effects) :
              e = Len(effects) => Within(effects[e].todo, current, meeting)
  <1>1. effects \in Seq(Subscription)
    BY DEF DocInv, DocTypes
  <1>2. Len(effects) \in Nat /\ (effects # <<>> <=> Len(effects) >= 1)
    BY <1>1, LenProperties, EmptySeq
  <1>3. \A e \in 1 .. Len(effects) : effects[e] \in Subscription
    BY <1>1, ElementOfSeq
  <1> QED BY <1>2, <1>3 DEF Subscription, DocInv, SentInOrder, ShownInOrder

(* A meeting that is published names a version that is not older, for the
   subscriptions too. *)
LEMMA PublishInOrder ==
  ASSUME DocInv, NEW v \in Nat, D!Publish(v), ~overlap => meeting <= v
  PROVE  /\ meeting' = v /\ current' = current /\ effects' \in Seq(Subscription)
         /\ Len(effects') = Len(effects)
         /\ ~overlap => \A e \in 1 .. Len(effects) :
              Sorted(effects'[e].todo) /\ Within(effects'[e].todo, 0, v)
         /\ ~overlap /\ ~late /\ ~split =>
              /\ current <= v
              /\ effects # <<>> => Within(effects'[Len(effects)].todo, current, v)
  <1> DEFINE n == Len(effects)
  <1>0. PICK told \in BOOLEAN :
          effects' = [e \in 1 .. Len(effects) |->
                        IF effects[e].open /\ told
                          THEN [effects[e] EXCEPT !.todo = Append(@, v)] ELSE effects[e]]
    BY DEF D!Publish, D!Told
  <1> DEFINE After(e) == IF effects[e].open /\ told
                           THEN [effects[e] EXCEPT !.todo = Append(@, v)] ELSE effects[e]
  <1>1. n \in Nat /\ \A e \in 1 .. n : effects[e] \in Subscription /\ effects[e].todo \in Seq(Nat)
    BY SubscriptionTypes
  <1>2. meeting' = v /\ current' = current /\ effects' = [e \in 1 .. n |-> After(e)]
    BY <1>0 DEF D!Publish
  <1>3. \A e \in 1 .. n : /\ After(e) \in Subscription
                          /\ After(e).todo \in {effects[e].todo, Append(effects[e].todo, v)}
    BY <1>1, AppendProperties DEF Subscription
  <1>4. effects' \in Seq(Subscription)
    <2>1. effects' \in [1 .. n -> Subscription]
      BY <1>2, <1>3
    <2> HIDE DEF n
    <2> QED BY <1>1, <2>1
  <1>5. Len(effects') = n /\ \A e \in 1 .. n : effects'[e] = After(e)
    BY <1>1, <1>2
  <1> HIDE DEF After, n
  <1>6. meeting \in Nat /\ current \in Nat
    BY DEF DocInv, DocTypes
  <1>7. ASSUME ~overlap, NEW e \in 1 .. n
        PROVE  Sorted(effects'[e].todo) /\ Within(effects'[e].todo, 0, v)
    <2>1. Sorted(effects[e].todo) /\ Within(effects[e].todo, 0, meeting)
      BY <1>7, SubscriptionTypes DEF n
    <2>2. Within(effects[e].todo, 0, v)
      <3>1. \A i \in 1 .. Len(effects[e].todo) : effects[e].todo[i] \in Nat
        BY <1>1, ElementOfSeq
      <3> QED BY <1>6, <1>7, <2>1, <3>1 DEF Within
    <2>3. Sorted(Append(effects[e].todo, v)) /\ Within(Append(effects[e].todo, v), 0, v)
      BY <1>1, <1>6, <1>7, <2>1, SortedAppend
    <2> QED BY <1>3, <1>5, <2>1, <2>2, <2>3
  <1>8. ASSUME ~overlap, ~late, ~split, effects # <<>>
        PROVE  Within(effects'[n].todo, current, v)
    <2>1. n \in 1 .. n
      BY <1>1, <1>8, SubscriptionTypes DEF n
    <2>2. /\ Sorted(effects[n].todo) /\ Within(effects[n].todo, 0, meeting)
          /\ Within(effects[n].todo, current, meeting) /\ current <= meeting
      BY <1>8, <2>1, SubscriptionTypes DEF n, DocInv, ShownInOrder
    <2>3. current <= v /\ meeting <= v
      BY <1>6, <1>8, <2>2
    <2>4. Within(effects[n].todo, current, v)
      <3>1. \A i \in 1 .. Len(effects[n].todo) : effects[n].todo[i] \in Nat
        BY <1>1, <2>1, ElementOfSeq
      <3> QED BY <1>6, <2>2, <2>3, <3>1 DEF Within
    <2>5. Within(Append(effects[n].todo, v), current, v)
      BY <1>1, <1>6, <2>1, <2>2, <2>3, SortedAppend
    <2> QED BY <1>3, <1>5, <2>1, <2>4, <2>5
  <1>9. ~overlap /\ ~late /\ ~split => current <= v
    BY <1>6 DEF DocInv, ShownInOrder
  <1> QED BY <1>2, <1>4, <1>5, <1>7, <1>8, <1>9 DEF n

(* A step of one subscription leaves the others as they are. *)
LEMMA OneSubscription ==
  ASSUME DocInv, NEW e \in 1 .. Len(effects), NEW x \in Subscription,
         effects' = [effects EXCEPT ![e] = x],
         ~overlap => Sorted(x.todo) /\ Within(x.todo, 0, meeting)
  PROVE  /\ effects' \in Seq(Subscription) /\ Len(effects') = Len(effects)
         /\ \A d \in 1 .. Len(effects) : effects'[d] = IF d = e THEN x ELSE effects[d]
         /\ ~overlap => \A d \in 1 .. Len(effects) :
              Sorted(effects'[d].todo) /\ Within(effects'[d].todo, 0, meeting)
  <1>1. effects \in Seq(Subscription)
    BY DEF DocInv, DocTypes
  <1>2. /\ effects' \in Seq(Subscription) /\ Len(effects') = Len(effects)
        /\ \A d \in 1 .. Len(effects) : effects'[d] = IF d = e THEN x ELSE effects[d]
    BY <1>1, ExceptSeq
  <1> QED BY <1>2, SubscriptionTypes

(* A connection that breaks leaves a part of what was to be shown. *)
LEMMA BreakInOrder ==
  ASSUME DocInv, NEW e \in 1 .. Len(effects), D!Break(e),
         UNCHANGED <<doc, setup, initial, armed, updates, meeting, current, overlap, late, split>>
  PROVE  DocInv'
  <1>1. PICK n \in 0 .. Len(effects[e].todo) :
          effects' = [effects EXCEPT ![e] = [open |-> FALSE, todo |-> SubSeq(@.todo, 1, n)]]
    BY DEF D!Break
  <1> DEFINE t == SubSeq(effects[e].todo, 1, n)
             x == [open |-> FALSE, todo |-> t]
  <1>2. effects[e].todo \in Seq(Nat) /\ meeting \in Nat /\ current \in Nat
    BY SubscriptionTypes DEF DocInv, DocTypes
  <1>3. t \in Seq(Nat) /\ (Sorted(effects[e].todo) => Sorted(t))
        /\ \A low, high \in Nat : Within(effects[e].todo, low, high) => Within(t, low, high)
    BY <1>2, SortedPrefix
  <1> HIDE DEF t
  <1>4. x \in Subscription /\ x.todo = t
    BY <1>3 DEF Subscription
  <1>5. effects' = [effects EXCEPT ![e] = x]
    BY <1>1 DEF t
  <1> HIDE DEF x
  <1>6. ~overlap => Sorted(x.todo) /\ Within(x.todo, 0, meeting)
    BY <1>2, <1>3, <1>4, SubscriptionTypes
  <1>7. /\ effects' \in Seq(Subscription) /\ Len(effects') = Len(effects)
        /\ \A d \in 1 .. Len(effects) : effects'[d] = IF d = e THEN x ELSE effects[d]
        /\ ~overlap => \A d \in 1 .. Len(effects) :
             Sorted(effects'[d].todo) /\ Within(effects'[d].todo, 0, meeting)
    BY <1>4, <1>5, <1>6, OneSubscription
  <1>8. ~overlap /\ ~late /\ ~split => Within(effects'[Len(effects)].todo, current, meeting)
    <2>1. Len(effects) \in 1 .. Len(effects)
      BY SubscriptionTypes
    <2>2. ~overlap /\ ~late /\ ~split => Within(effects[Len(effects)].todo, current, meeting)
      BY <2>1, SubscriptionTypes
    <2> QED BY <1>2, <1>3, <1>4, <1>7, <2>1, <2>2
  <1>9. DocTypes' /\ DocBounds'
    BY <1>7 DEF DocInv, DocTypes, DocBounds
  <1>10. SentInOrder'
    BY <1>7 DEF DocInv, SentInOrder
  <1>11. ShownInOrder'
    BY <1>7, <1>8 DEF DocInv, ShownInOrder
  <1> QED BY <1>9, <1>10, <1>11 DEF DocInv

(* An update that is over is gone, and no other has come. *)
LEMMA RemovedUpdates ==
  ASSUME DocInv, NEW i \in 1 .. Len(updates)
  PROVE  /\ D!Removed(i) \in Seq(Nat) /\ Len(D!Removed(i)) = Len(updates) - 1 /\ Len(updates) \in Nat
         /\ \A j \in 1 .. Len(D!Removed(i)) : \E k \in 1 .. Len(updates) : D!Removed(i)[j] = updates[k]
  BY WithoutOne, LenProperties DEF DocInv, DocTypes, D!Removed

(* A step that touches no subscription, meeting or shown document, and adds no
   update. *)
LEMMA DocQuietStep ==
  ASSUME DocInv, UNCHANGED <<updates, meeting, effects, current, overlap, late, split>>,
         doc' \in Nat, doc <= doc', initial' \in Nat, initial' <= doc',
         setup' \in {"off", "creating"} => setup \in {"off", "creating"},
         setup' \in {"off", "creating", "created"} => setup \in {"off", "creating", "created"} /\ armed' = armed
  PROVE  DocInv'
  <1>1. DocTypes'
    BY DEF DocInv, DocTypes
  <1>2. \A i \in 1 .. Len(updates) : updates[i] \in Nat
    BY ElementOfSeq DEF DocInv, DocTypes
  <1>3. DocBounds'
    BY <1>2 DEF DocInv, DocTypes, DocBounds
  <1> QED BY <1>1, <1>3 DEF DocInv, SentInOrder, ShownInOrder

(* fsync's steps. *)
LEMMA FsyncStep ==
  ASSUME DocInv,
         \/ D!Write \/ D!Connected \/ D!CreateMeeting \/ D!CreateFails \/ D!WatchForUpdates
         \/ D!Poll \/ D!Debounced
         \/ \E i \in 1 .. Len(updates) : D!ReadFile(i) \/ D!UpdateMeeting(i) \/ D!UpdateFails(i)
  PROVE  DocInv' /\ current' = current
  <1> USE DEF D!view, D!history
  <1>0. /\ DocTypes /\ DocBounds /\ SentInOrder /\ ShownInOrder
        /\ updates \in Seq(Nat) /\ Len(updates) \in Nat
        /\ \A i \in 1 .. Len(updates) : updates[i] \in Nat
    BY LenProperties, ElementOfSeq DEF DocInv, DocTypes
  <1>1. CASE D!Write
    BY <1>0, <1>1, DocQuietStep DEF D!Write, DocTypes, DocBounds
  <1>2. CASE D!Connected
    BY <1>0, <1>2, DocQuietStep DEF D!Connected, DocTypes, DocBounds
  <1>3. CASE D!CreateMeeting
    <2>1. /\ setup = "creating" /\ setup' = "created" /\ D!Publish(initial)
          /\ UNCHANGED <<doc, initial, armed, updates, overlap, late, split>>
      BY <1>3 DEF D!CreateMeeting
    <2>2. initial \in Nat /\ meeting = 0 /\ updates = <<>> /\ Len(updates) = 0 /\ initial <= doc
      BY <1>0, <2>1, EmptySeq DEF DocTypes, DocBounds
    <2>3. /\ meeting' = initial /\ current' = current /\ effects' \in Seq(Subscription)
          /\ Len(effects') = Len(effects)
          /\ ~overlap => \A e \in 1 .. Len(effects) :
               Sorted(effects'[e].todo) /\ Within(effects'[e].todo, 0, initial)
          /\ ~overlap /\ ~late /\ ~split =>
               /\ current <= initial
               /\ effects # <<>> => Within(effects'[Len(effects)].todo, current, initial)
      BY <2>1, <2>2, PublishInOrder
    <2>4. effects' # <<>> => effects # <<>>
      BY <2>3, SubscriptionTypes, EmptySeq
    <2>5. DocTypes' /\ DocBounds'
      BY <1>0, <2>1, <2>2, <2>3 DEF DocTypes, DocBounds
    <2>6. SentInOrder'
      BY <2>1, <2>2, <2>3 DEF SentInOrder
    <2>7. ShownInOrder'
      BY <2>1, <2>3, <2>4 DEF ShownInOrder
    <2> QED BY <2>3, <2>5, <2>6, <2>7 DEF DocInv
  <1>4. CASE D!CreateFails
    BY <1>0, <1>4, DocQuietStep DEF D!CreateFails, DocTypes, DocBounds
  <1>5. CASE D!WatchForUpdates
    BY <1>0, <1>5, DocQuietStep DEF D!WatchForUpdates, DocTypes, DocBounds
  <1>6. CASE D!Poll
    BY <1>0, <1>6, DocQuietStep DEF D!Poll, DocTypes, DocBounds
  <1>7. CASE D!Debounced
    <2>1. /\ armed /\ updates' = Append(updates, 0) /\ overlap' = (overlap \/ updates # <<>>)
          /\ UNCHANGED <<doc, setup, initial, meeting, effects, current, late, split>>
      BY <1>7 DEF D!Debounced
    <2>2. /\ updates' \in Seq(Nat) /\ Len(updates') = Len(updates) + 1
          /\ \A i \in 1 .. Len(updates) : updates'[i] = updates[i]
          /\ updates'[Len(updates) + 1] = 0
      BY <1>0, <2>1, AppendProperties
    <2>3. \A i \in 1 .. Len(updates') : i \in 1 .. Len(updates) \/ i = Len(updates) + 1
      BY <1>0, <2>2
    <2>4. DocTypes'
      BY <1>0, <2>1, <2>2 DEF DocTypes
    <2>5. DocBounds'
      BY <1>0, <2>1, <2>2, <2>3 DEF DocTypes, DocBounds
    <2>6. SentInOrder'
      <3> SUFFICES ASSUME ~overlap' PROVE SentInOrder'
        BY DEF SentInOrder
      <3>1. ~overlap /\ updates = <<>> /\ Len(updates) = 0
        BY <2>1, EmptySeq
      <3>2. Len(updates') = 1 /\ \A i \in 1 .. Len(updates') : updates'[i] = 0
        BY <2>2, <2>3, <3>1
      <3> QED BY <1>0, <2>1, <3>1, <3>2 DEF SentInOrder
    <2>7. ShownInOrder'
      BY <1>0, <2>1 DEF DocTypes, ShownInOrder
    <2> QED BY <2>1, <2>4, <2>5, <2>6, <2>7 DEF DocInv
  <1>8. ASSUME NEW i \in 1 .. Len(updates), D!ReadFile(i) PROVE DocInv' /\ current' = current
    <2>1. /\ updates' = [updates EXCEPT ![i] = doc]
          /\ UNCHANGED <<doc, setup, initial, armed, meeting, effects, current, overlap, late, split>>
      BY <1>8 DEF D!ReadFile
    <2>2. doc \in Nat /\ meeting <= doc /\ updates # <<>>
      BY <1>0, EmptySeq DEF DocTypes, DocBounds
    <2>3. /\ updates' \in Seq(Nat) /\ Len(updates') = Len(updates)
          /\ \A j \in 1 .. Len(updates) : updates'[j] = IF j = i THEN doc ELSE updates[j]
      BY <1>0, <2>1, <2>2, ExceptSeq
    <2>4. DocTypes'
      BY <1>0, <2>1, <2>3 DEF DocTypes
    <2>5. DocBounds'
      BY <1>0, <2>1, <2>2, <2>3 DEF DocBounds, DocTypes
    <2>6. SentInOrder'
      BY <1>0, <2>1, <2>2, <2>3 DEF SentInOrder
    <2> QED BY <1>0, <2>1, <2>4, <2>5, <2>6 DEF DocInv, ShownInOrder
  <1>9. ASSUME NEW i \in 1 .. Len(updates), D!UpdateMeeting(i) PROVE DocInv' /\ current' = current
    <2>1. /\ updates[i] # 0 /\ updates' = D!Removed(i) /\ D!Publish(updates[i])
          /\ UNCHANGED <<doc, setup, initial, armed, overlap, late, split>>
      BY <1>9 DEF D!UpdateMeeting
    <2>2. /\ updates' \in Seq(Nat) /\ Len(updates') = Len(updates) - 1
          /\ \A j \in 1 .. Len(updates') : \E k \in 1 .. Len(updates) : updates'[j] = updates[k]
      BY <2>1, RemovedUpdates
    <2> DEFINE v == updates[i]
    <2>3. v \in Nat /\ v <= doc /\ (~overlap => meeting <= v) /\ updates # <<>>
      BY <1>0, <2>1, EmptySeq DEF DocBounds, SentInOrder
    <2> HIDE DEF v
    <2>4. /\ meeting' = v /\ current' = current /\ effects' \in Seq(Subscription)
          /\ Len(effects') = Len(effects)
          /\ ~overlap => \A e \in 1 .. Len(effects) :
               Sorted(effects'[e].todo) /\ Within(effects'[e].todo, 0, v)
          /\ ~overlap /\ ~late /\ ~split =>
               /\ current <= v
               /\ effects # <<>> => Within(effects'[Len(effects)].todo, current, v)
      <3>1. D!Publish(v)
        BY <2>1 DEF v
      <3> QED BY <2>3, <3>1, PublishInOrder
    <2>5. effects' # <<>> => effects # <<>>
      BY <2>4, SubscriptionTypes, EmptySeq
    <2>6. setup \notin {"off", "creating", "created"}
      BY <1>0, <2>3 DEF DocBounds
    <2>7. DocTypes'
      BY <1>0, <2>1, <2>2, <2>3, <2>4 DEF DocTypes
    <2>8. DocBounds'
      BY <1>0, <2>1, <2>2, <2>3, <2>4, <2>6 DEF DocBounds
    <2>9. SentInOrder'
      <3> SUFFICES ASSUME ~overlap PROVE SentInOrder'
        BY <2>1 DEF SentInOrder
      <3>1. Len(updates') = 0
        BY <1>0, <2>2 DEF SentInOrder
      <3> QED BY <2>1, <2>4, <3>1 DEF SentInOrder
    <2>10. ShownInOrder'
      BY <2>1, <2>4, <2>5 DEF ShownInOrder
    <2> QED BY <2>4, <2>7, <2>8, <2>9, <2>10 DEF DocInv
  <1>10. ASSUME NEW i \in 1 .. Len(updates), D!UpdateFails(i) PROVE DocInv' /\ current' = current
    <2>1. /\ updates' = D!Removed(i)
          /\ UNCHANGED <<doc, setup, initial, armed, meeting, effects, current, overlap, late, split>>
      BY <1>10 DEF D!UpdateFails
    <2>2. /\ updates' \in Seq(Nat) /\ Len(updates') = Len(updates) - 1
          /\ \A j \in 1 .. Len(updates') : \E k \in 1 .. Len(updates) : updates'[j] = updates[k]
      BY <2>1, RemovedUpdates
    <2>3. updates # <<>>
      BY <1>0, EmptySeq
    <2>4. setup \notin {"off", "creating", "created"}
      BY <1>0, <2>3 DEF DocBounds
    <2>5. DocTypes'
      BY <1>0, <2>1, <2>2 DEF DocTypes
    <2>6. DocBounds'
      BY <1>0, <2>1, <2>2, <2>4 DEF DocBounds
    <2>7. SentInOrder'
      <3> SUFFICES ASSUME ~overlap PROVE SentInOrder'
        BY <2>1 DEF SentInOrder
      <3>1. Len(updates') = 0
        BY <1>0, <2>2 DEF SentInOrder
      <3> QED BY <1>0, <2>1, <3>1 DEF SentInOrder
    <2> QED BY <1>0, <2>1, <2>5, <2>6, <2>7 DEF DocInv, ShownInOrder
  <1> QED BY <1>1, <1>2, <1>3, <1>4, <1>5, <1>6, <1>7, <1>8, <1>9, <1>10

(* A new subscription begins with the meeting as it is in its database. *)
LEMMA OnlineStep ==
  ASSUME DocInv, D!Online
  PROVE  DocInv' /\ current' = current
  <1>0. PICK v \in D!Found : effects' = Append(effects, [open |-> TRUE, todo |-> IF v = 0 THEN <<>> ELSE <<v>>])
    BY DEF D!Online
  <1> DEFINE t == IF v = 0 THEN <<>> ELSE <<v>>
             x == [open |-> TRUE, todo |-> t]
  <1>1. /\ effects' = Append(effects, x)
        /\ UNCHANGED <<doc, setup, initial, armed, updates, meeting, current, overlap, late, split>>
    BY <1>0 DEF D!Online, D!fsync, D!history
  <1>2. meeting \in Nat /\ current \in Nat /\ effects \in Seq(Subscription)
        /\ v \in 0 .. meeting /\ (~split => v = meeting)
    BY <1>0 DEF DocInv, DocTypes, D!Found
  <1>3. t \in Seq(Nat) /\ Len(t) \in 0 .. 1 /\ \A i \in 1 .. Len(t) : i = 1 /\ t[i] = v
    <2>1. CASE v = 0
      BY <2>1, EmptySeq
    <2>2. CASE v # 0
      BY <1>2, <2>2
    <2> QED BY <2>1, <2>2
  <1> HIDE DEF t
  <1>4. Sorted(t) /\ Within(t, 0, meeting) /\ (current <= meeting /\ ~split => Within(t, current, meeting))
    BY <1>2, <1>3 DEF Sorted, Within
  <1>5. x \in Subscription /\ x.todo = t
    BY <1>3 DEF Subscription
  <1> HIDE DEF x
  <1>6. /\ effects' \in Seq(Subscription) /\ Len(effects') = Len(effects) + 1
        /\ \A e \in 1 .. Len(effects) : effects'[e] = effects[e]
        /\ effects'[Len(effects) + 1] = x
    BY <1>1, <1>2, <1>5, AppendProperties
  <1>7. Len(effects) \in Nat /\ \A e \in 1 .. Len(effects') : e \in 1 .. Len(effects) \/ e = Len(effects) + 1
    BY <1>6, SubscriptionTypes
  <1>8. DocTypes' /\ DocBounds'
    BY <1>1, <1>6 DEF DocInv, DocTypes, DocBounds
  <1>9. ASSUME ~overlap, NEW e \in 1 .. Len(effects')
        PROVE  Sorted(effects'[e].todo) /\ Within(effects'[e].todo, 0, meeting)
    <2>1. CASE e \in 1 .. Len(effects)
      BY <1>6, <1>9, <2>1, SubscriptionTypes
    <2>2. CASE e = Len(effects) + 1
      BY <1>4, <1>5, <1>6, <2>2
    <2> QED BY <1>7, <2>1, <2>2
  <1>10. SentInOrder'
    BY <1>1, <1>9 DEF DocInv, SentInOrder
  <1>11. ShownInOrder'
    BY <1>1, <1>4, <1>5, <1>6 DEF DocInv, ShownInOrder
  <1> QED BY <1>1, <1>8, <1>10, <1>11 DEF DocInv

(* What is shown is the oldest file of a subscription; that of an earlier one is
   late, and that of the last one not older than what was shown. *)
LEMMA ShowStep ==
  ASSUME DocInv, NEW e \in 1 .. Len(effects), D!Show(e)
  PROVE  DocInv' /\ (current' < current => overlap' \/ late' \/ split')
  <1> DEFINE s == effects[e].todo
             x == [effects[e] EXCEPT !.todo = Tail(@)]
  <1>1. /\ s # <<>> /\ current' = Head(s) /\ effects' = [effects EXCEPT ![e] = x]
        /\ late' = (late \/ e < Len(effects))
        /\ UNCHANGED <<doc, setup, initial, armed, updates, meeting, overlap, split>>
    <2>1. effects' = [effects EXCEPT ![e].todo = Tail(@)]
      BY DEF D!Show
    <2>2. effects' = [effects EXCEPT ![e] = x]
      BY <2>1
    <2> HIDE DEF x
    <2> QED BY <2>2 DEF D!Show, D!fsync
  <1>2. /\ s \in Seq(Nat) /\ effects[e] \in Subscription /\ meeting \in Nat /\ current \in Nat
        /\ Len(effects) \in Nat
    BY SubscriptionTypes DEF DocInv, DocTypes
  <1>3. ~overlap => Sorted(s) /\ Within(s, 0, meeting)
    BY SubscriptionTypes
  <1>4. ~overlap /\ ~late' /\ ~split => e = Len(effects) /\ ~late /\ Within(s, current, meeting)
    <2> SUFFICES ASSUME ~overlap, ~late', ~split PROVE e = Len(effects) /\ ~late /\ Within(s, current, meeting)
      OBVIOUS
    <2>1. ~late /\ ~(e < Len(effects))
      <3> HIDE DEF x, s
      <3> QED BY <1>1
    <2>2. e = Len(effects)
      BY <1>2, <2>1
    <2> QED BY <2>1, <2>2, SubscriptionTypes
  <1> HIDE DEF s
  <1>5. x \in Subscription /\ x.todo = Tail(s)
    <2>1. Tail(s) \in Seq(Nat)
      BY <1>1, <1>2, SortedTail
    <2> QED BY <1>2, <2>1 DEF Subscription, s
  <1> HIDE DEF x
  <1>6. Head(s) \in Nat /\ (~overlap => Sorted(x.todo) /\ Within(x.todo, 0, meeting))
    BY <1>1, <1>2, <1>3, <1>5, SortedTail
  <1>7. ~overlap /\ ~late' /\ ~split =>
          current <= Head(s) /\ Head(s) <= meeting /\ Within(x.todo, Head(s), meeting)
    BY <1>1, <1>2, <1>3, <1>4, <1>5, SortedTail
  <1>8. /\ effects' \in Seq(Subscription) /\ Len(effects') = Len(effects)
        /\ \A d \in 1 .. Len(effects) : effects'[d] = IF d = e THEN x ELSE effects[d]
        /\ ~overlap => \A d \in 1 .. Len(effects) :
             Sorted(effects'[d].todo) /\ Within(effects'[d].todo, 0, meeting)
    BY <1>1, <1>5, <1>6, OneSubscription
  <1>9. DocTypes' /\ DocBounds'
    BY <1>1, <1>6, <1>8 DEF DocInv, DocTypes, DocBounds
  <1>10. SentInOrder'
    BY <1>1, <1>8 DEF DocInv, SentInOrder
  <1>11. ShownInOrder'
    <2> SUFFICES ASSUME ~overlap, ~late', ~split PROVE ShownInOrder'
      BY <1>1 DEF ShownInOrder
    <2>1. effects'[Len(effects)] = x
      BY <1>4, <1>8
    <2> QED BY <1>1, <1>7, <1>8, <2>1 DEF ShownInOrder
  <1>12. current' < current => overlap' \/ late' \/ split'
    BY <1>1, <1>2, <1>6, <1>7
  <1> QED BY <1>9, <1>10, <1>11, <1>12 DEF DocInv

(* A subscription that ends has nothing to show. *)
LEMMA ShowFailsStep ==
  ASSUME DocInv, NEW e \in 1 .. Len(effects), D!ShowFails(e)
  PROVE  DocInv' /\ current' = current
  <1> DEFINE x == [open |-> FALSE, todo |-> <<>>]
  <1>1. /\ effects' = [effects EXCEPT ![e] = x]
        /\ UNCHANGED <<doc, setup, initial, armed, updates, meeting, current, overlap, late, split>>
    BY DEF D!ShowFails, D!fsync
  <1>2. /\ x \in Subscription /\ Sorted(x.todo) /\ Within(x.todo, 0, meeting)
        /\ Within(x.todo, current, meeting)
    BY EmptySeq DEF Subscription, Sorted, Within
  <1> HIDE DEF x
  <1>3. /\ effects' \in Seq(Subscription) /\ Len(effects') = Len(effects)
        /\ \A d \in 1 .. Len(effects) : effects'[d] = IF d = e THEN x ELSE effects[d]
        /\ ~overlap => \A d \in 1 .. Len(effects) :
             Sorted(effects'[d].todo) /\ Within(effects'[d].todo, 0, meeting)
    BY <1>1, <1>2, OneSubscription
  <1>4. DocTypes' /\ DocBounds'
    BY <1>1, <1>3 DEF DocInv, DocTypes, DocBounds
  <1>5. SentInOrder'
    BY <1>1, <1>3 DEF DocInv, SentInOrder
  <1>6. Len(effects) \in 1 .. Len(effects) /\ effects # <<>>
    BY SubscriptionTypes, EmptySeq
  <1>7. ShownInOrder'
    BY <1>1, <1>2, <1>3, <1>6 DEF DocInv, ShownInOrder
  <1> QED BY <1>1, <1>4, <1>5, <1>7 DEF DocInv

(* Every step of the document keeps the invariant, and what is shown. *)
LEMMA DocStep ==
  ASSUME DocInv, [D!Next]_(D!vars)
  PROVE  DocInv' /\ (current' < current => overlap' \/ late' \/ split')
  <1>0. current \in Nat
    BY DEF DocInv, DocTypes
  <1>1. CASE \/ D!Write \/ D!Connected \/ D!CreateMeeting \/ D!CreateFails \/ D!WatchForUpdates
             \/ D!Poll \/ D!Debounced
             \/ \E i \in 1 .. Len(updates) : D!ReadFile(i) \/ D!UpdateMeeting(i) \/ D!UpdateFails(i)
    BY <1>0, <1>1, FsyncStep
  <1>2. CASE D!Online
    BY <1>0, <1>2, OnlineStep
  <1>3. ASSUME NEW e \in 1 .. Len(effects), D!Show(e)
        PROVE  DocInv' /\ (current' < current => overlap' \/ late' \/ split')
    BY <1>3, ShowStep
  <1>4. ASSUME NEW e \in 1 .. Len(effects), D!ShowFails(e)
        PROVE  DocInv' /\ (current' < current => overlap' \/ late' \/ split')
    BY <1>0, <1>4, ShowFailsStep
  <1>5. ASSUME NEW e \in 1 .. Len(effects), D!Offline(e) \/ D!Blip(e)
        PROVE  DocInv' /\ (current' < current => overlap' \/ late' \/ split')
    <2>1. /\ D!Break(e)
          /\ UNCHANGED <<doc, setup, initial, armed, updates, meeting, current, overlap, late, split>>
      BY <1>5 DEF D!Offline, D!Blip, D!fsync, D!history
    <2> QED BY <1>0, <2>1, BreakInOrder
  <1>6. CASE D!OpenedTwice
    <2>1. /\ split' = TRUE
          /\ UNCHANGED <<doc, setup, initial, armed, updates, meeting, effects, current, overlap, late>>
      BY <1>6 DEF D!OpenedTwice, D!fsync, D!view
    <2> QED BY <1>0, <2>1 DEF DocInv, DocTypes, DocBounds, SentInOrder, ShownInOrder
  <1>7. CASE UNCHANGED D!vars
    <2>1. UNCHANGED <<doc, setup, initial, armed, updates, meeting, effects, current, overlap, late, split>>
      BY <1>7 DEF D!vars, D!fsync, D!view, D!history
    <2> QED BY <1>0, <2>1 DEF DocInv, DocTypes, DocBounds, SentInOrder, ShownInOrder
  <1> QED BY <1>1, <1>2, <1>3, <1>4, <1>5, <1>6, <1>7 DEF D!Next, D!Updating, D!Showing

(* The page never goes back to an older version of the document, unless updates
   overlapped, a subscription showed a file after the next one began, or the box
   opened the collection twice. *)
THEOREM NeverOlderHolds == AppsSpec => NeverOlder
  <1>1. AppsInit => DocInv
    BY DocInitially DEF AppsInit
  <1>2. [AppsNext]_allVars => [D!Next]_(D!vars)
    BY DEF AppsNext, Cipher, SignIn, Photos, Syncing, allVars, docVars, D!vars, D!fsync, D!view,
       D!history
  <1>3. DocInv /\ [AppsNext]_allVars => DocInv' /\ [current' < current => overlap' \/ late' \/ split']_(D!vars)
    BY <1>2, DocStep
  <1> QED BY <1>1, <1>3, PTL DEF AppsSpec, NeverOlder, D!NeverOlder

-----------------------------------------------------------------------------
(* The gallery *)

Record == [cid : Nat, jwe : DIDs \cup {None, Uploader}]
LoadOf == [did : DIDs \cup {None}, fula : Nat, read : BOOLEAN, todo : SUBSET Record]
Upload == [did : DIDs \cup {None}, fula : Nat, cid : Nat, stage : {"sending", "created"}]
Photo  == [cid : Nat, clear : BOOLEAN]

GalleryTypes ==
  /\ userDID \in DIDs \cup {None} /\ fula \in Nat /\ clients \in Nat /\ cids \in Nat
  /\ records \subseteq Record /\ uploads \subseteq Upload
  /\ loads \in Seq(LoadOf) /\ photos \in Seq(Photo)
  /\ alone \in BOOLEAN

(* A cid is one file's: of one record, or of an upload that has none yet.  A
   record without a key is of a file that is not encrypted. *)
FilesInv ==
  /\ \A r \in records : r.cid \in 1 .. cids /\ (r.jwe = None => r.cid \in plain)
  /\ \A r, q \in records : r.cid = q.cid => r = q
  /\ \A u \in uploads : u.cid \in 1 .. cids
  /\ \A u, v \in uploads : u.cid = v.cid => u = v
  /\ \A u \in uploads : u.stage = "sending" => \A r \in records : r.cid # u.cid
  /\ \A i \in 1 .. Len(loads) : loads[i].todo \subseteq records
  /\ due \subseteq 1 .. cids

\* What load l has yet to show.
Coming(l) == {r.cid : r \in {x \in l.todo : G!Readable(x, l.did)}}

(* Every photo that is due is shown, once, but for the rest. *)
ShownBut(rest) ==
  /\ rest \subseteq due /\ {photos[i].cid : i \in 1 .. Len(photos)} = due \ rest
  /\ \A i, j \in 1 .. Len(photos) : photos[i].cid = photos[j].cid => i = j

(* Undisturbed there is one load and no upload, or there are uploads of files
   that were not due; what is shown is what is due, but for what is to come. *)
AloneInv ==
  alone =>
    /\ Len(loads) <= 1
    /\ loads = <<>> => ShownBut({}) /\ \A u \in uploads : u.cid \notin due
    /\ loads # <<>> => uploads = {} /\ (loads[1].read => ShownBut(Coming(loads[1])))

GalleryInv == GalleryTypes /\ FilesInv /\ G!Clear /\ AloneInv

(* An empty gallery. *)
LEMMA GalleryInitially == G!Init => GalleryInv
  <1> SUFFICES ASSUME G!Init PROVE GalleryInv
    OBVIOUS
  <1>1. /\ userDID = None /\ fula = 0 /\ clients = 0 /\ cids = 0 /\ records = {} /\ uploads = {}
        /\ loads = <<>> /\ photos = <<>> /\ due = {} /\ alone = TRUE
    BY DEF G!Init
  <1>2. <<>> \in Seq(LoadOf) /\ <<>> \in Seq(Photo) /\ Len(<<>>) = 0
    BY EmptySeq
  <1>3. GalleryTypes
    BY <1>1, <1>2 DEF GalleryTypes
  <1>4. FilesInv
    BY <1>1, <1>2 DEF FilesInv
  <1>5. G!Clear
    BY <1>1, <1>2 DEF G!Clear
  <1>6. {photos[i].cid : i \in 1 .. Len(photos)} = {}
    BY <1>1, <1>2
  <1>7. AloneInv
    BY <1>1, <1>2, <1>6 DEF AloneInv, ShownBut
  <1> QED BY <1>3, <1>4, <1>5, <1>7 DEF GalleryInv

(* What is known of loads and photos, one by one. *)
LEMMA GalleryElements ==
  ASSUME GalleryTypes
  PROVE  /\ Len(loads) \in Nat /\ (loads = <<>> <=> Len(loads) = 0)
         /\ \A i \in 1 .. Len(loads) :
              /\ loads[i] \in LoadOf /\ loads[i].todo \subseteq Record
              /\ loads[i].did \in DIDs \cup {None} /\ loads[i].read \in BOOLEAN
         /\ Len(photos) \in Nat
         /\ \A i \in 1 .. Len(photos) : photos[i] \in Photo /\ photos[i].cid \in Nat
  <1>1. loads \in Seq(LoadOf) /\ photos \in Seq(Photo)
    BY DEF GalleryTypes
  <1>2. Len(loads) \in Nat /\ (loads = <<>> <=> Len(loads) = 0) /\ Len(photos) \in Nat
    BY <1>1, LenProperties, EmptySeq
  <1>3. \A i \in 1 .. Len(loads) : loads[i] \in LoadOf
    BY <1>1, ElementOfSeq
  <1>4. \A i \in 1 .. Len(photos) : photos[i] \in Photo
    BY <1>1, ElementOfSeq
  <1> QED BY <1>2, <1>3, <1>4 DEF LoadOf, Photo

(* The client and the identity say nothing of what is shown. *)
LEMMA GalleryUnchanged ==
  ASSUME GalleryInv, userDID' \in DIDs \cup {None}, fula' \in Nat, clients' \in Nat,
         UNCHANGED <<cids, plain, records, uploads, loads, photos, due, alone>>
  PROVE  GalleryInv'
  <1>1. GalleryTypes'
    BY DEF GalleryInv, GalleryTypes
  <1>2. FilesInv'
    BY DEF GalleryInv, FilesInv
  <1>3. G!Clear'
    BY DEF GalleryInv, G!Clear
  <1>4. AloneInv'
    <2>1. (Coming(loads[1]))' = Coming(loads[1])
      BY DEF Coming, G!Readable
    <2>2. ShownBut(Coming(loads[1])) => ShownBut(Coming(loads[1]))'
      BY <2>1 DEF ShownBut
    <2>3. ShownBut({}) => ShownBut({})'
      BY DEF ShownBut
    <2> QED BY <2>2, <2>3 DEF GalleryInv, AloneInv
  <1> QED BY <1>1, <1>2, <1>3, <1>4 DEF GalleryInv

(* A load that starts is undisturbed if nothing else is under way. *)
LEMMA EffectOfLoadStep ==
  ASSUME GalleryInv, G!EffectOfLoad,
         userDID' \in DIDs \cup {None}, fula' \in Nat, clients' \in Nat,
         UNCHANGED <<cids, plain, records, uploads, photos, due>>
  PROVE  GalleryInv'
  <1>0. GalleryTypes /\ FilesInv /\ G!Clear /\ AloneInv
    BY DEF GalleryInv
  <1>1. CASE UNCHANGED <<loads, alone>>
    BY <1>1, GalleryUnchanged
  <1>2. CASE ~UNCHANGED <<loads, alone>>
    <2> DEFINE l == [did |-> userDID', fula |-> fula', read |-> FALSE, todo |-> {}]
    <2>1. loads' = Append(loads, l) /\ alone' = (loads = <<>> /\ uploads = {})
      BY <1>2 DEF G!EffectOfLoad
    <2>2. l \in LoadOf /\ l.read = FALSE /\ l.todo = {}
      BY DEF LoadOf
    <2> HIDE DEF l
    <2>3. /\ loads' \in Seq(LoadOf) /\ loads' # <<>> /\ Len(loads') = Len(loads) + 1
          /\ \A i \in 1 .. Len(loads) : loads'[i] = loads[i]
          /\ loads'[Len(loads) + 1] = l
      BY <1>0, <2>1, <2>2, AppendProperties DEF GalleryTypes
    <2>4. Len(loads) \in Nat /\ (loads = <<>> <=> Len(loads) = 0)
      BY <1>0, GalleryElements
    <2>5. \A i \in 1 .. Len(loads') : loads'[i].todo \subseteq records
      <3>1. \A i \in 1 .. Len(loads') : i \in 1 .. Len(loads) \/ i = Len(loads) + 1
        BY <2>3, <2>4
      <3> QED BY <1>0, <2>2, <2>3, <3>1 DEF FilesInv
    <2>6. GalleryTypes'
      BY <1>0, <2>1, <2>3 DEF GalleryTypes
    <2>7. FilesInv'
      BY <1>0, <2>5 DEF FilesInv
    <2>8. G!Clear'
      BY <1>0 DEF G!Clear
    <2>9. AloneInv'
      <3> SUFFICES ASSUME loads = <<>>, uploads = {} PROVE AloneInv'
        BY <2>1 DEF AloneInv
      <3>1. Len(loads') = 1 /\ loads'[1] = l
        BY <2>3, <2>4
      <3> QED BY <2>2, <2>3, <3>1 DEF AloneInv
    <2> QED BY <2>6, <2>7, <2>8, <2>9 DEF GalleryInv
  <1> QED BY <1>1, <1>2

(* A load that is over is gone, and no other has come. *)
LEMMA RemovedLoads ==
  ASSUME GalleryTypes, NEW i \in 1 .. Len(loads), G!Remove(i)
  PROVE  /\ loads' \in Seq(LoadOf) /\ Len(loads') = Len(loads) - 1
         /\ \A j \in 1 .. Len(loads') : \E k \in 1 .. Len(loads) : loads'[j] = loads[k]
  BY WithoutOne DEF GalleryTypes, G!Remove

(* A step of one load leaves the others as they are. *)
LEMMA OneLoad ==
  ASSUME GalleryInv, NEW i \in 1 .. Len(loads), NEW x \in LoadOf, x.todo \subseteq records,
         loads' = [loads EXCEPT ![i] = x], records' = records
  PROVE  /\ loads' \in Seq(LoadOf) /\ Len(loads') = Len(loads) /\ loads' # <<>>
         /\ \A j \in 1 .. Len(loads') : loads'[j].todo \subseteq records'
         /\ alone => /\ i = 1 /\ loads'[1] = x /\ Len(loads) = 1 /\ uploads = {}
                     /\ (loads[1].read => ShownBut(Coming(loads[1])))
  <1>1. loads \in Seq(LoadOf) /\ Len(loads) \in Nat /\ (loads = <<>> <=> Len(loads) = 0)
    BY GalleryElements DEF GalleryInv, GalleryTypes
  <1>2. /\ loads' \in Seq(LoadOf) /\ Len(loads') = Len(loads)
        /\ \A j \in 1 .. Len(loads) : loads'[j] = IF j = i THEN x ELSE loads[j]
    BY <1>1, ExceptSeq
  <1>3. loads # <<>> /\ loads' # <<>>
    BY <1>1, <1>2, EmptySeq
  <1>4. \A j \in 1 .. Len(loads') : loads'[j].todo \subseteq records'
    BY <1>2 DEF GalleryInv, FilesInv
  <1>5. ASSUME alone
        PROVE  /\ i = 1 /\ loads'[1] = x /\ Len(loads) = 1 /\ uploads = {}
               /\ (loads[1].read => ShownBut(Coming(loads[1])))
    <2>1. /\ Len(loads) <= 1 /\ uploads = {} /\ (loads[1].read => ShownBut(Coming(loads[1])))
      BY <1>3, <1>5 DEF GalleryInv, AloneInv
    <2>2. Len(loads) = 1 /\ i = 1
      <3>1. \A n \in Nat : n # 0 /\ n <= 1 /\ i \in 1 .. n => n = 1 /\ i = 1
        OBVIOUS
      <3> QED BY <1>1, <1>3, <2>1, <3>1
    <2> QED BY <1>2, <2>1, <2>2
  <1> QED BY <1>2, <1>3, <1>4, <1>5

(* The records have come: everything readable is due and nothing shown. *)
LEMMA LoadReadStep ==
  ASSUME GalleryInv, NEW i \in 1 .. Len(loads), G!LoadRead(i)
  PROVE  GalleryInv'
  <1> DEFINE x == [loads[i] EXCEPT !.read = TRUE, !.todo = records]
  <1>0. GalleryTypes /\ FilesInv /\ loads[i] \in LoadOf
    BY GalleryElements DEF GalleryInv
  <1>1. /\ loads' = [loads EXCEPT ![i] = x] /\ photos' = <<>>
        /\ due' = {r.cid : r \in {q \in records : G!Readable(q, loads[i].did)}}
        /\ UNCHANGED <<userDID, fula, clients, cids, plain, records, uploads, alone>>
    <2>1. loads' = [loads EXCEPT ![i] = x]
      BY DEF G!LoadRead
    <2> HIDE DEF x
    <2> QED BY <2>1 DEF G!LoadRead, G!app, G!box
  <1>2. x \in LoadOf /\ x.read = TRUE /\ x.todo = records /\ x.did = loads[i].did
    BY <1>0 DEF LoadOf, GalleryTypes
  <1> HIDE DEF x
  <1>3. /\ loads' \in Seq(LoadOf) /\ Len(loads') = Len(loads) /\ loads' # <<>>
        /\ \A j \in 1 .. Len(loads') : loads'[j].todo \subseteq records'
        /\ alone => i = 1 /\ loads'[1] = x /\ Len(loads) = 1 /\ uploads = {}
    BY <1>1, <1>2, OneLoad
  <1>4. photos' \in Seq(Photo) /\ Len(photos') = 0
    BY <1>1, EmptySeq
  <1>5. GalleryTypes'
    BY <1>0, <1>1, <1>3, <1>4 DEF GalleryTypes
  <1>6. due' \subseteq 1 .. cids
    BY <1>0, <1>1 DEF FilesInv
  <1>7. FilesInv'
    BY <1>0, <1>1, <1>3, <1>6 DEF FilesInv
  <1>8. G!Clear'
    BY <1>4 DEF G!Clear
  <1>9. ASSUME alone PROVE ShownBut(Coming(loads[1]))'
    <2>1. Coming(x) = due'
      BY <1>1, <1>2 DEF Coming
    <2>2. (Coming(loads[1]))' = due'
      BY <1>1, <1>3, <1>9, <2>1 DEF Coming, G!Readable
    <2>3. {photos'[j].cid : j \in 1 .. Len(photos')} = {}
      BY <1>4
    <2> QED BY <1>4, <2>2, <2>3 DEF ShownBut
  <1>10. AloneInv'
    BY <1>1, <1>3, <1>9 DEF AloneInv
  <1> QED BY <1>5, <1>7, <1>8, <1>10 DEF GalleryInv

(* A record whose key is for somebody else was not to come. *)
LEMMA SkipStep ==
  ASSUME GalleryInv, NEW i \in 1 .. Len(loads), NEW r \in loads[i].todo, G!Skip(i, r)
  PROVE  GalleryInv'
  <1> DEFINE x == [loads[i] EXCEPT !.todo = @ \ {r}]
  <1>0. GalleryTypes /\ FilesInv /\ loads[i] \in LoadOf /\ loads[i].todo \subseteq records
    BY GalleryElements DEF GalleryInv, FilesInv
  <1>1. /\ loads' = [loads EXCEPT ![i] = x] /\ ~G!Readable(r, loads[i].did)
        /\ UNCHANGED <<userDID, fula, clients, cids, plain, records, uploads, photos, due, alone>>
    <2>1. loads' = [loads EXCEPT ![i] = x]
      BY DEF G!Skip
    <2> HIDE DEF x
    <2> QED BY <2>1 DEF G!Skip, G!app, G!box, G!shown, G!Readable
  <1>2. x \in LoadOf /\ x.read = loads[i].read /\ x.todo = loads[i].todo \ {r} /\ x.did = loads[i].did
    BY <1>0 DEF LoadOf
  <1> HIDE DEF x
  <1>3. /\ loads' \in Seq(LoadOf) /\ Len(loads') = Len(loads) /\ loads' # <<>>
        /\ \A j \in 1 .. Len(loads') : loads'[j].todo \subseteq records'
        /\ alone => /\ i = 1 /\ loads'[1] = x /\ Len(loads) = 1 /\ uploads = {}
                    /\ (loads[1].read => ShownBut(Coming(loads[1])))
    BY <1>0, <1>1, <1>2, OneLoad
  <1>4. GalleryTypes'
    BY <1>0, <1>1, <1>3 DEF GalleryTypes
  <1>5. FilesInv'
    BY <1>0, <1>1, <1>3 DEF FilesInv
  <1>6. G!Clear'
    BY <1>1 DEF GalleryInv, G!Clear
  <1>7. Coming(x) = Coming(loads[i])
    <2>1. {q \in x.todo : G!Readable(q, x.did)} = {q \in loads[i].todo : G!Readable(q, loads[i].did)}
      BY <1>1, <1>2
    <2> QED BY <2>1 DEF Coming
  <1>8. AloneInv'
    <2> SUFFICES ASSUME alone PROVE AloneInv'
      BY <1>1 DEF AloneInv
    <2>1. (Coming(loads[1]))' = Coming(loads[1])
      BY <1>3, <1>7 DEF Coming, G!Readable
    <2>2. loads'[1].read => ShownBut(Coming(loads[1]))
      BY <1>2, <1>3
    <2>3. loads'[1].read => ShownBut(Coming(loads[1]))'
      BY <1>1, <2>1, <2>2 DEF ShownBut
    <2> QED BY <1>1, <1>3, <2>3 DEF AloneInv
  <1> QED BY <1>4, <1>5, <1>6, <1>8 DEF GalleryInv

(* A photo that was to come is shown, and is no longer to come. *)
LEMMA ShowPhotoStep ==
  ASSUME GalleryInv, NEW i \in 1 .. Len(loads), NEW r \in loads[i].todo, G!Show(i, r)
  PROVE  GalleryInv'
  <1> DEFINE x == [loads[i] EXCEPT !.todo = @ \ {r}]
             p == [cid |-> r.cid, clear |-> r.jwe # None \/ r.cid \in plain]
  <1>0. /\ GalleryTypes /\ FilesInv /\ loads[i] \in LoadOf /\ loads[i].todo \subseteq records
        /\ r \in records /\ r.cid \in Nat
    BY GalleryElements DEF GalleryInv, FilesInv, GalleryTypes, Record
  <1>1. /\ loads' = [loads EXCEPT ![i] = x] /\ G!Readable(r, loads[i].did)
        /\ photos' = Append(photos, p)
        /\ UNCHANGED <<userDID, fula, clients, cids, plain, records, uploads, due, alone>>
    <2>1. loads' = [loads EXCEPT ![i] = x]
      BY DEF G!Show
    <2> HIDE DEF x
    <2> QED BY <2>1 DEF G!Show, G!app, G!box
  <1>2. x \in LoadOf /\ x.read = loads[i].read /\ x.todo = loads[i].todo \ {r} /\ x.did = loads[i].did
    BY <1>0 DEF LoadOf
  <1>3. p \in Photo /\ p.cid = r.cid /\ p.clear = TRUE
    BY <1>0 DEF Photo, FilesInv
  <1> HIDE DEF x, p
  <1>4. /\ loads' \in Seq(LoadOf) /\ Len(loads') = Len(loads) /\ loads' # <<>>
        /\ \A j \in 1 .. Len(loads') : loads'[j].todo \subseteq records'
        /\ alone => /\ i = 1 /\ loads'[1] = x /\ Len(loads) = 1 /\ uploads = {}
                    /\ (loads[1].read => ShownBut(Coming(loads[1])))
    BY <1>0, <1>1, <1>2, OneLoad
  <1>5. /\ photos' \in Seq(Photo) /\ Len(photos') = Len(photos) + 1 /\ Len(photos) \in Nat
        /\ \A j \in 1 .. Len(photos) : photos'[j] = photos[j]
        /\ photos'[Len(photos) + 1] = p
    BY <1>0, <1>1, <1>3, AppendProperties, LenProperties DEF GalleryTypes
  <1>6. \A j \in 1 .. Len(photos') : j \in 1 .. Len(photos) \/ j = Len(photos) + 1
    BY <1>5
  <1>7. GalleryTypes'
    BY <1>0, <1>1, <1>4, <1>5 DEF GalleryTypes
  <1>8. FilesInv'
    BY <1>0, <1>1, <1>4 DEF FilesInv
  <1>9. G!Clear'
    BY <1>3, <1>5, <1>6 DEF GalleryInv, G!Clear
  <1>10. /\ Coming(x) = Coming(loads[i]) \ {r.cid} /\ r.cid \in Coming(loads[i])
    <2>1. \A q \in loads[i].todo : q.cid = r.cid => q = r
      BY <1>0 DEF FilesInv
    <2> QED BY <1>1, <1>2, <2>1 DEF Coming
  <1>11. ASSUME alone, loads'[1].read PROVE ShownBut(Coming(loads[1]))'
    <2>1. (Coming(loads[1]))' = Coming(x)
      BY <1>4, <1>11 DEF Coming, G!Readable
    <2>2. ShownBut(Coming(loads[i])) /\ Coming(loads[i]) \subseteq due
      BY <1>2, <1>4, <1>11 DEF ShownBut
    <2> DEFINE n == Len(photos)
               rest == Coming(loads[i])
    <2>3. /\ {photos[j].cid : j \in 1 .. n} = due \ rest
          /\ \A j, k \in 1 .. n : photos[j].cid = photos[k].cid => j = k
      BY <2>2 DEF ShownBut
    <2>4. \A j \in 1 .. n : photos'[j].cid = photos[j].cid /\ photos[j].cid # r.cid
      BY <1>5, <1>10, <2>3
    <2> HIDE DEF n, rest
    <2>5. photos'[n + 1].cid = r.cid /\ n \in Nat /\ Len(photos') = n + 1
      BY <1>3, <1>5 DEF n
    <2>6. {photos'[j].cid : j \in 1 .. Len(photos')} = {photos[j].cid : j \in 1 .. n} \cup {r.cid}
      <3>1. \A j \in 1 .. n : j \in 1 .. Len(photos')
        BY <2>5
      <3>2. n + 1 \in 1 .. Len(photos')
        BY <2>5
      <3>3. \A j \in 1 .. Len(photos') : j \in 1 .. n \/ j = n + 1
        BY <2>5
      <3> QED BY <2>4, <2>5, <3>1, <3>2, <3>3
    <2>7. {photos'[j].cid : j \in 1 .. Len(photos')} = due \ Coming(x)
      BY <1>10, <2>2, <2>3, <2>6 DEF rest
    <2>8. \A j, k \in 1 .. Len(photos') : photos'[j].cid = photos'[k].cid => j = k
      BY <1>6, <2>3, <2>4, <2>5 DEF n
    <2>9. Coming(x) \subseteq due
      BY <1>10, <2>2
    <2> QED BY <1>1, <2>1, <2>7, <2>8, <2>9 DEF ShownBut
  <1>12. AloneInv'
    BY <1>1, <1>4, <1>11 DEF AloneInv
  <1> QED BY <1>7, <1>8, <1>9, <1>12 DEF GalleryInv

(* A load that ends has nothing left to show, or is the end of what is known of
   the gallery. *)
LEMMA LoadEndStep ==
  ASSUME GalleryInv, NEW i \in 1 .. Len(loads),
         G!LoadReadNothing(i) \/ G!LoadDone(i) \/ G!LoadFails(i)
  PROVE  GalleryInv'
  <1>0. /\ GalleryTypes /\ FilesInv /\ AloneInv /\ G!Clear
        /\ Len(loads) \in Nat /\ (loads = <<>> <=> Len(loads) = 0)
    BY GalleryElements DEF GalleryInv
  <1>1. G!Remove(i) /\ UNCHANGED <<userDID, fula, clients, cids, plain, records, uploads>>
    BY DEF G!LoadReadNothing, G!LoadDone, G!LoadFails, G!app, G!box
  <1>2. /\ loads' \in Seq(LoadOf) /\ Len(loads') = Len(loads) - 1
        /\ \A j \in 1 .. Len(loads') : \E k \in 1 .. Len(loads) : loads'[j] = loads[k]
    BY <1>0, <1>1, RemovedLoads
  <1>3. \A j \in 1 .. Len(loads') : loads'[j].todo \subseteq records
    BY <1>0, <1>2 DEF FilesInv
  <1>4. alone => /\ loads' = <<>> /\ uploads = {} /\ i = 1
                 /\ (loads[1].read => ShownBut(Coming(loads[1])))
    <2> SUFFICES ASSUME alone PROVE /\ loads' = <<>> /\ uploads = {} /\ i = 1
                                    /\ (loads[1].read => ShownBut(Coming(loads[1])))
      OBVIOUS
    <2>1. \A n \in Nat : i \in 1 .. n /\ n <= 1 => n = 1 /\ i = 1
      OBVIOUS
    <2>2. Len(loads) = 1 /\ i = 1
      BY <1>0, <2>1 DEF AloneInv
    <2>3. Len(loads') = 0
      BY <1>2, <2>2
    <2>4. loads' = <<>>
      BY <1>2, <2>3, EmptySeq
    <2> QED BY <1>0, <2>2, <2>4 DEF AloneInv
  <1>5. CASE G!LoadReadNothing(i)
    <2>1. photos' = <<>> /\ due' = {} /\ alone' = alone
      BY <1>5 DEF G!LoadReadNothing
    <2>2. photos' \in Seq(Photo) /\ Len(photos') = 0
      BY <2>1, EmptySeq
    <2>3. GalleryTypes'
      BY <1>0, <1>1, <1>2, <2>1, <2>2 DEF GalleryTypes
    <2>4. FilesInv'
      BY <1>0, <1>1, <1>3, <2>1 DEF FilesInv
    <2>5. {photos'[j].cid : j \in 1 .. Len(photos')} = {}
      BY <2>2
    <2>6. ShownBut({})'
      BY <2>1, <2>2, <2>5 DEF ShownBut
    <2>7. alone => Len(loads') <= 1
      BY <1>4, EmptySeq
    <2>8. AloneInv'
      BY <1>1, <1>4, <2>1, <2>6, <2>7 DEF AloneInv
    <2> QED BY <2>2, <2>3, <2>4, <2>8 DEF GalleryInv, G!Clear
  <1>6. CASE G!LoadDone(i)
    <2>1. /\ loads[i].read /\ loads[i].todo = {} /\ UNCHANGED <<photos, due, alone>>
      BY <1>6 DEF G!LoadDone, G!shown
    <2>2. Coming(loads[i]) = {}
      BY <2>1 DEF Coming
    <2>3. alone => ShownBut({})'
      BY <1>4, <2>1, <2>2 DEF ShownBut
    <2>4. GalleryTypes' /\ FilesInv' /\ G!Clear'
      BY <1>0, <1>1, <1>2, <1>3, <2>1 DEF GalleryTypes, FilesInv, G!Clear
    <2>5. alone => Len(loads') <= 1
      BY <1>4, EmptySeq
    <2>6. AloneInv'
      BY <1>1, <1>4, <2>1, <2>3, <2>5 DEF AloneInv
    <2> QED BY <2>4, <2>6 DEF GalleryInv
  <1>7. CASE G!LoadFails(i)
    <2>1. alone' = FALSE /\ UNCHANGED <<photos, due>>
      BY <1>7 DEF G!LoadFails, G!shown
    <2> QED BY <1>0, <1>1, <1>2, <1>3, <2>1 DEF GalleryInv, GalleryTypes, FilesInv, G!Clear, AloneInv
  <1> QED BY <1>5, <1>6, <1>7

(* A file that is to be uploaded has a cid that was not due. *)
LEMMA OnUploadStep ==
  ASSUME GalleryInv, G!OnUpload
  PROVE  GalleryInv'
  <1> DEFINE u == [did |-> userDID, fula |-> fula, cid |-> cids + 1, stage |-> "sending"]
  <1>0. GalleryTypes /\ FilesInv /\ AloneInv /\ cids \in Nat /\ Len(loads) \in Nat
    BY GalleryElements DEF GalleryInv, GalleryTypes
  <1>1. /\ cids' = cids + 1 /\ uploads' = uploads \cup {u} /\ alone' = (alone /\ loads = <<>>)
        /\ UNCHANGED <<userDID, fula, clients, plain, records, loads, photos, due>>
    BY DEF G!OnUpload, G!app, G!shown
  <1>2. u \in Upload /\ u.cid = cids + 1 /\ u.stage = "sending"
    BY <1>0 DEF Upload, GalleryTypes
  <1> HIDE DEF u
  <1>3. /\ \A v \in uploads : v.cid # u.cid
        /\ \A r \in records : r.cid # u.cid
        /\ u.cid \notin due /\ u.cid \in 1 .. cids + 1
    BY <1>0, <1>2 DEF FilesInv
  <1>4. GalleryTypes'
    BY <1>0, <1>1, <1>2 DEF GalleryTypes
  <1>5. FilesInv'
    BY <1>0, <1>1, <1>2, <1>3 DEF FilesInv
  <1>6. G!Clear'
    BY <1>1 DEF GalleryInv, G!Clear
  <1>7. AloneInv'
    BY <1>0, <1>1, <1>3 DEF AloneInv, ShownBut
  <1> QED BY <1>4, <1>5, <1>6, <1>7 DEF GalleryInv

(* Its record has the key, encrypted for somebody. *)
LEMMA CreateRecordStep ==
  ASSUME GalleryInv, NEW u \in uploads, G!CreateRecord(u)
  PROVE  GalleryInv'
  <1> DEFINE r == [cid |-> u.cid, jwe |-> u.did]
             v == [u EXCEPT !.stage = "created"]
  <1>0. GalleryTypes /\ FilesInv /\ AloneInv /\ u \in Upload
    BY DEF GalleryInv, GalleryTypes
  <1>1. /\ u.stage = "sending" /\ u.did # None /\ records' = records \cup {r}
        /\ uploads' = (uploads \ {u}) \cup {v}
        /\ UNCHANGED <<userDID, fula, clients, cids, plain, loads, photos, due, alone>>
    BY DEF G!CreateRecord, G!Proceed, G!app, G!shown
  <1>2. /\ r \in Record /\ r.cid = u.cid /\ r.jwe # None
        /\ v \in Upload /\ v.cid = u.cid /\ v.stage = "created"
    BY <1>0, <1>1 DEF Upload, Record
  <1> HIDE DEF r, v
  <1>3. \A q \in records : q.cid # r.cid
    BY <1>0, <1>1, <1>2 DEF FilesInv
  <1>4. \A w \in uploads \ {u} : w.cid # u.cid
    BY <1>0 DEF FilesInv
  <1>5. GalleryTypes'
    BY <1>0, <1>1, <1>2 DEF GalleryTypes
  <1>6. FilesInv'
    <2>1. /\ \A q \in records' : q.cid \in 1 .. cids' /\ (q.jwe = None => q.cid \in plain')
          /\ \A p, q \in records' : p.cid = q.cid => p = q
      BY <1>0, <1>1, <1>2, <1>3 DEF FilesInv
    <2>2. /\ \A w \in uploads' : w.cid \in 1 .. cids'
          /\ \A w, x \in uploads' : w.cid = x.cid => w = x
      BY <1>0, <1>1, <1>2, <1>4 DEF FilesInv
    <2>3. \A w \in uploads' : w.stage = "sending" => \A q \in records' : q.cid # w.cid
      <3> SUFFICES ASSUME NEW w \in uploads', w.stage = "sending", NEW q \in records'
                   PROVE  q.cid # w.cid
        OBVIOUS
      <3>1. w \in uploads \ {u}
        BY <1>1, <1>2
      <3> QED BY <1>0, <1>1, <1>2, <1>4, <3>1 DEF FilesInv
    <2>4. \A i \in 1 .. Len(loads') : loads'[i].todo \subseteq records'
      BY <1>0, <1>1 DEF FilesInv
    <2> QED BY <1>0, <1>1, <2>1, <2>2, <2>3, <2>4 DEF FilesInv
  <1>7. G!Clear'
    BY <1>1 DEF GalleryInv, G!Clear
  <1>8. AloneInv'
    BY <1>0, <1>1, <1>2 DEF AloneInv, ShownBut, Coming, G!Readable
  <1> QED BY <1>5, <1>6, <1>7, <1>8 DEF GalleryInv

(* A photo that is uploaded is shown before the others, and was not due. *)
LEMMA UploadedStep ==
  ASSUME GalleryInv, NEW u \in uploads, G!Uploaded(u)
  PROVE  GalleryInv'
  <1> DEFINE p == [cid |-> u.cid, clear |-> TRUE]
             n == Len(photos)
  <1>0. /\ GalleryTypes /\ FilesInv /\ AloneInv /\ u \in Upload /\ u.cid \in 1 .. cids
        /\ photos \in Seq(Photo) /\ n \in Nat
    BY GalleryElements DEF GalleryInv, GalleryTypes, FilesInv
  <1>1. /\ uploads' = uploads \ {u} /\ photos' = <<p>> \o photos /\ due' = due \cup {u.cid}
        /\ UNCHANGED <<userDID, fula, clients, cids, plain, records, loads, alone>>
    BY DEF G!Uploaded, G!app, G!box
  <1>2. p \in Photo /\ p.cid = u.cid /\ p.clear = TRUE
    BY <1>0 DEF Photo, Upload
  <1> HIDE DEF p
  <1>3. /\ photos' \in Seq(Photo) /\ Len(photos') = n + 1
        /\ photos'[1] = p /\ \A i \in 2 .. n + 1 : photos'[i] = photos[i - 1]
    <2>1. <<p>> \in Seq(Photo) /\ Len(<<p>>) = 1 /\ <<p>>[1] = p
      BY <1>2
    <2>2. /\ <<p>> \o photos \in Seq(Photo) /\ Len(<<p>> \o photos) = Len(<<p>>) + n
          /\ \A i \in 1 .. Len(<<p>>) + n : (<<p>> \o photos)[i] =
               IF i <= Len(<<p>>) THEN <<p>>[i] ELSE photos[i - Len(<<p>>)]
      BY <1>0, <2>1, ConcatProperties
    <2> HIDE DEF n
    <2>3. 1 \in 1 .. 1 + n /\ \A i \in 2 .. n + 1 : i \in 1 .. 1 + n /\ ~(i <= 1)
      BY <1>0
    <2> QED BY <1>0, <1>1, <2>1, <2>2, <2>3
  <1> HIDE DEF n
  <1>4. \A i \in 1 .. n + 1 : i = 1 \/ (i \in 2 .. n + 1 /\ i - 1 \in 1 .. n)
    BY <1>0
  <1>5. GalleryTypes'
    BY <1>0, <1>1, <1>3 DEF GalleryTypes
  <1>6. FilesInv'
    BY <1>0, <1>1 DEF FilesInv
  <1>7. G!Clear'
    BY <1>2, <1>3, <1>4 DEF GalleryInv, G!Clear, n
  <1>8. AloneInv'
    <2> SUFFICES ASSUME alone PROVE AloneInv'
      BY <1>1 DEF AloneInv
    <2>1. /\ Len(loads) <= 1 /\ loads = <<>> /\ ShownBut({}) /\ \A v \in uploads : v.cid \notin due
      BY <1>0 DEF AloneInv
    <2>2. {photos[i].cid : i \in 1 .. n} = due
      BY <2>1 DEF ShownBut, n
    <2>3. \A v \in uploads' : v.cid \notin due'
      BY <1>0, <1>1, <2>1 DEF FilesInv
    <2>4. {photos'[i].cid : i \in 1 .. n + 1} = due'
      <3>1. \A j \in 1 .. n : photos'[j + 1] = photos[j] /\ j + 1 \in 1 .. n + 1
        <4>1. \A j \in 1 .. n : j + 1 \in 2 .. n + 1 /\ (j + 1) - 1 = j /\ j + 1 \in 1 .. n + 1
          BY <1>0
        <4> QED BY <1>3, <4>1
      <3>2. 1 \in 1 .. n + 1
        BY <1>0
      <3>3. ASSUME NEW i \in 1 .. n + 1 PROVE photos'[i].cid \in due'
        BY <1>1, <1>2, <1>3, <1>4, <2>2
      <3>4. ASSUME NEW c \in due' PROVE \E i \in 1 .. n + 1 : photos'[i].cid = c
        <4>1. CASE c = u.cid
          BY <1>2, <1>3, <3>2, <4>1
        <4>2. CASE c \in due
          <5>1. PICK j \in 1 .. n : photos[j].cid = c
            BY <2>2, <4>2
          <5> QED BY <3>1, <5>1
        <4> QED BY <1>1, <4>1, <4>2
      <3> QED BY <3>3, <3>4
    <2>5. \A i, j \in 1 .. n + 1 : photos'[i].cid = photos'[j].cid => i = j
      <3> SUFFICES ASSUME NEW i \in 1 .. n + 1, NEW j \in 1 .. n + 1,
                          photos'[i].cid = photos'[j].cid
                   PROVE  i = j
        OBVIOUS
      <3>1. \A k \in 2 .. n + 1 : photos'[k].cid \in due /\ photos'[k] = photos[k - 1]
        BY <1>3, <1>4, <2>2
      <3>2. u.cid \notin due /\ photos'[1].cid = u.cid
        BY <1>2, <1>3, <2>1
      <3>3. CASE i = 1 \/ j = 1
        BY <1>4, <3>1, <3>2, <3>3
      <3>4. CASE i \in 2 .. n + 1 /\ j \in 2 .. n + 1
        <4>1. i - 1 \in 1 .. n /\ j - 1 \in 1 .. n /\ photos[i - 1].cid = photos[j - 1].cid
          BY <1>0, <3>1, <3>4
        <4>2. i - 1 = j - 1
          BY <2>1, <4>1 DEF ShownBut, n
        <4> QED BY <1>0, <4>2
      <3> QED BY <1>4, <3>3, <3>4
    <2> QED BY <1>1, <1>3, <2>1, <2>3, <2>4, <2>5 DEF AloneInv, ShownBut
  <1> QED BY <1>5, <1>6, <1>7, <1>8 DEF GalleryInv

(* An upload of another program: it has a cid of its own. *)
LEMMA OtherUploadStep ==
  ASSUME GalleryInv, G!SimpleUpload \/ G!OtherUpload
  PROVE  GalleryInv'
  <1>0. GalleryTypes /\ FilesInv /\ AloneInv /\ cids \in Nat
    BY DEF GalleryInv, GalleryTypes
  <1>1. PICK r \in Record :
          /\ cids' = cids + 1 /\ r.cid = cids + 1 /\ records' = records \cup {r}
          /\ plain \subseteq plain' /\ (r.jwe = None => r.cid \in plain')
          /\ UNCHANGED <<userDID, fula, clients, loads, uploads, photos, due, alone>>
    <2>1. CASE G!SimpleUpload
      <3> DEFINE r == [cid |-> cids + 1, jwe |-> None]
      <3>1. r \in Record
        BY <1>0 DEF Record
      <3> QED BY <2>1, <3>1 DEF G!SimpleUpload, G!app, G!shown
    <2>2. CASE G!OtherUpload
      <3> DEFINE r == [cid |-> cids + 1, jwe |-> Uploader]
      <3>1. r \in Record
        BY <1>0 DEF Record
      <3> QED BY <2>2, <3>1, AppsAssumption DEF G!OtherUpload, G!app, G!shown
    <2> QED BY <2>1, <2>2
  <1>2. /\ \A q \in records : q.cid # r.cid
        /\ \A u \in uploads : u.cid # r.cid
        /\ \A c \in 1 .. cids : c \in 1 .. cids + 1
    BY <1>0, <1>1 DEF FilesInv
  <1>3. GalleryTypes'
    BY <1>0, <1>1 DEF GalleryTypes
  <1>4. FilesInv'
    BY <1>0, <1>1, <1>2 DEF FilesInv
  <1>5. G!Clear'
    BY <1>1 DEF GalleryInv, G!Clear
  <1>6. AloneInv'
    BY <1>0, <1>1 DEF AloneInv, ShownBut, Coming, G!Readable
  <1> QED BY <1>3, <1>4, <1>5, <1>6 DEF GalleryInv

(* Every step of the gallery keeps the invariant. *)
LEMMA GalleryStep ==
  ASSUME GalleryInv, G!Next
  PROVE  GalleryInv'
  <1>0. GalleryTypes /\ FilesInv /\ AloneInv
    BY DEF GalleryInv
  <1>1. CASE (\E did \in DIDs : G!OnDIDSet(did)) \/ G!OnStatus
    BY <1>0, <1>1, EffectOfLoadStep DEF G!OnDIDSet, G!OnStatus, G!box, G!shown, GalleryTypes
  <1>2. CASE G!OnSet \/ G!ClientCreated \/ G!ClientFails \/ G!OnSetting
    <2>1. /\ userDID' = userDID /\ fula' \in Nat /\ clients' \in Nat
          /\ UNCHANGED <<cids, plain, records, uploads, loads, photos, due, alone>>
      BY <1>0, <1>2 DEF G!OnSet, G!ClientCreated, G!ClientFails, G!OnSetting, G!box, G!shown,
         GalleryTypes
    <2> QED BY <1>0, <2>1, GalleryUnchanged DEF GalleryTypes
  <1>3. ASSUME NEW i \in 1 .. Len(loads), G!Load(i) PROVE GalleryInv'
    BY <1>3, LoadReadStep, SkipStep, ShowPhotoStep, LoadEndStep DEF G!Load
  <1>4. ASSUME NEW u \in uploads, G!UploadFails(u) PROVE GalleryInv'
    <2>1. /\ uploads' = uploads \ {u}
          /\ UNCHANGED <<userDID, fula, clients, cids, plain, records, loads, photos, due, alone>>
      BY <1>4 DEF G!UploadFails, G!app, G!box, G!shown
    <2>2. GalleryTypes' /\ FilesInv'
      BY <1>0, <2>1 DEF GalleryTypes, FilesInv
    <2>3. AloneInv'
      BY <1>0, <2>1 DEF AloneInv, ShownBut, Coming, G!Readable
    <2> QED BY <2>1, <2>2, <2>3 DEF GalleryInv, G!Clear
  <1> QED
    BY <1>1, <1>2, <1>3, <1>4, OnUploadStep, CreateRecordStep, UploadedStep, OtherUploadStep
       DEF G!Next, G!Upload

(* A gallery at rest, whose last load neither overlapped another load or an
   upload nor broke off, shows every photo that its identity could read then or
   that was uploaded since, each once and nothing else; and no interleaving of
   signing in and uploading ever shows a file that is still encrypted. *)
THEOREM GalleryIsRightHolds == AppsSpec => []GalleryIsRight
  <1>1. AppsInit => GalleryInv
    BY GalleryInitially DEF AppsInit
  <1>2. ASSUME GalleryInv, [AppsNext]_allVars PROVE GalleryInv'
    <2>1. CASE G!Next
      BY <1>2, <2>1, GalleryStep
    <2>2. CASE UNCHANGED galleryVars
      BY <1>2, <2>2, GalleryUnchanged DEF galleryVars, GalleryInv, GalleryTypes
    <2> QED BY <1>2, <2>1, <2>2 DEF AppsNext, Cipher, SignIn, Photos, Syncing, allVars
  <1>3. ASSUME GalleryInv, alone, loads = <<>>
        PROVE  /\ {photos[i].cid : i \in 1 .. Len(photos)} = due
               /\ Cardinality(due) = Len(photos)
    <2> DEFINE n == Len(photos)
               f == [i \in 1 .. n |-> photos[i].cid]
    <2>1. /\ {photos[i].cid : i \in 1 .. n} = due /\ n \in Nat
          /\ \A i, j \in 1 .. n : photos[i].cid = photos[j].cid => i = j
      <3>1. ShownBut({}) /\ GalleryTypes
        BY <1>3 DEF GalleryInv, AloneInv
      <3>2. due \ {} = due
        OBVIOUS
      <3>3. /\ {photos[i].cid : i \in 1 .. Len(photos)} = due
            /\ \A i, j \in 1 .. Len(photos) : photos[i].cid = photos[j].cid => i = j
        BY <3>1, <3>2 DEF ShownBut
      <3>4. n \in Nat
        BY <3>1, LenProperties DEF GalleryTypes
      <3> QED BY <3>3, <3>4
    <2> HIDE DEF n
    <2>2. f \in Bijection(1 .. n, due)
      BY <2>1 DEF Bijection, Injection, Surjection, IsInjective
    <2>3. ExistsBijection(1 .. n, due)
      BY <2>2 DEF ExistsBijection
    <2>4. Cardinality(due) = n
      BY <2>1, <2>3, FS_CountingElements
    <2> QED BY <2>1, <2>4 DEF n
  <1>4. GalleryInv => GalleryIsRight
    <2> SUFFICES ASSUME GalleryInv PROVE GalleryIsRight
      OBVIOUS
    <2>1. G!Clear
      BY DEF GalleryInv
    <2>2. alone /\ loads = <<>> /\ uploads = {} =>
            /\ {photos[i].cid : i \in 1 .. Len(photos)} = due
            /\ Cardinality(due) = Len(photos)
      BY <1>3
    <2>3. G!GalleryIsRight
      BY <2>1, <2>2 DEF G!GalleryIsRight, Cardinality, G!Cardinality
    <2> QED BY <2>3 DEF GalleryIsRight
  <1> QED BY <1>1, <1>2, <1>4, PTL DEF AppsSpec

-----------------------------------------------------------------------------
(* Multiples and remainders *)

(* What % gives is a remainder, *)
LEMMA Remainder ==
  ASSUME NEW n \in Nat, NEW m \in Nat \ {0}
  PROVE  n % m \in 0 .. m - 1 /\ \E q \in Nat : n = q * m + (n % m)
  <1>1. n % m \in 0 .. m - 1
    OBVIOUS
  <1>2. n \div m \in Nat /\ n = m * (n \div m) + (n % m)
    OBVIOUS
  <1>3. \A q, r \in Int : n = m * q + r => n = q * m + r
    OBVIOUS
  <1>4. n = (n \div m) * m + (n % m)
    BY <1>1, <1>2, <1>3
  <1> QED BY <1>1, <1>2, <1>4

(* and the only one. *)
LEMMA RemainderIs ==
  ASSUME NEW m \in Nat \ {0}, NEW q \in Nat, NEW r \in 0 .. m - 1
  PROVE  (q * m + r) % m = r
  <1>1. PICK p \in Nat : q * m + r = p * m + ((q * m + r) % m)
    <2>1. q * m + r \in Nat
      OBVIOUS
    <2> QED BY <2>1, Remainder
  <1> DEFINE t == (q * m + r) % m
  <1>2. t \in 0 .. m - 1
    <2>1. q * m + r \in Nat
      OBVIOUS
    <2> QED BY <2>1, Remainder
  <1>3. q * m + r = p * m + t
    BY <1>1
  <1> HIDE DEF t
  <1>4. (p - q) * m = r - t /\ r - t > -m /\ r - t < m
    BY <1>2, <1>3
  <1>5. p - q = 0
    <2> DEFINE d == p - q
    <2>1. d \in Int /\ d * m = r - t
      BY <1>4
    <2> HIDE DEF d
    <2>2. CASE d >= 1
      <3>1. d * m >= m
        BY <2>1, <2>2
      <3> QED BY <3>1, <2>1, <1>2
    <2>3. CASE d <= -1
      <3>1. d * m <= -m
        BY <2>1, <2>3
      <3> QED BY <3>1, <2>1, <1>2
    <2> QED BY <2>1, <2>2, <2>3 DEF d
  <1>6. t = r
    BY <1>2, <1>4, <1>5
  <1> QED BY <1>6 DEF t

(* What is added to a multiple decides about the remainder, *)
LEMMA AddMultiple ==
  ASSUME NEW m \in Nat \ {0}, NEW s \in Nat, s % m = 0, NEW x \in Nat
  PROVE  (s + x) % m = x % m
  <1>1. PICK p \in Nat : s = p * m
    <2>1. PICK p \in Nat : s = p * m + (s % m)
      BY Remainder
    <2> QED BY <2>1
  <1>2. PICK q \in Nat : x = q * m + (x % m)
    BY Remainder
  <1> DEFINE r == x % m
  <1>3. r \in 0 .. m - 1
    BY Remainder
  <1>4. x = q * m + r
    BY <1>2
  <1> HIDE DEF r
  <1>5. p + q \in Nat /\ s + x = (p + q) * m + r
    BY <1>1, <1>3, <1>4
  <1>6. ((p + q) * m + r) % m = r
    BY <1>3, <1>5, RemainderIs
  <1> QED BY <1>5, <1>6 DEF r

(* a remainder has itself as its remainder, *)
LEMMA SmallRemainder ==
  ASSUME NEW m \in Nat \ {0}, NEW r \in 0 .. m - 1
  PROVE  r % m = r
  <1>1. (0 * m + r) % m = r
    BY RemainderIs
  <1> QED BY <1>1

(* and a multiple of a multiple is one. *)
LEMMA MultipleOfMultiple ==
  ASSUME NEW a \in Nat \ {0}, NEW b \in Nat \ {0}, b % a = 0, NEW s \in Nat, s % b = 0
  PROVE  s % a = 0
  <1>1. PICK p \in Nat : b = p * a
    <2>1. PICK p \in Nat : b = p * a + (b % a)
      BY Remainder
    <2> QED BY <2>1
  <1>2. PICK q \in Nat : s = q * b
    <2>1. PICK q \in Nat : s = q * b + (s % b)
      BY Remainder
    <2> QED BY <2>1
  <1>3. q * p \in Nat /\ s = (q * p) * a + 0
    BY <1>1, <1>2
  <1>4. ((q * p) * a + 0) % a = 0
    BY <1>3, RemainderIs
  <1> QED BY <1>3, <1>4

(* Between two multiples lies at least one whole. *)
LEMMA MultiplesApart ==
  ASSUME NEW m \in Nat \ {0}, NEW s \in Nat, s % m = 0, NEW t \in Nat, t % m = 0, s < t
  PROVE  s + m <= t
  <1>1. PICK p \in Nat : s = p * m
    <2>1. PICK p \in Nat : s = p * m + (s % m)
      BY Remainder
    <2> QED BY <2>1
  <1>2. PICK q \in Nat : t = q * m
    <2>1. PICK q \in Nat : t = q * m + (t % m)
      BY Remainder
    <2> QED BY <2>1
  <1>3. p < q
    <2> SUFFICES ASSUME q <= p PROVE FALSE
      OBVIOUS
    <2>1. q * m <= p * m
      OBVIOUS
    <2> QED BY <1>1, <1>2, <2>1
  <1>4. (p + 1) * m <= q * m
    BY <1>3
  <1> QED BY <1>1, <1>2, <1>4

-----------------------------------------------------------------------------
(* The encrypted file *)

Padding == Aes - (size % Aes)
Total == IF size > 0 /\ size % Block = 0 THEN size ELSE size + Padding

(* What the sender encrypts, what of it comes back, and its encrypted bytes. *)
Plaintext == [i \in 1 .. Total |-> IF i <= size THEN i ELSE -Padding]
Returned == IF Total % Block = 0 THEN Total ELSE size
Ciphertext == [i \in 1 .. Total |-> [plain |-> Plaintext[i], at |-> ((i - 1) % Block) + 1]]

CipherByte == [plain : Int, at : Int]

(* At the block that starts at startP the sender, and then the receiver, have
   dealt with everything before it. *)
EncryptedInv ==
  /\ size \in Nat /\ startP \in Nat /\ startP % Block = 0 /\ endP = startP + Block
  /\ phase \in {"send", "receive", "done"}
  /\ phase = "send" =>
       /\ cipher = SubSeq(Ciphertext, 1, IF startP < Total THEN startP ELSE Total)
       /\ res = <<>>
  /\ phase # "send" =>
       /\ cipher = Ciphertext
       /\ res = SubSeq(Plaintext, 1, IF startP < Total THEN startP ELSE Returned)
  /\ phase = "done" => startP >= Total

(* A padding is at least one byte, and makes whole blocks of AES. *)
LEMMA PaddingOf ==
  ASSUME size \in Nat
  PROVE  /\ Padding \in 1 .. Aes
         /\ (size + Padding) % Aes = 0
  <1>1. Aes \in Nat \ {0}
    BY SizesAssumption
  <1> DEFINE r == size % Aes
  <1>2. r \in 0 .. Aes - 1
    BY <1>1, Remainder
  <1>3. PICK q \in Nat : size = q * Aes + r
    BY <1>1, Remainder
  <1> HIDE DEF r
  <1>4. size + (Aes - r) = (q + 1) * Aes + 0
    BY <1>1, <1>2, <1>3
  <1>5. ((q + 1) * Aes + 0) % Aes = 0
    BY <1>1, RemainderIs
  <1> QED BY <1>1, <1>2, <1>4, <1>5 DEF Padding, r

(* What is encrypted: all of the file, in whole blocks of AES. *)
LEMMA TotalOf ==
  ASSUME size \in Nat
  PROVE  /\ Total \in Nat \ {0} /\ Total % Aes = 0
         /\ size <= Total /\ Returned \in Nat /\ size <= Returned /\ Returned <= Total
         /\ Total % Block # 0 => Total = size + Padding /\ Returned = size
         /\ Total % Block = 0 => Returned = Total
  <1>1. Aes \in Nat \ {0} /\ Block \in Nat \ {0} /\ Block % Aes = 0
    BY SizesAssumption
  <1>2. CASE size > 0 /\ size % Block = 0
    <2>1. size % Aes = 0
      BY <1>1, <1>2, MultipleOfMultiple
    <2> QED BY <1>1, <1>2, <2>1 DEF Total, Returned
  <1>3. CASE ~(size > 0 /\ size % Block = 0)
    <2>1. Total = size + Padding
      BY <1>3 DEF Total
    <2> QED BY <1>1, <2>1, PaddingOf DEF Returned
  <1> QED BY <1>2, <1>3

(* A loop that has passed the end of the file has passed its padding. *)
LEMMA TotalFits ==
  ASSUME size \in Nat, NEW s \in Nat, s % Block = 0, s > 0, size <= s
  PROVE  Total <= s
  <1>1. Aes \in Nat \ {0} /\ Block \in Nat \ {0} /\ Block % Aes = 0
    BY SizesAssumption
  <1>2. CASE size > 0 /\ size % Block = 0
    BY <1>2 DEF Total
  <1>3. CASE ~(size > 0 /\ size % Block = 0)
    <2>1. size < s
      BY <1>3
    <2>2. s % Aes = 0
      BY <1>1, MultipleOfMultiple
    <2> DEFINE r == size % Aes
               w == size - r
    <2>3. r \in 0 .. Aes - 1
      BY <1>1, Remainder
    <2>4. PICK q \in Nat : size = q * Aes + r
      BY <1>1, Remainder
    <2> HIDE DEF r
    <2>5. w \in Nat /\ w = q * Aes + 0
      BY <1>1, <2>3, <2>4
    <2>6. w % Aes = 0
      BY <1>1, <2>5, RemainderIs
    <2>7. w < s
      BY <2>1, <2>3, <2>5
    <2> HIDE DEF w
    <2>8. w + Aes <= s
      BY <1>1, <2>2, <2>5, <2>6, <2>7, MultiplesApart
    <2> QED BY <1>1, <1>3, <2>3, <2>8 DEF Total, Padding, r, w
  <1> QED BY <1>2, <1>3

(* The block that reaches beyond the end of the file is the last, and padded. *)
LEMMA LastBlock ==
  ASSUME size \in Nat, NEW s \in Nat, s % Block = 0, s < size \/ s = 0, size < s + Block
  PROVE  /\ Total = size + Padding
         /\ (size - s) % Aes = size % Aes
         /\ s <= size /\ Total <= s + Block
  <1>1. Aes \in Nat \ {0} /\ Block \in Nat \ {0} /\ Block % Aes = 0
    BY SizesAssumption
  <1>2. s <= size /\ size - s \in Nat /\ size - s \in 0 .. Block - 1 /\ s + (size - s) = size
    BY <1>1
  <1>3. s % Aes = 0
    BY <1>1, MultipleOfMultiple
  <1>4. (size - s) % Aes = size % Aes
    <2>1. (s + (size - s)) % Aes = (size - s) % Aes
      BY <1>1, <1>2, <1>3, AddMultiple
    <2> QED BY <1>2, <2>1
  <1>5. size % Block = size - s
    <2>1. (s + (size - s)) % Block = (size - s) % Block
      BY <1>1, <1>2, AddMultiple
    <2>2. (size - s) % Block = size - s
      BY <1>1, <1>2, SmallRemainder
    <2> QED BY <1>2, <2>1, <2>2
  <1>6. Total = size + Padding
    BY <1>2, <1>5 DEF Total
  <1>7. s + Block \in Nat /\ (s + Block) % Block = 0
    <2>1. (s + Block) % Block = Block % Block
      BY <1>1, AddMultiple
    <2>2. (1 * Block + 0) % Block = 0
      BY <1>1, RemainderIs
    <2> QED BY <1>1, <2>1, <2>2
  <1>8. Total <= s + Block
    BY <1>1, <1>7, TotalFits
  <1> QED BY <1>2, <1>4, <1>6, <1>8

(* The sizes of which the padding fills the block. *)
LEMMA FullBlocks ==
  ASSUME size \in Nat
  PROVE  IF FullAfterPadding(size) THEN Returned = size + Padding /\ Total = Returned
                                   ELSE Returned = size
  <1>1. Aes \in Nat \ {0} /\ Block \in Nat \ {0} /\ Block % Aes = 0 /\ Aes < Block
    BY SizesAssumption
  <1> DEFINE r == size % Block
             t == size - r
  <1>2. r \in 0 .. Block - 1
    BY <1>1, Remainder
  <1>3. PICK q \in Nat : size = q * Block + r
    BY <1>1, Remainder
  <1> HIDE DEF r
  <1>4. t \in Nat /\ t = q * Block + 0
    BY <1>1, <1>2, <1>3
  <1>5. t % Block = 0
    <2>1. (q * Block + 0) % Block = 0
      BY <1>1, RemainderIs
    <2> QED BY <1>4, <2>1
  <1>6. t % Aes = 0
    BY <1>1, <1>4, <1>5, MultipleOfMultiple
  <1>7. size = t + r /\ r \in Nat
    BY <1>2
  <1> HIDE DEF t
  <1>8. size % Aes = r % Aes
    BY <1>1, <1>2, <1>4, <1>6, <1>7, AddMultiple
  <1>9. CASE r >= Block - Aes
    <2>1. Block - Aes \in Nat /\ (Block - Aes) % Aes = 0
      <3>1. PICK p \in Nat : Block = p * Aes
        <4>1. PICK p \in Nat : Block = p * Aes + (Block % Aes)
          BY <1>1, Remainder
        <4>2. Block = p * Aes
          BY <1>1, <4>1
        <4> QED BY <4>2
      <3>2. p >= 1
        BY <1>1, <3>1
      <3>3. p - 1 \in Nat /\ Block - Aes = (p - 1) * Aes + 0
        BY <1>1, <3>1, <3>2
      <3>4. ((p - 1) * Aes + 0) % Aes = 0
        BY <1>1, <3>3, RemainderIs
      <3> QED BY <1>1, <3>3, <3>4
    <2> DEFINE x == r - (Block - Aes)
    <2>2. x \in Nat /\ x \in 0 .. Aes - 1 /\ r = (Block - Aes) + x
      BY <1>1, <1>2, <1>9
    <2> HIDE DEF x
    <2>3. r % Aes = x
      <3>1. ((Block - Aes) + x) % Aes = x % Aes
        BY <1>1, <2>1, <2>2, AddMultiple
      <3>2. x % Aes = x
        BY <1>1, <2>2, SmallRemainder
      <3> QED BY <2>2, <3>1, <3>2
    <2>4. size + Padding = t + Block
      BY <1>1, <1>2, <1>4, <1>7, <1>8, <2>2, <2>3 DEF Padding
    <2>5. (t + Block) % Block = 0
      <3>1. (t + Block) % Block = Block % Block
        BY <1>1, <1>4, <1>5, AddMultiple
      <3>2. (1 * Block + 0) % Block = 0
        BY <1>1, RemainderIs
      <3> QED BY <1>1, <3>1, <3>2
    <2>6. r # 0
      BY <1>1, <1>2, <1>9
    <2>7. Total = size + Padding
      BY <2>6 DEF Total, r
    <2> QED BY <1>9, <2>4, <2>5, <2>7 DEF Returned, FullAfterPadding, r
  <1>10. CASE r < Block - Aes
    <2>1. ~FullAfterPadding(size)
      BY <1>1, <1>2, <1>10 DEF FullAfterPadding, r
    <2>2. CASE size > 0 /\ r = 0
      BY <2>1, <2>2 DEF Total, Returned, r
    <2>3. CASE ~(size > 0 /\ r = 0)
      <3>1. Total = size + Padding
        BY <2>3 DEF Total, r
      <3> DEFINE y == r % Aes
      <3>2. y \in 0 .. Aes - 1 /\ y <= r
        <4>1. y \in 0 .. Aes - 1
          BY <1>1, <1>7, Remainder
        <4>2. PICK p \in Nat : r = p * Aes + y
          BY <1>1, <1>7, Remainder
        <4> HIDE DEF y
        <4>3. p * Aes >= 0
          BY <1>1
        <4> QED BY <1>1, <1>2, <4>1, <4>2, <4>3
      <3> HIDE DEF y
      <3>3. Padding = Aes - y
        BY <1>8 DEF Padding, y
      <3> DEFINE z == r + (Aes - y)
      <3>4. z \in Nat /\ z \in 1 .. Block - 1 /\ size + Padding = t + z
        BY <1>1, <1>2, <1>4, <1>7, <1>10, <3>2, <3>3
      <3> HIDE DEF z
      <3>5. (t + z) % Block = z
        <4>1. (t + z) % Block = z % Block
          BY <1>1, <1>4, <1>5, <3>4, AddMultiple
        <4>2. z % Block = z
          BY <1>1, <3>4, SmallRemainder
        <4> QED BY <4>1, <4>2
      <3>6. Total % Block # 0
        BY <3>1, <3>4, <3>5
      <3> QED BY <2>1, <3>6 DEF Returned
    <2> QED BY <2>2, <2>3
  <1>11. r >= Block - Aes \/ r < Block - Aes
    BY <1>1, <1>2
  <1> QED BY <1>9, <1>10, <1>11

(* After a whole block there is another multiple. *)
LEMMA NextBlockStarts ==
  ASSUME NEW s \in Nat, s % Block = 0
  PROVE  s + Block \in Nat /\ (s + Block) % Block = 0
  <1>1. Block \in Nat \ {0}
    BY SizesAssumption
  <1>2. (s + Block) % Block = Block % Block
    BY <1>1, AddMultiple
  <1>3. (1 * Block + 0) % Block = 0
    BY <1>1, RemainderIs
  <1> QED BY <1>1, <1>2, <1>3

(* The two texts, byte by byte. *)
LEMMA Texts ==
  ASSUME size \in Nat
  PROVE  /\ Plaintext \in Seq(Int) /\ Len(Plaintext) = Total
         /\ Ciphertext \in Seq(CipherByte) /\ Len(Ciphertext) = Total
         /\ \A i \in 1 .. Total : Plaintext[i] = (IF i <= size THEN i ELSE -Padding)
         /\ \A i \in 1 .. Total : Plaintext[i] \in Int /\ Plaintext[i] # 0
         /\ \A i \in 1 .. Total :
              Ciphertext[i] = [plain |-> Plaintext[i], at |-> ((i - 1) % Block) + 1]
  <1>1. Total \in Nat /\ Padding \in 1 .. Aes /\ Aes \in Nat /\ Block \in Nat \ {0}
    BY TotalOf, PaddingOf, SizesAssumption
  <1>2. \A i \in 1 .. Total : Plaintext[i] = (IF i <= size THEN i ELSE -Padding)
    BY DEF Plaintext
  <1>3. \A i \in 1 .. Total : Plaintext[i] \in Int /\ Plaintext[i] # 0
    BY <1>1, <1>2
  <1>4. Plaintext \in Seq(Int) /\ Len(Plaintext) = Total
    <2>1. Plaintext \in [1 .. Total -> Int]
      BY <1>3 DEF Plaintext
    <2> QED BY <1>1, <2>1
  <1>5. ASSUME NEW i \in 1 .. Total
        PROVE  /\ Ciphertext[i] = [plain |-> Plaintext[i], at |-> ((i - 1) % Block) + 1]
               /\ Ciphertext[i] \in CipherByte
    <2>1. i - 1 \in Nat
      BY <1>1
    <2>2. (i - 1) % Block \in 0 .. Block - 1
      BY <1>1, <2>1, Remainder
    <2>3. Ciphertext[i] = [plain |-> Plaintext[i], at |-> ((i - 1) % Block) + 1]
      BY DEF Ciphertext
    <2>4. ((i - 1) % Block) + 1 \in Int
      BY <1>1, <2>2
    <2> QED BY <1>3, <2>3, <2>4 DEF CipherByte
  <1>6. Ciphertext \in Seq(CipherByte) /\ Len(Ciphertext) = Total
    <2>1. Ciphertext \in [1 .. Total -> CipherByte]
      BY <1>5 DEF Ciphertext
    <2> QED BY <1>1, <2>1
  <1> QED BY <1>2, <1>3, <1>4, <1>5, <1>6

(* A block is encrypted and decrypted at the same places. *)
LEMMA BlockOf ==
  ASSUME size \in Nat, NEW s \in Nat, s % Block = 0, NEW t \in s .. Total, t <= s + Block
  PROVE  /\ SubSeq(Ciphertext, s + 1, t) \in Seq(CipherByte)
         /\ SubSeq(Plaintext, s + 1, t) \in Seq(Int)
         /\ Len(SubSeq(Ciphertext, s + 1, t)) = t - s
         /\ Len(SubSeq(Plaintext, s + 1, t)) = t - s
         /\ \A i \in 1 .. t - s : SubSeq(Plaintext, s + 1, t)[i] = Plaintext[s + i]
         /\ Encrypt(SubSeq(Plaintext, s + 1, t)) = SubSeq(Ciphertext, s + 1, t)
         /\ Decrypt(SubSeq(Ciphertext, s + 1, t)) = SubSeq(Plaintext, s + 1, t)
  <1> DEFINE n == t - s
             c == SubSeq(Ciphertext, s + 1, t)
             p == SubSeq(Plaintext, s + 1, t)
  <1>1. Total \in Nat /\ Block \in Nat \ {0} /\ n \in Nat /\ n <= Block
    BY TotalOf, SizesAssumption
  <1>2. s + 1 \in Int /\ t \in Int /\ t - (s + 1) + 1 = n /\ (IF s + 1 <= t THEN n ELSE 0) = n
    BY <1>1
  <1>3. \A i \in s + 1 .. t : i \in 1 .. Total
    BY <1>1
  <1>4. p \in Seq(Int) /\ Len(p) = n /\ \A i \in 1 .. n : p[i] = Plaintext[s + i]
    <2>1. \A i \in s + 1 .. t : Plaintext[i] \in Int
      BY <1>3, Texts
    <2>2. /\ p \in Seq(Int) /\ Len(p) = (IF s + 1 <= t THEN t - (s + 1) + 1 ELSE 0)
          /\ \A i \in 1 .. t - (s + 1) + 1 : p[i] = Plaintext[s + 1 + i - 1]
      BY <1>2, <2>1, SubSeqProperties
    <2>3. \A i \in 1 .. n : s + 1 + i - 1 = s + i
      BY <1>1
    <2> QED BY <1>2, <2>2, <2>3
  <1>5. c \in Seq(CipherByte) /\ Len(c) = n /\ \A i \in 1 .. n : c[i] = Ciphertext[s + i]
    <2>1. \A i \in s + 1 .. t : Ciphertext[i] \in CipherByte
      BY <1>3, Texts, ElementOfSeq
    <2>2. /\ c \in Seq(CipherByte) /\ Len(c) = (IF s + 1 <= t THEN t - (s + 1) + 1 ELSE 0)
          /\ \A i \in 1 .. t - (s + 1) + 1 : c[i] = Ciphertext[s + 1 + i - 1]
      BY <1>2, <2>1, SubSeqProperties
    <2>3. \A i \in 1 .. n : s + 1 + i - 1 = s + i
      BY <1>1
    <2> QED BY <1>2, <2>2, <2>3
  <1>6. ASSUME NEW i \in 1 .. n
        PROVE  c[i] = [plain |-> p[i], at |-> i]
    <2>1. s + i \in 1 .. Total /\ i - 1 \in Nat /\ i - 1 \in 0 .. Block - 1
          /\ (s + i) - 1 = s + (i - 1) /\ i = (i - 1) + 1
      BY <1>1
    <2>2. (s + (i - 1)) % Block = (i - 1) % Block
      BY <1>1, <2>1, AddMultiple
    <2>3. (i - 1) % Block = i - 1
      BY <1>1, <2>1, SmallRemainder
    <2>4. Ciphertext[s + i] = [plain |-> Plaintext[s + i], at |-> (((s + i) - 1) % Block) + 1]
      BY <2>1, Texts
    <2>5. (((s + i) - 1) % Block) + 1 = i
      BY <2>1, <2>2, <2>3
    <2> QED BY <1>4, <1>5, <2>4, <2>5
  <1> HIDE DEF n, c, p
  <1>7. Encrypt(p) = c
    <2>1. Encrypt(p) = [i \in 1 .. n |-> [plain |-> p[i], at |-> i]]
      BY <1>4 DEF Encrypt
    <2>2. c = [i \in 1 .. n |-> c[i]]
      BY <1>5, LenProperties
    <2> QED BY <1>6, <2>1, <2>2
  <1>8. Decrypt(c) = p
    <2>1. Decrypt(c) = [i \in 1 .. n |-> IF c[i].at = i THEN c[i].plain ELSE 0]
      BY <1>5 DEF Decrypt
    <2>2. p = [i \in 1 .. n |-> p[i]]
      BY <1>4, LenProperties
    <2>3. ASSUME NEW i \in 1 .. n PROVE (IF c[i].at = i THEN c[i].plain ELSE 0) = p[i]
      <3>1. c[i] = [plain |-> p[i], at |-> i]
        BY <1>6
      <3>2. c[i].at = i /\ c[i].plain = p[i]
        BY <3>1
      <3> QED BY <3>2
    <2> QED BY <2>1, <2>2, <2>3
  <1> QED BY <1>4, <1>5, <1>7, <1>8 DEF n, c, p

(* pkcs7.pad(), byte by byte. *)
LEMMA PadOf ==
  ASSUME NEW seq \in Seq(Int), NEW n \in Nat, Len(seq) = n,
         NEW p \in Nat, p = Aes - (n % Aes)
  PROVE  /\ Pad(seq) \in Seq(Int) /\ Len(Pad(seq)) = n + p
         /\ \A i \in 1 .. n + p : Pad(seq)[i] = (IF i <= n THEN seq[i] ELSE -p)
  <1> DEFINE tail == [i \in 1 .. p |-> -p]
  <1>1. tail \in Seq(Int) /\ Len(tail) = p /\ \A i \in 1 .. p : tail[i] = -p
    <2>1. tail \in [1 .. p -> Int] /\ \A i \in 1 .. p : tail[i] = -p
      OBVIOUS
    <2> HIDE DEF tail
    <2> QED BY <2>1
  <1>2. Pad(seq) = seq \o tail
    BY DEF Pad
  <1> HIDE DEF tail
  <1>3. /\ seq \o tail \in Seq(Int) /\ Len(seq \o tail) = Len(seq) + Len(tail)
        /\ \A i \in 1 .. Len(seq) + Len(tail) :
             (seq \o tail)[i] = (IF i <= Len(seq) THEN seq[i] ELSE tail[i - Len(seq)])
    BY <1>1, ConcatProperties
  <1>4. ASSUME NEW i \in 1 .. n + p PROVE (seq \o tail)[i] = (IF i <= n THEN seq[i] ELSE -p)
    <2>1. CASE i <= n
      BY <1>1, <1>3, <2>1
    <2>2. CASE ~(i <= n)
      <3>1. i - n \in 1 .. p
        BY <2>2
      <3> QED BY <1>1, <1>3, <2>2, <3>1
    <2> QED BY <2>1, <2>2
  <1> QED BY <1>1, <1>2, <1>3, <1>4

(* The file is where the plaintext begins; padded as a whole it is the
   plaintext, unless none of its blocks is padded. *)
LEMMA FileOf ==
  ASSUME size \in Nat
  PROVE  /\ File \in Seq(Int) /\ Len(File) = size /\ \A i \in 1 .. size : File[i] = i
         /\ File = SubSeq(Plaintext, 1, size)
         /\ Total = size + Padding => Pad(File) = Plaintext
  <1>1. /\ Total \in Nat /\ size <= Total /\ Padding \in Nat /\ Padding = Aes - (size % Aes)
    BY TotalOf, PaddingOf, SizesAssumption DEF Padding
  <1>2. File \in Seq(Int) /\ Len(File) = size /\ \A i \in 1 .. size : File[i] = i
    <2>1. File \in [1 .. size -> Int] /\ \A i \in 1 .. size : File[i] = i
      BY DEF File
    <2> QED BY <2>1
  <1>3. File = SubSeq(Plaintext, 1, size)
    <2> DEFINE p == SubSeq(Plaintext, 1, size)
    <2>1. \A i \in 1 .. size : Plaintext[i] \in Int /\ Plaintext[i] = i
      BY <1>1, Texts
    <2>2. /\ p \in Seq(Int) /\ Len(p) = (IF 1 <= size THEN size - 1 + 1 ELSE 0)
          /\ \A i \in 1 .. size - 1 + 1 : p[i] = Plaintext[1 + i - 1]
      BY <2>1, SubSeqProperties
    <2>3. Len(p) = size /\ \A i \in 1 .. size : p[i] = i
      <3>1. (IF 1 <= size THEN size - 1 + 1 ELSE 0) = size /\ size - 1 + 1 = size
            /\ \A i \in 1 .. size : 1 + i - 1 = i
        OBVIOUS
      <3> QED BY <2>1, <2>2, <3>1
    <2> HIDE DEF p
    <2>4. File = p
      BY <1>2, <2>2, <2>3, SeqEqual
    <2> QED BY <2>4 DEF p
  <1>4. ASSUME Total = size + Padding PROVE Pad(File) = Plaintext
    <2>1. /\ Pad(File) \in Seq(Int) /\ Len(Pad(File)) = Total
          /\ \A i \in 1 .. Total : Pad(File)[i] = (IF i <= size THEN File[i] ELSE -Padding)
      BY <1>1, <1>2, <1>4, PadOf
    <2>2. ASSUME NEW i \in 1 .. Total PROVE Pad(File)[i] = Plaintext[i]
      <3>1. Plaintext[i] = (IF i <= size THEN i ELSE -Padding)
        BY Texts
      <3>2. i <= size => File[i] = i
        BY <1>1, <1>2
      <3> QED BY <2>1, <3>1, <3>2
    <2> QED BY <2>1, <2>2, Texts, SeqEqual
  <1> QED BY <1>2, <1>3, <1>4

(* What the sender encrypts in one turn is the next piece of the plaintext. *)
LEMMA BlockOfFile ==
  ASSUME size \in Nat, NEW s \in Nat, s % Block = 0, s < size \/ s = 0
  PROVE  LET block == Slice(File, s, s + Block)
             data  == IF size < s + Block THEN Pad(block) ELSE block
             t     == IF s + Block < Total THEN s + Block ELSE Total
         IN  /\ t \in s .. Total /\ t <= s + Block
             /\ data = SubSeq(Plaintext, s + 1, t) /\ Aligned(data)
  <1> DEFINE block == Slice(File, s, s + Block)
             data == IF size < s + Block THEN Pad(block) ELSE block
             t == IF s + Block < Total THEN s + Block ELSE Total
             u == IF s + Block < size THEN s + Block ELSE size
  <1>1. /\ Total \in Nat \ {0} /\ size <= Total /\ Block \in Nat \ {0} /\ Aes \in Nat \ {0}
        /\ Block % Aes = 0 /\ Total % Aes = 0
    BY TotalOf, SizesAssumption
  <1>2. t \in s .. Total /\ t <= s + Block /\ u \in s .. size /\ t \in Nat
    BY <1>1
  <1>3. block \in Seq(Int) /\ Len(block) = u - s /\ \A i \in 1 .. u - s : block[i] = s + i
    <2>1. block = SubSeq(File, s + 1, u)
      BY FileOf DEF Slice
    <2>2. s + 1 \in Int /\ u \in Int /\ \A i \in s + 1 .. u : i \in 1 .. size
      BY <1>2
    <2>3. \A i \in s + 1 .. u : File[i] \in Int /\ File[i] = i
      BY <2>2, FileOf
    <2> HIDE DEF block, u
    <2>4. /\ block \in Seq(Int) /\ Len(block) = (IF s + 1 <= u THEN u - (s + 1) + 1 ELSE 0)
          /\ \A i \in 1 .. u - (s + 1) + 1 : block[i] = File[s + 1 + i - 1]
      BY <2>1, <2>2, <2>3, SubSeqProperties
    <2>5. (IF s + 1 <= u THEN u - (s + 1) + 1 ELSE 0) = u - s /\ u - (s + 1) + 1 = u - s
          /\ \A i \in 1 .. u - s : s + 1 + i - 1 = s + i /\ s + i \in s + 1 .. u
      BY <1>2
    <2> QED BY <2>3, <2>4, <2>5
  <1> DEFINE p == SubSeq(Plaintext, s + 1, t)
  <1> HIDE DEF block
  <1>4. p \in Seq(Int) /\ Len(p) = t - s /\ \A i \in 1 .. t - s : p[i] = Plaintext[s + i]
    <2> HIDE DEF t
    <2> QED BY <1>2, BlockOf
  <1> HIDE DEF p
  <1>5. CASE size < s + Block
    <2>1. /\ Total = size + Padding /\ (size - s) % Aes = size % Aes /\ s <= size
          /\ Total <= s + Block
      BY <1>5, LastBlock
    <2>2. u = size /\ t = Total /\ data = Pad(block) /\ size - s \in Nat
      BY <1>1, <1>5, <2>1
    <2>3. Padding \in Nat /\ Padding = Aes - ((size - s) % Aes)
      BY <1>1, <2>1, PaddingOf DEF Padding
    <2> HIDE DEF data, u, t
    <2>4. /\ data \in Seq(Int) /\ Len(data) = (size - s) + Padding
          /\ \A i \in 1 .. (size - s) + Padding :
               data[i] = (IF i <= size - s THEN block[i] ELSE -Padding)
      <3>1. block \in Seq(Int) /\ Len(block) = size - s /\ size - s \in Nat
        BY <1>3, <2>2
      <3> DEFINE m == size - s
      <3>2. Len(block) = m /\ m \in Nat /\ Padding = Aes - (m % Aes)
        BY <2>3, <3>1
      <3> HIDE DEF m
      <3>3. /\ Pad(block) \in Seq(Int) /\ Len(Pad(block)) = m + Padding
            /\ \A i \in 1 .. m + Padding :
                 Pad(block)[i] = (IF i <= m THEN block[i] ELSE -Padding)
        BY <2>3, <3>1, <3>2, PadOf
      <3>4. data = Pad(block)
        BY <2>2
      <3> QED BY <3>3, <3>4 DEF m
    <2>5. (size - s) + Padding = t - s
      BY <2>1, <2>2, <2>3
    <2>6. ASSUME NEW i \in 1 .. t - s PROVE data[i] = p[i]
      <3>1. s + i \in 1 .. Total /\ (s + i <= size <=> i <= size - s)
        BY <1>1, <1>2, <2>2, <2>6
      <3>2. Plaintext[s + i] = (IF s + i <= size THEN s + i ELSE -Padding)
        BY <3>1, Texts
      <3>3. i <= size - s => i \in 1 .. u - s
        BY <2>2, <2>6
      <3> QED BY <1>3, <1>4, <2>2, <2>4, <2>5, <2>6, <3>1, <3>2, <3>3
    <2>7. data = p
      BY <1>4, <2>4, <2>5, <2>6, SeqEqual
    <2>8. Aligned(data)
      <3>0. s % Aes = 0
        BY <1>1, MultipleOfMultiple
      <3>1. s % Aes = 0 /\ t - s \in Nat /\ s + (t - s) = t
        BY <1>1, <1>2, <3>0
      <3>2. (s + (t - s)) % Aes = (t - s) % Aes
        BY <1>1, <3>1, AddMultiple
      <3> QED BY <1>1, <2>2, <2>4, <2>5, <3>1, <3>2 DEF Aligned
    <2> QED BY <1>2, <2>7, <2>8 DEF data, t, p, block
  <1>6. CASE ~(size < s + Block)
    <2>1. u = s + Block /\ t = s + Block /\ data = block
      BY <1>1, <1>6
    <2> HIDE DEF data, u, t
    <2>2. ASSUME NEW i \in 1 .. t - s PROVE data[i] = p[i]
      <3>1. s + i \in 1 .. Total /\ s + i <= size
        BY <1>1, <1>2, <1>6, <2>1, <2>2
      <3> QED BY <1>3, <1>4, <2>1, <2>2, <3>1, Texts
    <2>3. data = p
      BY <1>3, <1>4, <2>1, <2>2, SeqEqual
    <2>4. Aligned(data)
      <3>1. t - s = Block
        BY <1>1, <2>1
      <3> QED BY <1>1, <1>4, <2>3, <3>1 DEF Aligned
    <2> QED BY <1>2, <2>3, <2>4 DEF data, t, p, block
  <1> QED BY <1>5, <1>6

(* Before the first block nothing is encrypted. *)
LEMMA EncryptedInitially == Init => EncryptedInv
  <1> SUFFICES ASSUME Init PROVE EncryptedInv
    OBVIOUS
  <1>1. size \in Nat /\ Block \in Nat \ {0}
    BY SizesAssumption DEF Init
  <1>2. 0 < Total
    BY <1>1, TotalOf
  <1>3. (0 * Block + 0) % Block = 0
    BY <1>1, RemainderIs
  <1>4. cipher = SubSeq(Ciphertext, 1, 0)
    BY SubSeqEmpty DEF Init
  <1> QED BY <1>1, <1>2, <1>3, <1>4 DEF Init, EncryptedInv

(* Each block of the file adds the next piece of the ciphertext; *)
LEMMA EncryptStep ==
  ASSUME EncryptedInv, EncryptBlock
  PROVE  EncryptedInv'
  <1> DEFINE block == Slice(File, startP, startP + Block)
             data == IF size < startP + Block THEN Pad(block) ELSE block
             t == IF startP + Block < Total THEN startP + Block ELSE Total
  <1>1. /\ size \in Nat /\ startP \in Nat /\ startP % Block = 0 /\ endP = startP + Block
        /\ phase = "send" /\ (startP < size \/ startP = 0)
        /\ startP' = startP + Block /\ endP' = endP + Block /\ size' = size /\ res' = <<>>
        /\ Block \in Nat \ {0}
    BY SizesAssumption DEF EncryptedInv, EncryptBlock, NextBlock, More
  <1>2. Total \in Nat /\ startP < Total /\ startP <= Total
    BY <1>1, TotalOf
  <1>3. /\ t \in startP .. Total /\ t <= startP + Block
        /\ data = SubSeq(Plaintext, startP + 1, t) /\ Aligned(data)
    BY <1>1, BlockOfFile
  <1>4. size - endP < 0 <=> size < startP + Block
    BY <1>1
  <1>5. cipher' = cipher \o Encrypt(data) /\ phase' = "send"
    BY <1>1, <1>3, <1>4 DEF EncryptBlock, PadsThis
  <1>6. cipher = SubSeq(Ciphertext, 1, startP)
    <2>1. cipher = SubSeq(Ciphertext, 1, IF startP < Total THEN startP ELSE Total)
      BY <1>1 DEF EncryptedInv
    <2>2. (IF startP < Total THEN startP ELSE Total) = startP
      BY <1>2
    <2> QED BY <2>1, <2>2
  <1> HIDE DEF data
  <1>7. Encrypt(data) = SubSeq(Ciphertext, startP + 1, t)
    <2> HIDE DEF t
    <2> QED BY <1>1, <1>3, BlockOf
  <1>8. cipher' = SubSeq(Ciphertext, 1, t)
    <2>1. Ciphertext \in Seq(CipherByte) /\ Len(Ciphertext) = Total
      BY <1>1, Texts
    <2>2. 1 \in 1 .. Total + 1 /\ startP \in 1 - 1 .. Total /\ t \in startP .. Total
      BY <1>1, <1>2, <1>3
    <2> HIDE DEF t
    <2>3. SubSeq(Ciphertext, 1, startP) \o SubSeq(Ciphertext, startP + 1, t) = SubSeq(Ciphertext, 1, t)
      BY <2>1, <2>2, ConcatAdjacentSubSeq
    <2> QED BY <1>5, <1>6, <1>7, <2>3
  <1>9. Total' = Total /\ Ciphertext' = Ciphertext
    BY <1>1 DEF Total, Padding, Ciphertext, Plaintext
  <1>10. startP' \in Nat /\ startP' % Block = 0 /\ endP' = startP' + Block
    BY <1>1, NextBlockStarts
  <1>11. t = (IF startP' < Total' THEN startP' ELSE Total')
    BY <1>1, <1>9
  <1> HIDE DEF t
  <1> QED BY <1>1, <1>5, <1>8, <1>9, <1>10, <1>11 DEF EncryptedInv

(* after the last one the ciphertext is complete. *)
LEMMA SendDoneStep ==
  ASSUME EncryptedInv, SendDone
  PROVE  EncryptedInv'
  <1>1. /\ size \in Nat /\ startP \in Nat /\ startP % Block = 0 /\ Block \in Nat \ {0}
        /\ phase = "send" /\ ~(startP < size) /\ startP # 0 /\ size' = size
        /\ startP' = 0 /\ endP' = Block /\ cipher' = cipher /\ res' = <<>> /\ phase' = "receive"
    BY SizesAssumption DEF EncryptedInv, SendDone, More
  <1>2. Total <= startP /\ Total \in Nat \ {0}
    BY <1>1, TotalFits, TotalOf
  <1>3. cipher = SubSeq(Ciphertext, 1, Total)
    BY <1>1, <1>2 DEF EncryptedInv
  <1>4. SubSeq(Ciphertext, 1, Total) = Ciphertext
    <2>1. Ciphertext \in Seq(CipherByte) /\ Len(Ciphertext) = Total
      BY <1>1, Texts
    <2> QED BY <2>1, SubSeqFull
  <1>5. (0 * Block + 0) % Block = 0
    BY <1>1, RemainderIs
  <1>6. Total' = Total /\ Ciphertext' = Ciphertext
    BY <1>1 DEF Total, Padding, Ciphertext, Plaintext
  <1>7. SubSeq(Plaintext', 1, 0) = <<>>
    BY SubSeqEmpty
  <1>8. (IF startP' < Total' THEN startP' ELSE Returned') = 0
    BY <1>1, <1>2, <1>6
  <1> QED BY <1>1, <1>3, <1>4, <1>5, <1>6, <1>7, <1>8 DEF EncryptedInv

(* What is left when the padding is stripped from the last block. *)
LEMMA StripOf ==
  ASSUME size \in Nat, NEW s \in Nat, s <= size, Total = size + Padding,
         NEW data, data \in Seq(Int), Len(data) = Total - s,
         \A i \in 1 .. Total - s : data[i] = Plaintext[s + i], Aes <= Total - s
  PROVE  /\ Padded(data)
         /\ Strip(data) = SubSeq(Plaintext, s + 1, size)
  <1>1. /\ Total \in Nat /\ Padding \in Nat /\ Padding \in 1 .. Aes /\ Aes \in Nat \ {0}
        /\ Total % Aes = 0
    BY TotalOf, PaddingOf, SizesAssumption
  <1>2. Total - s \in Nat /\ Total - s \in 1 .. Total - s /\ s + (Total - s) = Total
        /\ ~(Total <= size) /\ Total \in 1 .. Total
    BY <1>1
  <1>3. data[Total - s] = -Padding
    <2>1. Plaintext[Total] = -Padding
      BY <1>2, Texts
    <2> QED BY <1>2, <2>1
  <1>4. PadLength(data) = Padding
    BY <1>1, <1>3 DEF PadLength
  <1>5. ASSUME NEW i \in (Total - s) - Padding + 1 .. Total - s PROVE data[i] = -Padding
    <2>1. i \in 1 .. Total - s /\ s + i \in 1 .. Total /\ ~(s + i <= size)
      BY <1>1, <1>2
    <2> QED BY <2>1, Texts
  <1>6. Padded(data)
    BY <1>1, <1>4, <1>5 DEF Padded
  <1> DEFINE n == size - s
             p == SubSeq(Plaintext, s + 1, size)
             d == SubSeq(data, 1, n)
  <1>7. n \in Nat /\ n = (Total - s) - Padding /\ n <= Total - s /\ s + 1 \in Int
        /\ size - (s + 1) + 1 = n /\ (IF s + 1 <= size THEN n ELSE 0) = n
        /\ n - 1 + 1 = n /\ (IF 1 <= n THEN n - 1 + 1 ELSE 0) = n
    BY <1>1
  <1>8. p \in Seq(Int) /\ Len(p) = n /\ \A i \in 1 .. n : p[i] = Plaintext[s + i]
    <2>1. \A i \in s + 1 .. size : i \in 1 .. Total
      BY <1>1
    <2>2. \A i \in s + 1 .. size : Plaintext[i] \in Int
      BY <2>1, Texts
    <2>3. /\ p \in Seq(Int) /\ Len(p) = (IF s + 1 <= size THEN size - (s + 1) + 1 ELSE 0)
          /\ \A i \in 1 .. size - (s + 1) + 1 : p[i] = Plaintext[s + 1 + i - 1]
      BY <1>7, <2>2, SubSeqProperties
    <2>4. \A i \in 1 .. n : s + 1 + i - 1 = s + i
      BY <1>7
    <2> QED BY <1>7, <2>3, <2>4
  <1>9. d \in Seq(Int) /\ Len(d) = n /\ \A i \in 1 .. n : d[i] = data[i]
    <2>1. \A i \in 1 .. n : data[i] \in Int
      <3> HIDE DEF n
      <3>1. \A i \in 1 .. n : i \in 1 .. Len(data)
        BY <1>2, <1>7
      <3> QED BY <3>1, ElementOfSeq
    <2>2. /\ d \in Seq(Int) /\ Len(d) = (IF 1 <= n THEN n - 1 + 1 ELSE 0)
          /\ \A i \in 1 .. n - 1 + 1 : d[i] = data[1 + i - 1]
      <3> HIDE DEF n
      <3> QED BY <1>7, <2>1, SubSeqProperties
    <2>3. \A i \in 1 .. n : 1 + i - 1 = i
      BY <1>7
    <2> QED BY <1>7, <2>2, <2>3
  <1>10. Strip(data) = d
    BY <1>4, <1>7 DEF Strip
  <1> HIDE DEF n, p, d
  <1>11. \A i \in 1 .. n : i \in 1 .. Total - s
    BY <1>2, <1>7
  <1>12. d = p
    BY <1>8, <1>9, <1>11, SeqEqual
  <1> QED BY <1>6, <1>10, <1>12 DEF p

(* Each block of the ciphertext gives a piece of the plaintext back, and only
   the last, if it is shorter than a block, is stripped; *)
LEMMA DecryptStep ==
  ASSUME EncryptedInv, DecryptBlock
  PROVE  EncryptedInv'
  <1>1. /\ size \in Nat /\ startP \in Nat /\ startP % Block = 0 /\ endP = startP + Block
        /\ phase = "receive" /\ (startP < Len(cipher) \/ startP = 0)
        /\ cipher = Ciphertext
        /\ startP' = startP + Block /\ endP' = endP + Block /\ size' = size /\ cipher' = cipher
        /\ Block \in Nat \ {0} /\ Aes \in Nat \ {0} /\ Block % Aes = 0
    BY SizesAssumption DEF EncryptedInv, DecryptBlock, NextBlock, More
  <1>2. Total \in Nat /\ Total % Aes = 0 /\ startP < Total /\ startP <= Total
        /\ Returned \in Nat /\ size <= Total
    BY <1>1, TotalOf, Texts
  <1>3. res = SubSeq(Plaintext, 1, startP)
    <2>1. res = SubSeq(Plaintext, 1, IF startP < Total THEN startP ELSE Returned)
      BY <1>1 DEF EncryptedInv
    <2> QED BY <1>2, <2>1
  <1>4. Total' = Total /\ Ciphertext' = Ciphertext /\ Plaintext' = Plaintext /\ Returned' = Returned
    BY <1>1 DEF Total, Padding, Ciphertext, Plaintext, Returned
  <1>5. startP' \in Nat /\ startP' % Block = 0 /\ endP' = startP' + Block
    BY <1>1, NextBlockStarts
  <1> DEFINE t == IF startP + Block < Total THEN startP + Block ELSE Total
             block == SubSeq(Ciphertext, startP + 1, t)
             data == SubSeq(Plaintext, startP + 1, t)
  <1>6. t \in startP .. Total /\ t <= startP + Block /\ t \in Nat
    BY <1>1, <1>2
  <1>7. Slice(cipher, startP, endP) = block
    BY <1>1, Texts DEF Slice
  <1> HIDE DEF t
  <1>8. /\ data \in Seq(Int) /\ Len(block) = t - startP /\ Len(data) = t - startP
        /\ \A i \in 1 .. t - startP : data[i] = Plaintext[startP + i]
        /\ Decrypt(block) = data
    BY <1>1, <1>6, BlockOf
  <1> HIDE DEF block, data
  <1>9. StripsThis <=> Total < startP + Block
    <2>1. Len(cipher) = Total
      BY <1>1, Texts
    <2>2. StripsThis <=> Total - (startP + Block) < 0
      BY <1>1, <2>1 DEF StripsThis
    <2> QED BY <1>1, <1>2, <2>2
  <1>10. startP % Aes = 0
    BY <1>1, MultipleOfMultiple
  <1>11. ASSUME NEW r \in startP .. Total PROVE
           SubSeq(Plaintext, 1, startP) \o SubSeq(Plaintext, startP + 1, r) = SubSeq(Plaintext, 1, r)
    <2>1. Plaintext \in Seq(Int) /\ Len(Plaintext) = Total
      BY <1>1, Texts
    <2>2. 1 \in 1 .. Total + 1 /\ startP \in 1 - 1 .. Total
      BY <1>1, <1>2
    <2> QED BY <2>1, <2>2, ConcatAdjacentSubSeq
  <1>12. CASE Total < startP + Block
    <2>1. t = Total
      BY <1>1, <1>2, <1>12 DEF t
    <2>2. t - startP \in Nat /\ startP + (t - startP) = t /\ t - startP \in 1 .. Block - 1
      BY <1>1, <1>2, <1>12, <2>1
    <2>3. (t - startP) % Aes = 0
      <3>1. (startP + (t - startP)) % Aes = (t - startP) % Aes
        BY <1>1, <1>10, <2>2, AddMultiple
      <3> QED BY <1>2, <2>1, <2>2, <3>1
    <2>4. Total % Block # 0
      <3>1. (startP + (t - startP)) % Block = (t - startP) % Block
        BY <1>1, <2>2, AddMultiple
      <3>2. (t - startP) % Block = t - startP
        BY <1>1, <2>2, SmallRemainder
      <3>3. t - startP # 0
        BY <2>2
      <3> QED BY <2>1, <2>2, <3>1, <3>2, <3>3
    <2>5. Total = size + Padding /\ Returned = size
      BY <1>1, <2>4, TotalOf
    <2>6. Aes <= Total - startP
      <3>1. startP + Aes <= Total
        BY <1>1, <1>2, <1>10, MultiplesApart
      <3> QED BY <1>1, <1>2, <3>1
    <2>7. startP <= size
      BY <1>1, <1>2, <2>5, <2>6, PaddingOf
    <2>8. Padded(data) /\ Strip(data) = SubSeq(Plaintext, startP + 1, size)
      BY <1>1, <1>8, <2>1, <2>5, <2>6, <2>7, StripOf
    <2>9. Aligned(block)
      BY <1>8, <2>3 DEF Aligned
    <2>10. res' = res \o Strip(data) /\ phase' = "receive"
      BY <1>1, <1>7, <1>8, <1>9, <1>12, <2>8, <2>9 DEF DecryptBlock
    <2>11. size \in startP .. Total
      BY <1>1, <1>2, <2>7
    <2>12. res' = SubSeq(Plaintext, 1, size)
      BY <1>3, <1>11, <2>8, <2>10, <2>11
    <2>13. (IF startP' < Total' THEN startP' ELSE Returned') = size
      BY <1>1, <1>2, <1>4, <1>12, <2>5
    <2> QED BY <1>1, <1>4, <1>5, <2>10, <2>12, <2>13 DEF EncryptedInv
  <1>13. CASE ~(Total < startP + Block)
    <2>1. t = startP + Block
      BY <1>1, <1>2, <1>13 DEF t
    <2>2. Aligned(block)
      <3>1. t - startP = Block
        BY <1>1, <2>1
      <3> QED BY <1>1, <1>8, <3>1 DEF Aligned
    <2>3. res' = res \o data /\ phase' = "receive"
      BY <1>1, <1>7, <1>8, <1>9, <1>13, <2>2 DEF DecryptBlock
    <2>4. res' = SubSeq(Plaintext, 1, t)
      BY <1>3, <1>6, <1>11, <2>3 DEF data
    <2>5. (IF startP' < Total' THEN startP' ELSE Returned') = t
      <3>1. CASE startP + Block < Total
        BY <1>1, <1>4, <2>1, <3>1
      <3>2. CASE startP + Block = Total
        <4>1. Returned = Total
          BY <1>1, <1>5, <3>2, TotalOf
        <4> QED BY <1>1, <1>4, <2>1, <3>2, <4>1
      <3> QED BY <1>1, <1>2, <1>13, <3>1, <3>2
    <2> QED BY <1>1, <1>4, <1>5, <2>3, <2>4, <2>5 DEF EncryptedInv
  <1> QED BY <1>12, <1>13

(* after that nothing is missing. *)
LEMMA ReceiveDoneStep ==
  ASSUME EncryptedInv, ReceiveDone
  PROVE  EncryptedInv'
  <1>1. /\ size \in Nat /\ startP \in Nat /\ phase = "receive" /\ cipher = Ciphertext
        /\ ~(startP < Len(cipher)) /\ phase' = "done"
        /\ UNCHANGED <<size, startP, endP, cipher, res>>
    BY DEF EncryptedInv, ReceiveDone, More
  <1>2. startP >= Total
    BY <1>1, Texts, TotalOf
  <1>3. Total' = Total /\ Ciphertext' = Ciphertext /\ Plaintext' = Plaintext /\ Returned' = Returned
    BY <1>1 DEF Total, Padding, Ciphertext, Plaintext, Returned
  <1> QED BY <1>1, <1>2, <1>3 DEF EncryptedInv

(* So every step of the two loops keeps the invariant. *)
LEMMA EncryptedStep == EncryptedInv /\ Next => EncryptedInv'
  BY EncryptStep, SendDoneStep, DecryptStep, ReceiveDoneStep DEF Next

LEMMA EncryptedUnchanged == EncryptedInv /\ UNCHANGED vars => EncryptedInv'
  <1> SUFFICES ASSUME EncryptedInv, UNCHANGED vars PROVE EncryptedInv'
    OBVIOUS
  <1>1. UNCHANGED <<size, phase, startP, endP, cipher, res>>
    BY DEF vars
  <1>2. Total' = Total /\ Ciphertext' = Ciphertext /\ Plaintext' = Plaintext /\ Returned' = Returned
    BY <1>1 DEF Total, Padding, Ciphertext, Plaintext, Returned
  <1> QED BY <1>1, <1>2 DEF EncryptedInv

(* What the invariant says of a file that has come back. *)
LEMMA RoundTripInvariant ==
  ASSUME EncryptedInv
  PROVE  RoundTrip
  <1>1. /\ size \in Nat /\ startP \in Nat /\ phase # "threw"
        /\ phase = "send" => res = <<>>
        /\ phase # "send" =>
             res = SubSeq(Plaintext, 1, IF startP < Total THEN startP ELSE Returned)
        /\ phase = "done" => startP >= Total
    BY DEF EncryptedInv
  <1>2. /\ Total \in Nat /\ Returned \in Nat /\ Returned <= Total
    BY <1>1, TotalOf
  <1>3. ASSUME NEW i \in 1 .. Len(res) PROVE res[i] # 0
    <2>1. CASE phase = "send"
      BY <1>1, <1>3, <2>1
    <2>2. CASE phase # "send"
      <3> DEFINE n == IF startP < Total THEN startP ELSE Returned
      <3>1. n \in Nat /\ n <= Total /\ n \in Int
        BY <1>1, <1>2
      <3>2. res = SubSeq(Plaintext, 1, n)
        BY <1>1, <2>2
      <3> HIDE DEF n
      <3>3. \A j \in 1 .. n : Plaintext[j] \in Int /\ Plaintext[j] # 0
        BY <1>1, <3>1, Texts
      <3>4. /\ Len(res) = (IF 1 <= n THEN n - 1 + 1 ELSE 0)
            /\ \A j \in 1 .. n - 1 + 1 : res[j] = Plaintext[1 + j - 1]
        BY <3>1, <3>2, <3>3, SubSeqProperties
      <3>5. (IF 1 <= n THEN n - 1 + 1 ELSE 0) = n /\ n - 1 + 1 = n
            /\ \A j \in 1 .. n : 1 + j - 1 = j
        BY <3>1
      <3> QED BY <3>3, <3>4, <3>5
    <2> QED BY <2>1, <2>2
  <1>4. ASSUME phase = "done"
        PROVE  IF FullAfterPadding(size) THEN res = Pad(File) ELSE res = File
    <2>1. res = SubSeq(Plaintext, 1, Returned)
      BY <1>1, <1>2, <1>4
    <2>2. CASE FullAfterPadding(size)
      <3>1. Returned = Total /\ Total = size + Padding
        BY <1>1, <2>2, FullBlocks
      <3>2. SubSeq(Plaintext, 1, Total) = Plaintext
        <4>1. Plaintext \in Seq(Int) /\ Len(Plaintext) = Total
          BY <1>1, Texts
        <4> QED BY <4>1, SubSeqFull
      <3> QED BY <1>1, <2>1, <2>2, <3>1, <3>2, FileOf
    <2>3. CASE ~FullAfterPadding(size)
      BY <1>1, <2>1, <2>3, FullBlocks, FileOf
    <2> QED BY <2>2, <2>3
  <1> QED BY <1>1, <1>3, <1>4 DEF RoundTrip, BlocksMatch

(* A file comes back from the box as it was encrypted, whatever its size and the
   sizes of the blocks; but where the padding fills the last block, and nowhere
   else, the padding comes back with it.  Nothing throws on the way, and every
   byte is decrypted at the place where it was encrypted. *)
THEOREM RoundTripHolds == AppsSpec => []RoundTrip
  <1>1. AppsInit => EncryptedInv
    BY EncryptedInitially DEF AppsInit
  <1>2. EncryptedInv /\ [AppsNext]_allVars => EncryptedInv'
    <2> SUFFICES ASSUME EncryptedInv, [AppsNext]_allVars PROVE EncryptedInv'
      OBVIOUS
    <2>1. Next \/ UNCHANGED vars
      BY DEF AppsNext, Cipher, SignIn, Photos, Syncing, allVars
    <2> QED BY <2>1, EncryptedStep, EncryptedUnchanged
  <1>3. EncryptedInv => RoundTrip
    BY RoundTripInvariant
  <1> QED BY <1>1, <1>2, <1>3, PTL DEF AppsSpec
=============================================================================
