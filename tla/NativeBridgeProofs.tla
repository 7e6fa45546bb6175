------------------------- MODULE NativeBridgeProofs -------------------------
(***************************************************************************)
(* What comes of the files that cross the bridge, for any number of calls  *)
(* and any length of a file: an upload is its file less what came to       *)
(* nobody, and a download is its file.                                     *)
(*                                                                         *)
(* The messages of a call are in the queues in the order of its stream.    *)
(* What has come, what came to nobody and what is on its way are together  *)
(* the file, in that order, so when the end has come nothing is missing.   *)
(***************************************************************************)
EXTENDS NativeBridge, Integers, SequenceTheorems, TLAPS

\* The constants are what the module says.
USE BridgeAssumption

(* What a message may be.  The data of a chunk are groups of an upload, and
   numbers of chunks of a download. *)
Groups       == 0 .. Content - 1
WebWhat      == {"request", "START", "CHUNK", "END"}
NativeWhat   == {"done", "failed", "START", "CHUNK", "END"}
ToWebMsg     == [id : Call, what : WebWhat, data : {"function"} \cup SUBSET Groups]
ToNativeMsg  == [id : Call, what : NativeWhat, data : {{}} \cup Seq(Nat)]
Piece        == (SUBSET Groups) \cup Seq(Nat)
GenState     == [at : {"unstarted", "awaiting", "yielded", "ended"}, finished : BOOLEAN]
NativeState  == {"idle", "answer", "callback", "receiving", "resolved", "rejected", "dropped"}
WebState     == {"none", "starting", "asking", "waiting", "opening", "uploading",
                 "retrieving", "streaming", "done", "connected", "failed", "stuck"}

(* The types of all variables. *)
Typed ==
  /\ page \in {"absent", "loading", "ready"} /\ started \in BOOLEAN
  /\ kind \in [Call -> Kind]
  /\ native \in [Call -> NativeState] /\ web \in [Call -> WebState]
  /\ gen \in [Call -> GenState]
  /\ read \in [Call -> 0 .. Stored] /\ buffer \in [Call -> Seq(Nat)]
  /\ value \in [Call -> Seq(Piece)]
  /\ lost \in [Call -> SUBSET SUBSET Groups]
  /\ unheard \in [Call -> SUBSET {"request", "END"}]
  /\ toWeb \in Seq(ToWebMsg) /\ toNative \in Seq(ToNativeMsg)

\* Where a stream has come to with a message.
Rank(what) ==
  IF what = "request" THEN 0 ELSE IF what = "START" THEN 1 ELSE IF what = "CHUNK" THEN 2 ELSE 3

Below(S, T) == \A g \in S, h \in T : g < h

Streamed == {"START", "CHUNK", "END"}

\* Of a queue s: the data of the chunks of a call, whether there is any message
\* of it, and whether there is one of its stream.
ChunksOf(s, c)   == {s[p].data : p \in {q \in DOMAIN s : s[q].id = c /\ s[q].what = "CHUNK"}}
Silent(s, c)     == \A p \in DOMAIN s : s[p].id # c
StreamOver(s, c) == \A p \in DOMAIN s : s[p].id = c => s[p].what \notin Streamed

(* The kind of a call says which states it goes through. *)
KindFits(c) ==
  /\ native[c] \in {"callback", "receiving"} => kind[c] = "receive"
  /\ native[c] \in {"answer", "dropped"} => kind[c] # "receive"
  /\ web[c] \in {"starting", "asking"} => kind[c] \in {"start", "connect", "meta"}
  /\ web[c] \in {"waiting", "opening", "uploading"} => kind[c] = "send"
  /\ web[c] \in {"retrieving", "streaming", "stuck"} => kind[c] = "receive"
  /\ native[c] = "resolved" => web[c] = "done"

\* The request of a call has come to the page or is on its way.
Posted(c) == native[c] \notin {"idle", "rejected"} /\ "request" \notin unheard[c]

(* A call that was not posted left nothing anywhere. *)
NothingBefore(c) ==
  /\ native[c] = "idle" => unheard[c] = {}
  /\ ~Posted(c) => /\ web[c] = "none" /\ value[c] = <<>> /\ lost[c] = {} /\ ~gen[c].finished
                   /\ Silent(toWeb, c)

CallsFit == \A c \in Call : KindFits(c) /\ NothingBefore(c)

-----------------------------------------------------------------------------
(* The messages of a call reach the page in the order in which they were
   posted, its request first; only an upload has others. *)
WebBefore(m, n) ==
  \/ Rank(m.what) < Rank(n.what)
  \/ m.what = "CHUNK" /\ n.what = "CHUNK" /\ Below(m.data, n.data)

WebOrdered(s) == \A p, q \in DOMAIN s : p < q /\ s[p].id = s[q].id => WebBefore(s[p], s[q])

WebFits(m) ==
  /\ m.what = "request" => web[m.id] = "none"
  /\ m.what # "request" => kind[m.id] = "send"
  /\ m.what = "CHUNK" => m.data \in SUBSET Groups /\ m.data # {}

WebQueue == WebOrdered(toWeb) /\ \A p \in DOMAIN toWeb : WebFits(toWeb[p])

\* What the Fula client has of an upload, or will never have.
Passed(c) == Elements(value[c]) \cup lost[c]

(* An upload is in order, and what has come, what came to nobody and what is
   still to come are together the file; its end comes after all of it. *)
UploadKept(c) ==
  /\ Elements(value[c]) \subseteq SUBSET Groups
  /\ InOrder(value[c])
  /\ Elements(value[c]) \cap lost[c] = {}
  /\ Below(UNION Passed(c), UNION ChunksOf(toWeb, c))
  /\ Posted(c) => UNION (Passed(c) \cup ChunksOf(toWeb, c)) = Groups
  /\ gen[c].finished => Silent(toWeb, c)
  /\ web[c] = "done" => gen[c].finished
  /\ web[c] = "uploading" /\ gen[c].at = "ended" => gen[c].finished

Uploads == \A c \in Call : kind[c] = "send" => UploadKept(c)

-----------------------------------------------------------------------------
(* A piece of a download: chunks in order, up to a third one or the last. *)
GoodPiece(s) ==
  /\ s \in Seq(Nat) /\ s # <<>>
  /\ \A j, k \in DOMAIN s : j < k => s[j] < s[k]
  /\ s[Len(s)] % 3 = 0 \/ s[Len(s)] = Stored

NativeBefore(m, n) ==
  \/ Rank(m.what) < Rank(n.what)
  \/ m.what = "CHUNK" /\ n.what = "CHUNK" /\ Below(Elements(m.data), Elements(n.data))

NativeOrdered(s) ==
  \A p, q \in DOMAIN s :
    p < q /\ s[p].id = s[q].id /\ s[p].what \in Streamed /\ s[q].what \in Streamed
      => NativeBefore(s[p], s[q])

NativeFits(m) ==
  /\ m.what = "done" => web[m.id] = "done" /\ kind[m.id] # "receive"
  /\ m.what \in Streamed => kind[m.id] = "receive" /\ web[m.id] \in {"streaming", "stuck", "done"}
  /\ m.what = "END" => web[m.id] = "done"
  /\ m.what = "CHUNK" => GoodPiece(m.data)

NativeQueue == NativeOrdered(toNative) /\ \A p \in DOMAIN toNative : NativeFits(toNative[p])

\* The chunks of a download that have arrived, and those on their way.
Numbers(pieces) == UNION {Elements(s) : s \in pieces}
Arrived(c)  == Numbers(Elements(value[c]))
Arriving(c) == Numbers(ChunksOf(toNative, c))

\* How many chunks streamSend() has posted.
PostedChunks(c) == IF web[c] = "done" THEN Stored ELSE read[c] - Len(buffer[c])

(* streamSend() holds the last chunks it has read, and what came before them
   has arrived in order or is on its way. *)
DownloadKept(c) ==
  /\ Len(buffer[c]) <= 3
  /\ Len(buffer[c]) <= read[c] /\ (read[c] - Len(buffer[c])) % 3 = 0
  /\ \A j \in DOMAIN buffer[c] : buffer[c][j] = read[c] - Len(buffer[c]) + j
  /\ \A s \in Elements(value[c]) : GoodPiece(s)
  /\ \A i, j \in DOMAIN value[c] : i < j => Below(Elements(value[c][i]), Elements(value[c][j]))
  /\ Below(Arrived(c), Arriving(c))
  /\ Arrived(c) \cup Arriving(c) = 1 .. PostedChunks(c)
  /\ native[c] = "resolved" => StreamOver(toNative, c)

Downloads == \A c \in Call : kind[c] = "receive" => DownloadKept(c)

(* A call that is no download reads nothing. *)
OthersRead == \A c \in Call : kind[c] # "receive" => buffer[c] = <<>>

IInv == /\ Typed /\ CallsFit /\ WebQueue /\ NativeQueue
        /\ Uploads /\ Downloads /\ OthersRead

-----------------------------------------------------------------------------
(* What taking the first message of a queue leaves. *)
LEMMA TailFacts ==
  ASSUME NEW S, NEW s \in Seq(S), s # <<>>
  PROVE  /\ Head(s) \in S /\ Tail(s) \in Seq(S) /\ 1 \in DOMAIN s /\ s[1] = Head(s)
         /\ \A p \in DOMAIN Tail(s) : p \in Nat /\ p + 1 \in DOMAIN s /\ Tail(s)[p] = s[p + 1]
         /\ \A p \in DOMAIN s : p = 1 \/ (p - 1 \in DOMAIN Tail(s) /\ Tail(s)[p - 1] = s[p])
         /\ \A p \in DOMAIN s : p \in Nat /\ p > 0
  <1>1. Len(s) \in Nat \ {0} /\ DOMAIN s = 1 .. Len(s)
    BY EmptySeq, LenProperties
  <1>2. /\ Head(s) \in S /\ Tail(s) \in Seq(S) /\ Len(Tail(s)) = Len(s) - 1
        /\ \A i \in 1 .. Len(Tail(s)) : Tail(s)[i] = s[i + 1]
    BY HeadTailProperties
  <1>3. DOMAIN Tail(s) = 1 .. Len(s) - 1
    BY <1>2, LenProperties
  <1>4. Head(s) = s[1]
    BY <1>1
  <1>5. \A p \in DOMAIN Tail(s) : p \in Nat /\ p + 1 \in DOMAIN s /\ Tail(s)[p] = s[p + 1]
    BY <1>1, <1>2, <1>3
  <1>6. \A p \in DOMAIN s : p \in Nat /\ p > 0
    BY <1>1
  <1>7. 1 \in DOMAIN s
    BY <1>1
  <1>8. \A p \in DOMAIN s : p = 1 \/ (p - 1 \in DOMAIN Tail(s) /\ Tail(s)[p - 1] = s[p])
    <2> SUFFICES ASSUME NEW p \in 1 .. Len(s), p # 1
                 PROVE  p - 1 \in DOMAIN Tail(s) /\ Tail(s)[p - 1] = s[p]
      BY <1>1
    <2>1. p \in Nat /\ p - 1 \in 1 .. Len(s) - 1 /\ (p - 1) + 1 = p
      BY <1>1
    <2>2. Tail(s)[p - 1] = s[(p - 1) + 1]
      BY <1>2, <2>1
    <2> QED BY <1>3, <2>1, <2>2
  <1> QED BY <1>2, <1>4, <1>5, <1>6, <1>7, <1>8

LEMMA ChunksTail ==
  ASSUME NEW S, NEW s \in Seq(S), s # <<>>, NEW c
  PROVE  /\ ChunksOf(s, c) = ChunksOf(Tail(s), c) \cup
              (IF Head(s).id = c /\ Head(s).what = "CHUNK" THEN {Head(s).data} ELSE {})
         /\ Silent(s, c) => Silent(Tail(s), c)
         /\ StreamOver(s, c) => StreamOver(Tail(s), c)
  <1> DEFINE first == IF Head(s).id = c /\ Head(s).what = "CHUNK" THEN {Head(s).data} ELSE {}
  <1>1. ChunksOf(s, c) \subseteq ChunksOf(Tail(s), c) \cup first
    <2> SUFFICES ASSUME NEW p \in DOMAIN s, s[p].id = c, s[p].what = "CHUNK"
                 PROVE  s[p].data \in ChunksOf(Tail(s), c) \cup first
      BY DEF ChunksOf
    <2>1. CASE p = 1
      BY <2>1, TailFacts
    <2>2. CASE p # 1
      <3>1. p - 1 \in DOMAIN Tail(s) /\ Tail(s)[p - 1] = s[p]
        BY <2>2, TailFacts
      <3> QED BY <3>1 DEF ChunksOf
    <2> QED BY <2>1, <2>2
  <1>2. ChunksOf(Tail(s), c) \cup first \subseteq ChunksOf(s, c)
    <2>1. \A p \in DOMAIN Tail(s) : p + 1 \in DOMAIN s /\ Tail(s)[p] = s[p + 1]
      BY TailFacts
    <2>2. 1 \in DOMAIN s /\ s[1] = Head(s)
      BY TailFacts
    <2> QED BY <2>1, <2>2 DEF ChunksOf
  <1>3. /\ Silent(s, c) => Silent(Tail(s), c)
        /\ StreamOver(s, c) => StreamOver(Tail(s), c)
    <2>1. \A p \in DOMAIN Tail(s) : p + 1 \in DOMAIN s /\ Tail(s)[p] = s[p + 1]
      BY TailFacts
    <2> QED BY <2>1 DEF Silent, StreamOver
  <1> QED BY <1>1, <1>2, <1>3

(* What posting a message adds. *)
LEMMA AppendFacts ==
  ASSUME NEW S, NEW s \in Seq(S), NEW m \in S
  PROVE  /\ Append(s, m) \in Seq(S)
         /\ Len(s) + 1 \in DOMAIN Append(s, m) /\ Append(s, m)[Len(s) + 1] = m
         /\ \A p \in DOMAIN s : /\ p \in Nat /\ p \in DOMAIN Append(s, m) /\ p < Len(s) + 1
                                /\ Append(s, m)[p] = s[p]
         /\ \A p \in DOMAIN Append(s, m) :
              \/ p = Len(s) + 1
              \/ p \in DOMAIN s
         /\ Len(s) \in Nat
  <1>1. Len(s) \in Nat /\ DOMAIN s = 1 .. Len(s)
    BY LenProperties
  <1>2. /\ Append(s, m) \in Seq(S) /\ Len(Append(s, m)) = Len(s) + 1
        /\ \A i \in 1 .. Len(s) : Append(s, m)[i] = s[i]
        /\ Append(s, m)[Len(s) + 1] = m
    BY AppendProperties
  <1>3. DOMAIN Append(s, m) = 1 .. Len(s) + 1
    BY <1>2, LenProperties
  <1> QED BY <1>1, <1>2, <1>3

LEMMA ChunksAppend ==
  ASSUME NEW S, NEW s \in Seq(S), NEW m \in S, NEW c
  PROVE  /\ ChunksOf(Append(s, m), c) = ChunksOf(s, c) \cup
              (IF m.id = c /\ m.what = "CHUNK" THEN {m.data} ELSE {})
         /\ StreamOver(s, c) /\ (m.id # c \/ m.what \notin Streamed) => StreamOver(Append(s, m), c)
  <1> DEFINE t    == Append(s, m)
             last == IF m.id = c /\ m.what = "CHUNK" THEN {m.data} ELSE {}
  <1>1. /\ Len(s) + 1 \in DOMAIN t /\ t[Len(s) + 1] = m
        /\ \A p \in DOMAIN s : p \in DOMAIN t /\ t[p] = s[p]
        /\ \A p \in DOMAIN t : p = Len(s) + 1 \/ p \in DOMAIN s
    BY AppendFacts
  <1> HIDE DEF t
  <1>2. ChunksOf(t, c) \subseteq ChunksOf(s, c) \cup last
    <2> SUFFICES ASSUME NEW p \in DOMAIN t, t[p].id = c, t[p].what = "CHUNK"
                 PROVE  t[p].data \in ChunksOf(s, c) \cup last
      BY DEF ChunksOf
    <2>1. CASE p = Len(s) + 1
      BY <1>1, <2>1
    <2>2. CASE p \in DOMAIN s
      BY <1>1, <2>2 DEF ChunksOf
    <2> QED BY <1>1, <2>1, <2>2
  <1>3. ChunksOf(s, c) \cup last \subseteq ChunksOf(t, c)
    BY <1>1 DEF ChunksOf
  <1>4. StreamOver(s, c) /\ (m.id # c \/ m.what \notin Streamed) => StreamOver(t, c)
    BY <1>1 DEF StreamOver
  <1> QED BY <1>2, <1>3, <1>4 DEF t

(* The order of a queue, when its first message is taken. *)
LEMMA WebTail ==
  ASSUME NEW S, NEW s \in Seq(S), s # <<>>, WebOrdered(s)
  PROVE  /\ WebOrdered(Tail(s))
         /\ \A q \in DOMAIN Tail(s) : Tail(s)[q].id = Head(s).id => WebBefore(Head(s), Tail(s)[q])
  <1>1. \A p \in DOMAIN Tail(s) : p \in Nat /\ p + 1 \in DOMAIN s /\ Tail(s)[p] = s[p + 1]
    BY TailFacts
  <1>2. 1 \in DOMAIN s /\ s[1] = Head(s) /\ \A p \in DOMAIN s : p \in Nat /\ p > 0
    BY TailFacts
  <1>3. \A p \in DOMAIN Tail(s) : 1 < p + 1
    <2>1. \A p \in DOMAIN Tail(s) : p \in Nat /\ p > 0
      <3>1. Tail(s) \in Seq(S)
        BY TailFacts
      <3> QED BY <3>1, LenProperties
    <2> QED BY <2>1
  <1>4. \A p, q \in DOMAIN Tail(s) : p < q => p + 1 < q + 1
    BY <1>1
  <1>5. WebOrdered(Tail(s))
    BY <1>1, <1>4 DEF WebOrdered
  <1>6. ASSUME NEW q \in DOMAIN Tail(s), Tail(s)[q].id = Head(s).id
        PROVE  WebBefore(Head(s), Tail(s)[q])
    BY <1>1, <1>2, <1>3, <1>6 DEF WebOrdered
  <1> QED BY <1>5, <1>6

LEMMA NativeTail ==
  ASSUME NEW S, NEW s \in Seq(S), s # <<>>, NativeOrdered(s)
  PROVE  /\ NativeOrdered(Tail(s))
         /\ \A q \in DOMAIN Tail(s) :
              /\ Tail(s)[q].id = Head(s).id
              /\ Head(s).what \in Streamed /\ Tail(s)[q].what \in Streamed
              => NativeBefore(Head(s), Tail(s)[q])
  <1>1. \A p \in DOMAIN Tail(s) : p \in Nat /\ p + 1 \in DOMAIN s /\ Tail(s)[p] = s[p + 1]
    BY TailFacts
  <1>2. 1 \in DOMAIN s /\ s[1] = Head(s) /\ \A p \in DOMAIN s : p \in Nat /\ p > 0
    BY TailFacts
  <1>3. \A p \in DOMAIN Tail(s) : 1 < p + 1
    <2>1. \A p \in DOMAIN Tail(s) : p \in Nat /\ p > 0
      <3>1. Tail(s) \in Seq(S)
        BY TailFacts
      <3> QED BY <3>1, LenProperties
    <2> QED BY <2>1
  <1>4. \A p, q \in DOMAIN Tail(s) : p < q => p + 1 < q + 1
    BY <1>1
  <1>5. NativeOrdered(Tail(s))
    BY <1>1, <1>4 DEF NativeOrdered
  <1>6. ASSUME NEW q \in DOMAIN Tail(s), Tail(s)[q].id = Head(s).id,
               Head(s).what \in Streamed, Tail(s)[q].what \in Streamed
        PROVE  NativeBefore(Head(s), Tail(s)[q])
    BY <1>1, <1>2, <1>3, <1>6 DEF NativeOrdered
  <1> QED BY <1>5, <1>6

(* The order of a queue, when a message is posted. *)
LEMMA NativeAppend ==
  ASSUME NEW S, NEW s \in Seq(S), NEW m \in S, NativeOrdered(s),
         m.what \in Streamed => \A p \in DOMAIN s : s[p].id = m.id /\ s[p].what \in Streamed
                                                      => NativeBefore(s[p], m)
  PROVE  NativeOrdered(Append(s, m))
  <1> DEFINE t == Append(s, m)
  <1>1. /\ t[Len(s) + 1] = m /\ Len(s) \in Nat
        /\ \A p \in DOMAIN s : p \in Nat /\ p < Len(s) + 1 /\ t[p] = s[p]
        /\ \A p \in DOMAIN t : p = Len(s) + 1 \/ p \in DOMAIN s
    BY AppendFacts
  <1> HIDE DEF t
  <1> SUFFICES ASSUME NEW p \in DOMAIN t, NEW q \in DOMAIN t, p < q, t[p].id = t[q].id,
                      t[p].what \in Streamed, t[q].what \in Streamed
               PROVE  NativeBefore(t[p], t[q])
    BY DEF NativeOrdered, t
  <1>2. p \in DOMAIN s
    BY <1>1
  <1>3. CASE q \in DOMAIN s
    BY <1>1, <1>2, <1>3 DEF NativeOrdered
  <1>4. CASE q = Len(s) + 1
    BY <1>1, <1>2, <1>4
  <1> QED BY <1>1, <1>3, <1>4

-----------------------------------------------------------------------------
(* The slices of a file are its groups, in their order. *)
Turns == (Content + Amount - 1) \div Amount

LEMMA TurnsReach ==
  /\ Turns \in Nat
  /\ Content <= Turns * Amount
  /\ \A i \in 1 .. Turns : ByteStart(i) \in Nat /\ ByteStart(i) < Content
                           /\ i * Amount \in Nat /\ ByteStart(i) < i * Amount
  /\ \A i, j \in 1 .. Turns : i < j => i * Amount <= ByteStart(j)
  /\ \A g \in Groups : \E i \in 1 .. Turns : ByteStart(i) <= g /\ g < i * Amount
  <1> DEFINE n == Content + Amount - 1
             r == n % Amount
  <1>1. n \in Nat /\ Turns \in Nat /\ r \in 0 .. Amount - 1
    BY DEF Turns
  <1>2. n = Amount * Turns + r
    BY DEF Turns
  <1>3. \A i \in Nat : Amount * i = i * Amount /\ i * Amount \in Nat
    OBVIOUS
  <1>4. n = Turns * Amount + r
    BY <1>1, <1>2, <1>3
  <1>5. Content <= Turns * Amount /\ (Turns * Amount) - Amount < Content
    BY <1>1, <1>3, <1>4
  <1>6. \A i \in Int : (i - 1) * Amount = i * Amount - Amount
    OBVIOUS
  <1>7. \A i, j \in Nat : i <= j => i * Amount <= j * Amount
    <2> SUFFICES ASSUME NEW i \in Nat, NEW j \in Nat, i <= j PROVE i * Amount <= j * Amount
      OBVIOUS
    <2>1. (j - i) \in Nat /\ (j - i) * Amount >= 0
      OBVIOUS
    <2>2. (j - i) * Amount = j * Amount - i * Amount
      OBVIOUS
    <2> QED BY <2>1, <2>2, <1>3
  <1> HIDE DEF n, r
  <1>8. \A i \in 1 .. Turns : ByteStart(i) \in Nat /\ ByteStart(i) < Content
                              /\ i * Amount \in Nat /\ ByteStart(i) < i * Amount
    <2> SUFFICES ASSUME NEW i \in 1 .. Turns
                 PROVE  ByteStart(i) \in Nat /\ ByteStart(i) < Content
                        /\ i * Amount \in Nat /\ ByteStart(i) < i * Amount
      OBVIOUS
    <2>1. ByteStart(i) = i * Amount - Amount /\ i * Amount \in Nat /\ (i - 1) * Amount \in Nat
      BY <1>1, <1>3, <1>6 DEF ByteStart
    <2>2. i * Amount <= Turns * Amount
      BY <1>1, <1>7
    <2> QED BY <1>1, <1>3, <1>5, <2>1, <2>2 DEF ByteStart
  <1>9. \A i, j \in 1 .. Turns : i < j => i * Amount <= ByteStart(j)
    <2> SUFFICES ASSUME NEW i \in 1 .. Turns, NEW j \in 1 .. Turns, i < j
                 PROVE  i * Amount <= ByteStart(j)
      OBVIOUS
    <2>1. i \in Nat /\ j - 1 \in Nat /\ i <= j - 1
      BY <1>1
    <2> QED BY <2>1, <1>7 DEF ByteStart
  <1>10. ASSUME NEW g \in Groups
         PROVE  \E i \in 1 .. Turns : ByteStart(i) <= g /\ g < i * Amount
    <2> DEFINE q == g \div Amount
               s == g % Amount
    <2>1. g \in Nat /\ g < Content
      BY <1>10 DEF Groups
    <2>2. q \in Nat /\ s \in 0 .. Amount - 1 /\ g = Amount * q + s
      BY <2>1
    <2> HIDE DEF q, s
    <2>3. g = q * Amount + s /\ q * Amount \in Nat
      BY <1>3, <2>2
    <2>4. (q + 1) * Amount = q * Amount + Amount /\ (q + 1) - 1 = q
      BY <2>2
    <2>5. q * Amount <= g /\ g < (q + 1) * Amount
      BY <2>2, <2>3, <2>4
    <2>6. q < Turns
      <3>1. SUFFICES ASSUME Turns <= q PROVE FALSE
        BY <1>1, <2>2
      <3>2. Turns * Amount <= q * Amount
        BY <1>1, <1>7, <2>2, <3>1
      <3> QED BY <1>1, <1>3, <1>5, <2>1, <2>3, <2>5, <3>2
    <2>7. q + 1 \in 1 .. Turns
      BY <1>1, <2>2, <2>6
    <2>8. ByteStart(q + 1) = q * Amount
      BY <2>4 DEF ByteStart
    <2> QED BY <2>5, <2>7, <2>8
  <1> QED BY <1>1, <1>5, <1>8, <1>9, <1>10

LEMMA SlicesFacts ==
  /\ Turns \in Nat /\ Slices = [i \in 1 .. Turns |-> Slice(i)]
  /\ \A i \in 1 .. Turns : Slice(i) \in SUBSET Groups /\ Slice(i) # {}
  /\ \A i, j \in 1 .. Turns : i < j => Below(Slice(i), Slice(j))
  /\ UNION {Slice(i) : i \in 1 .. Turns} = Groups
  <1>1. Turns \in Nat /\ Slices = [i \in 1 .. Turns |-> Slice(i)]
    BY TurnsReach DEF Slices, Turns
  <1>2. ASSUME NEW i \in 1 .. Turns
        PROVE  Slice(i) \in SUBSET Groups /\ Slice(i) # {}
    <2>1. ByteStart(i) \in Slice(i)
      BY TurnsReach DEF Slice
    <2> QED BY <2>1 DEF Slice, Groups
  <1>3. ASSUME NEW i \in 1 .. Turns, NEW j \in 1 .. Turns, i < j
        PROVE  Below(Slice(i), Slice(j))
    <2>1. i * Amount <= ByteStart(j) /\ i * Amount \in Nat /\ ByteStart(j) \in Nat
      BY <1>3, TurnsReach
    <2> SUFFICES ASSUME NEW g \in Slice(i), NEW h \in Slice(j) PROVE g < h
      BY DEF Below
    <2>2. g \in Nat /\ h \in Nat /\ g < i * Amount /\ ByteStart(j) <= h
      BY DEF Slice
    <2> QED BY <2>1, <2>2
  <1>4. UNION {Slice(i) : i \in 1 .. Turns} = Groups
    <2>1. \A g \in Groups : \E i \in 1 .. Turns : g \in Slice(i)
      BY TurnsReach DEF Slice, Groups
    <2> QED BY <1>2, <2>1
  <1> QED BY <1>1, <1>2, <1>3, <1>4

(* The two parts of a sequence. *)
LEMMA ConcatAt ==
  ASSUME NEW s \in Seq(ToWebMsg), NEW t \in Seq(ToWebMsg)
  PROVE  \A a, b \in Nat : Len(s) = a /\ Len(t) = b =>
         /\ s \o t \in Seq(ToWebMsg) /\ Len(s \o t) = a + b
         /\ \A i \in 1 .. a : (s \o t)[i] = s[i]
         /\ \A i \in 1 .. b : (s \o t)[a + i] = t[i]
  <1> SUFFICES ASSUME NEW a \in Nat, NEW b \in Nat, Len(s) = a, Len(t) = b
               PROVE  /\ s \o t \in Seq(ToWebMsg) /\ Len(s \o t) = a + b
                      /\ \A i \in 1 .. a : (s \o t)[i] = s[i]
                      /\ \A i \in 1 .. b : (s \o t)[a + i] = t[i]
    OBVIOUS
  <1>1. /\ s \o t \in Seq(ToWebMsg) /\ Len(s \o t) = a + b
        /\ \A i \in 1 .. a + b : (s \o t)[i] = IF i <= a THEN s[i] ELSE t[i - a]
    BY ConcatProperties
  <1>2. \A i \in 1 .. a : i \in 1 .. a + b /\ i <= a
    OBVIOUS
  <1>3. \A i \in 1 .. b : a + i \in 1 .. a + b /\ ~(a + i <= a) /\ (a + i) - a = i
    OBVIOUS
  <1>4. \A i \in 1 .. a : (s \o t)[i] = s[i]
    BY <1>1, <1>2
  <1>5. \A i \in 1 .. b : (s \o t)[a + i] = t[i]
    BY <1>1, <1>3
  <1> QED BY <1>1, <1>4, <1>5

(* What CallOut() posts for a call: its request, and all of an upload. *)
LEMMA PostsFacts ==
  ASSUME NEW c \in Call
  PROVE  /\ Posts(c) \in Seq(ToWebMsg) /\ WebOrdered(Posts(c))
         /\ \A p \in DOMAIN Posts(c) :
              /\ Posts(c)[p].id = c
              /\ Posts(c)[p].what # "request" => kind[c] = "send"
              /\ Posts(c)[p].what = "CHUNK" => Posts(c)[p].data \in SUBSET Groups /\ Posts(c)[p].data # {}
         /\ kind[c] = "send" => UNION ChunksOf(Posts(c), c) = Groups
  <1> DEFINE m(what, data) == Message(c, what, data)
             request == <<m("request", "function")>>
             start   == <<m("START", {})>>
             chunks  == [i \in DOMAIN Slices |-> m("CHUNK", Slices[i])]
             end     == <<m("END", {})>>
  <1>1. \A what \in WebWhat, data \in {"function"} \cup SUBSET Groups :
          /\ m(what, data) \in ToWebMsg /\ m(what, data).id = c
          /\ m(what, data).what = what /\ m(what, data).data = data
    BY DEF Message, ToWebMsg
  <1>2. /\ m("request", "function") \in ToWebMsg /\ m("START", {}) \in ToWebMsg
        /\ m("END", {}) \in ToWebMsg
        /\ m("request", "function").id = c /\ m("START", {}).id = c /\ m("END", {}).id = c
        /\ m("request", "function").what = "request"
        /\ m("START", {}).what = "START" /\ m("END", {}).what = "END"
    BY <1>1 DEF WebWhat
  <1>3. Turns \in Nat /\ DOMAIN Slices = 1 .. Turns
        /\ \A i \in 1 .. Turns : Slices[i] = Slice(i) /\ Slice(i) \in SUBSET Groups
    BY SlicesFacts
  <1>4. \A i \in 1 .. Turns :
          /\ m("CHUNK", Slices[i]) \in ToWebMsg /\ m("CHUNK", Slices[i]).id = c
          /\ m("CHUNK", Slices[i]).what = "CHUNK" /\ m("CHUNK", Slices[i]).data = Slice(i)
    <2> TAKE i \in 1 .. Turns
    <2>1. Slices[i] = Slice(i) /\ Slice(i) \in {"function"} \cup SUBSET Groups
      BY <1>3
    <2>2. "CHUNK" \in WebWhat /\ Slices[i] \in {"function"} \cup SUBSET Groups
      BY <2>1 DEF WebWhat
    <2>3. /\ m("CHUNK", Slices[i]) \in ToWebMsg /\ m("CHUNK", Slices[i]).id = c
          /\ m("CHUNK", Slices[i]).what = "CHUNK" /\ m("CHUNK", Slices[i]).data = Slices[i]
      BY <1>1, <2>2
    <2> QED BY <2>1, <2>3
  <1> HIDE DEF m
  <1>5. chunks \in Seq(ToWebMsg) /\ Len(chunks) = Turns
        /\ \A i \in 1 .. Turns : chunks[i] = m("CHUNK", Slices[i])
    <2>1. chunks \in [1 .. Turns -> ToWebMsg]
      BY <1>3, <1>4
    <2>2. chunks \in Seq(ToWebMsg)
      BY <1>3, <2>1, SeqDef
    <2>3. DOMAIN chunks = 1 .. Turns
      BY <1>3
    <2>4. Len(chunks) = Turns
      BY <1>3, <2>2, <2>3, LenProperties
    <2> QED BY <1>3, <2>2, <2>4
  <1>6. /\ request \in Seq(ToWebMsg) /\ start \in Seq(ToWebMsg) /\ end \in Seq(ToWebMsg)
        /\ Len(request) = 1 /\ Len(start) = 1 /\ Len(end) = 1
        /\ request[1] = m("request", "function") /\ start[1] = m("START", {}) /\ end[1] = m("END", {})
    BY <1>2
  <1> HIDE DEF request, start, chunks, end
  <1>7. CASE kind[c] # "send"
    <2>1. Posts(c) = request
      <3>1. Posts(c) = request \o <<>>
        BY <1>7 DEF Posts, request, m
      <3> QED BY <3>1, <1>6, ConcatEmptySeq
    <2>2. DOMAIN request = {1}
      BY <1>6, LenProperties
    <2> QED BY <1>2, <1>6, <1>7, <2>1, <2>2 DEF WebOrdered
  <1>8. CASE kind[c] = "send"
    <2> DEFINE s == Posts(c)
    <2>1. s = request \o ((start \o chunks) \o end)
      BY <1>8 DEF Posts, request, start, chunks, end, m
    <2>2. /\ start \o chunks \in Seq(ToWebMsg) /\ Len(start \o chunks) = 1 + Turns
          /\ \A i \in 1 .. 1 : (start \o chunks)[i] = start[i]
          /\ \A i \in 1 .. Turns : (start \o chunks)[1 + i] = chunks[i]
      <3>1. \A a, b \in Nat : Len(start) = a /\ Len(chunks) = b =>
              /\ start \o chunks \in Seq(ToWebMsg) /\ Len(start \o chunks) = a + b
              /\ \A i \in 1 .. a : (start \o chunks)[i] = start[i]
              /\ \A i \in 1 .. b : (start \o chunks)[a + i] = chunks[i]
        BY <1>5, <1>6, ConcatAt
      <3> QED BY <3>1, <1>3, <1>5, <1>6
    <2> DEFINE body == start \o chunks
               rest == body \o end
    <2>3. 1 + Turns \in Nat /\ body \in Seq(ToWebMsg) /\ Len(body) = 1 + Turns
      BY <1>3, <2>2
    <2> HIDE DEF body
    <2>4. /\ rest \in Seq(ToWebMsg) /\ Len(rest) = (1 + Turns) + 1
          /\ \A i \in 1 .. 1 + Turns : rest[i] = body[i]
          /\ \A i \in 1 .. 1 : rest[(1 + Turns) + i] = end[i]
      <3>1. \A a, b \in Nat : Len(body) = a /\ Len(end) = b =>
              /\ body \o end \in Seq(ToWebMsg) /\ Len(body \o end) = a + b
              /\ \A i \in 1 .. a : (body \o end)[i] = body[i]
              /\ \A i \in 1 .. b : (body \o end)[a + i] = end[i]
        BY <1>6, <2>3, ConcatAt
      <3> QED BY <3>1, <1>6, <2>3 DEF rest
    <2>5. (1 + Turns) + 1 \in Nat
      BY <1>3
    <2> HIDE DEF rest
    <2>12. /\ request \o rest \in Seq(ToWebMsg) /\ Len(request \o rest) = 1 + ((1 + Turns) + 1)
           /\ \A i \in 1 .. 1 : (request \o rest)[i] = request[i]
           /\ \A i \in 1 .. (1 + Turns) + 1 : (request \o rest)[1 + i] = rest[i]
      <3>1. \A a, b \in Nat : Len(request) = a /\ Len(rest) = b =>
              /\ request \o rest \in Seq(ToWebMsg) /\ Len(request \o rest) = a + b
              /\ \A i \in 1 .. a : (request \o rest)[i] = request[i]
              /\ \A i \in 1 .. b : (request \o rest)[a + i] = rest[i]
        BY <1>6, <2>4, ConcatAt
      <3> QED BY <3>1, <1>6, <2>4, <2>5
    <2>13. s = request \o rest
      BY <2>1 DEF rest, body
    <2>14. s \in Seq(ToWebMsg) /\ Len(s) = Turns + 3
      BY <1>3, <2>12, <2>13
    <2> HIDE DEF s
    <2>15. /\ s[1] = m("request", "function") /\ s[2] = m("START", {}) /\ s[Turns + 3] = m("END", {})
           /\ \A i \in 1 .. Turns : s[i + 2] = m("CHUNK", Slices[i])
      <3>1. s[1] = m("request", "function")
        BY <1>6, <2>12, <2>13
      <3>2. s[2] = m("START", {})
        <4>1. 1 \in 1 .. (1 + Turns) + 1 /\ 1 \in 1 .. 1 + Turns /\ 1 + 1 = 2 /\ 1 \in 1 .. 1
          BY <1>3
        <4>2. s[2] = rest[1]
          BY <2>12, <2>13, <4>1
        <4>3. body[1] = start[1]
          BY <2>2, <4>1 DEF body
        <4> QED BY <1>6, <2>4, <4>1, <4>2, <4>3
      <3>3. s[Turns + 3] = m("END", {})
        <4>1. /\ (1 + Turns) + 1 \in 1 .. (1 + Turns) + 1
              /\ 1 + ((1 + Turns) + 1) = Turns + 3 /\ 1 \in 1 .. 1
          BY <1>3
        <4>2. s[Turns + 3] = rest[(1 + Turns) + 1]
          BY <2>12, <2>13, <4>1
        <4> QED BY <1>6, <2>4, <4>1, <4>2
      <3>4. ASSUME NEW i \in 1 .. Turns
            PROVE  s[i + 2] = m("CHUNK", Slices[i])
        <4>1. 1 + i \in 1 .. (1 + Turns) + 1 /\ 1 + i \in 1 .. 1 + Turns /\ 1 + (1 + i) = i + 2
          BY <1>3
        <4>2. s[i + 2] = rest[1 + i]
          BY <2>12, <2>13, <4>1
        <4>3. body[1 + i] = chunks[i]
          BY <2>2 DEF body
        <4> QED BY <1>5, <2>4, <4>1, <4>2, <4>3
      <3> QED BY <3>1, <3>2, <3>3, <3>4
    <2>6. DOMAIN s = 1 .. Turns + 3
      BY <2>14, LenProperties
    <2>7. \A p \in DOMAIN s : p = 1 \/ p = 2 \/ p = Turns + 3 \/ (p - 2 \in 1 .. Turns /\ (p - 2) + 2 = p)
      BY <1>3, <2>6
    <2>8. ASSUME NEW p \in DOMAIN s
          PROVE  /\ s[p].id = c
                 /\ \/ p = 1 /\ s[p].what = "request"
                    \/ p = 2 /\ s[p].what = "START"
                    \/ p - 2 \in 1 .. Turns /\ s[p].what = "CHUNK" /\ s[p].data = Slice(p - 2)
                    \/ p = Turns + 3 /\ s[p].what = "END"
      <3>1. CASE p - 2 \in 1 .. Turns /\ (p - 2) + 2 = p
        <4>1. s[p] = m("CHUNK", Slices[p - 2])
          BY <2>15, <3>1
        <4> QED BY <1>4, <3>1, <4>1
      <3> QED BY <1>2, <2>15, <2>7, <3>1
    <2>9. WebOrdered(s)
      <3> SUFFICES ASSUME NEW p \in DOMAIN s, NEW q \in DOMAIN s, p < q
                   PROVE  WebBefore(s[p], s[q])
        BY DEF WebOrdered
      <3>1. p \in Nat /\ q \in Nat /\ Turns \in Nat
        BY <1>3, <2>6
      <3>2. CASE p - 2 \in 1 .. Turns /\ q - 2 \in 1 .. Turns
        <4>1. /\ s[p].what = "CHUNK" /\ s[p].data = Slice(p - 2)
              /\ s[q].what = "CHUNK" /\ s[q].data = Slice(q - 2)
          BY <2>8, <3>1, <3>2
        <4>2. Below(Slice(p - 2), Slice(q - 2))
          BY <3>1, <3>2, SlicesFacts
        <4> QED BY <4>1, <4>2 DEF WebBefore
      <3>3. CASE ~(p - 2 \in 1 .. Turns /\ q - 2 \in 1 .. Turns)
        <4>1. Rank(s[p].what) < Rank(s[q].what)
          BY <2>8, <3>1, <3>3 DEF Rank
        <4> QED BY <4>1 DEF WebBefore
      <3> QED BY <3>2, <3>3
    <2>10. UNION ChunksOf(s, c) = Groups
      <3>1. ChunksOf(s, c) \subseteq {Slice(i) : i \in 1 .. Turns}
        <4> SUFFICES ASSUME NEW p \in DOMAIN s, s[p].what = "CHUNK"
                     PROVE  s[p].data \in {Slice(i) : i \in 1 .. Turns}
          BY DEF ChunksOf
        <4> QED BY <2>8
      <3>2. ASSUME NEW i \in 1 .. Turns
            PROVE  Slice(i) \in ChunksOf(s, c)
        <4>1. i + 2 \in DOMAIN s /\ s[i + 2] = m("CHUNK", Slices[i])
          BY <1>3, <2>15, <2>6
        <4>2. s[i + 2].id = c /\ s[i + 2].what = "CHUNK" /\ s[i + 2].data = Slice(i)
          BY <1>4, <4>1
        <4> QED BY <4>1, <4>2 DEF ChunksOf
      <3>3. ChunksOf(s, c) = {Slice(i) : i \in 1 .. Turns}
        BY <3>1, <3>2
      <3> QED BY <3>3, SlicesFacts
    <2>11. \A p \in DOMAIN s : s[p].what = "CHUNK" => s[p].data \in SUBSET Groups /\ s[p].data # {}
      BY <2>8, SlicesFacts
    <2> QED BY <1>8, <2>14, <2>8, <2>9, <2>10, <2>11 DEF s
  <1> QED BY <1>7, <1>8

(* A call that had no message in a queue and now has some at its end. *)
LEMMA ConcatFacts ==
  ASSUME NEW S, NEW s \in Seq(S), NEW t \in Seq(S), NEW c, Silent(s, c),
         \A p \in DOMAIN t : t[p].id = c, WebOrdered(s), WebOrdered(t)
  PROVE  /\ s \o t \in Seq(S) /\ WebOrdered(s \o t)
         /\ \A p \in DOMAIN (s \o t) :
              \/ p \in DOMAIN s /\ (s \o t)[p] = s[p]
              \/ \E q \in DOMAIN t : (s \o t)[p] = t[q]
         /\ ChunksOf(s \o t, c) = ChunksOf(t, c)
         /\ \A d : d # c => /\ ChunksOf(s \o t, d) = ChunksOf(s, d)
                            /\ Silent(s, d) => Silent(s \o t, d)
  <1> DEFINE u == s \o t
  <1>1. /\ Len(s) \in Nat /\ DOMAIN s = 1 .. Len(s)
        /\ Len(t) \in Nat /\ DOMAIN t = 1 .. Len(t)
    BY LenProperties
  <1>2. /\ u \in Seq(S) /\ Len(u) = Len(s) + Len(t)
        /\ \A i \in 1 .. Len(s) + Len(t) : u[i] = IF i <= Len(s) THEN s[i] ELSE t[i - Len(s)]
    BY ConcatProperties
  <1>3. DOMAIN u = 1 .. Len(s) + Len(t)
    BY <1>2, LenProperties
  <1> HIDE DEF u
  <1>4. \A p \in DOMAIN s : p \in DOMAIN u /\ u[p] = s[p] /\ p \in Nat
    BY <1>1, <1>2, <1>3
  <1>5. \A p \in DOMAIN t : p + Len(s) \in DOMAIN u /\ u[p + Len(s)] = t[p]
    <2> SUFFICES ASSUME NEW p \in 1 .. Len(t)
                 PROVE  p + Len(s) \in DOMAIN u /\ u[p + Len(s)] = t[p]
      BY <1>1
    <2>1. p + Len(s) \in 1 .. Len(s) + Len(t) /\ ~(p + Len(s) <= Len(s)) /\ (p + Len(s)) - Len(s) = p
      BY <1>1
    <2> QED BY <1>2, <1>3, <2>1
  <1>6. ASSUME NEW p \in DOMAIN u, p \notin DOMAIN s
        PROVE  p \in Nat /\ p - Len(s) \in DOMAIN t /\ u[p] = t[p - Len(s)] /\ p > Len(s)
    BY <1>1, <1>2, <1>3, <1>6
  <1>7. WebOrdered(u)
    <2> SUFFICES ASSUME NEW p \in DOMAIN u, NEW q \in DOMAIN u, p < q, u[p].id = u[q].id
                 PROVE  WebBefore(u[p], u[q])
      BY DEF WebOrdered
    <2>1. CASE p \in DOMAIN s /\ q \in DOMAIN s
      BY <1>4, <2>1 DEF WebOrdered
    <2>2. CASE p \notin DOMAIN s /\ q \notin DOMAIN s
      <3>1. /\ p - Len(s) \in DOMAIN t /\ u[p] = t[p - Len(s)] /\ p \in Nat
            /\ q - Len(s) \in DOMAIN t /\ u[q] = t[q - Len(s)] /\ q \in Nat
        BY <1>6, <2>2
      <3>2. p - Len(s) < q - Len(s)
        BY <1>1, <3>1
      <3> QED BY <3>1, <3>2 DEF WebOrdered
    <2>3. CASE p \in DOMAIN s /\ q \notin DOMAIN s
      <3>1. u[p].id # c
        BY <1>4, <2>3 DEF Silent
      <3>2. u[q].id = c
        BY <1>6, <2>3
      <3> QED BY <3>1, <3>2
    <2>4. CASE p \notin DOMAIN s /\ q \in DOMAIN s
      BY <1>1, <1>6, <2>4
    <2> QED BY <2>1, <2>2, <2>3, <2>4
  <1>8. \A p \in DOMAIN u : \/ p \in DOMAIN s /\ u[p] = s[p]
                            \/ \E q \in DOMAIN t : u[p] = t[q]
    BY <1>4, <1>6
  <1>9. ChunksOf(u, c) = ChunksOf(t, c)
    <2>1. ChunksOf(u, c) \subseteq ChunksOf(t, c)
      <3> SUFFICES ASSUME NEW p \in DOMAIN u, u[p].id = c, u[p].what = "CHUNK"
                   PROVE  u[p].data \in ChunksOf(t, c)
        BY DEF ChunksOf
      <3>1. p \notin DOMAIN s
        BY <1>4 DEF Silent
      <3>2. p - Len(s) \in DOMAIN t /\ u[p] = t[p - Len(s)]
        BY <1>6, <3>1
      <3> QED BY <3>2 DEF ChunksOf
    <2>2. ChunksOf(t, c) \subseteq ChunksOf(u, c)
      BY <1>5 DEF ChunksOf
    <2> QED BY <2>1, <2>2
  <1>10. ASSUME NEW d, d # c
         PROVE  /\ ChunksOf(u, d) = ChunksOf(s, d)
                /\ Silent(s, d) => Silent(u, d)
    <2>1. \A p \in DOMAIN u : u[p].id = d => p \in DOMAIN s /\ u[p] = s[p]
      BY <1>8, <1>10
    <2>2. \A p \in DOMAIN s : p \in DOMAIN u /\ u[p] = s[p]
      BY <1>4
    <2>3. ChunksOf(u, d) \subseteq ChunksOf(s, d)
      BY <2>1 DEF ChunksOf
    <2>4. ChunksOf(s, d) \subseteq ChunksOf(u, d)
      BY <2>2 DEF ChunksOf
    <2> QED BY <2>1, <2>3, <2>4 DEF Silent
  <1> QED BY <1>2, <1>7, <1>8, <1>9, <1>10 DEF u

-----------------------------------------------------------------------------
(* What keeps a part of the invariant. *)

LEMMA CallFrame ==
  ASSUME NEW c \in Call, KindFits(c), NothingBefore(c),
         kind'[c] = kind[c], native'[c] = native[c], web'[c] = web[c], unheard'[c] = unheard[c],
         value'[c] = value[c], lost'[c] = lost[c], gen'[c] = gen[c],
         Silent(toWeb, c) => Silent(toWeb', c)
  PROVE  KindFits(c)' /\ NothingBefore(c)'
  <1>1. KindFits(c)'
    BY DEF KindFits
  <1>2. NothingBefore(c)'
    BY DEF NothingBefore, Posted
  <1> QED BY <1>1, <1>2

LEMMA UploadFrame ==
  ASSUME NEW c \in Call, UploadKept(c),
         value'[c] = value[c], lost'[c] = lost[c], gen'[c] = gen[c],
         ChunksOf(toWeb', c) = ChunksOf(toWeb, c), Silent(toWeb, c) => Silent(toWeb', c),
         Posted(c)' => Posted(c), web'[c] = "done" => web[c] = "done",
         web'[c] = "uploading" => web[c] = "uploading"
  PROVE  UploadKept(c)'
  <1>1. Passed(c)' = Passed(c)
    BY DEF Passed, Elements
  <1> QED BY <1>1 DEF UploadKept, InOrder, Elements

LEMMA DownloadFrame ==
  ASSUME NEW c \in Call, DownloadKept(c),
         value'[c] = value[c], read'[c] = read[c], buffer'[c] = buffer[c],
         ChunksOf(toNative', c) = ChunksOf(toNative, c),
         (web'[c] = "done") = (web[c] = "done"),
         native'[c] = "resolved" => StreamOver(toNative', c)
  PROVE  DownloadKept(c)'
  <1>1. Arrived(c)' = Arrived(c) /\ Arriving(c)' = Arriving(c)
    BY DEF Arrived, Arriving, Numbers, Elements
  <1>2. PostedChunks(c)' = PostedChunks(c)
    BY DEF PostedChunks
  <1>3. /\ Len(buffer'[c]) <= 3 /\ Len(buffer'[c]) <= read'[c]
        /\ (read'[c] - Len(buffer'[c])) % 3 = 0
        /\ \A j \in DOMAIN buffer'[c] : buffer'[c][j] = read'[c] - Len(buffer'[c]) + j
    BY DEF DownloadKept
  <1>4. /\ \A s \in Elements(value'[c]) : GoodPiece(s)
        /\ \A i, j \in DOMAIN value'[c] :
             i < j => Below(Elements(value'[c][i]), Elements(value'[c][j]))
    BY DEF DownloadKept
  <1>5. Below(Arrived(c), Arriving(c))' /\ (Arrived(c) \cup Arriving(c))' = 1 .. PostedChunks(c)'
    BY <1>1, <1>2 DEF DownloadKept
  <1> QED BY <1>3, <1>4, <1>5 DEF DownloadKept

(* The page leaves no state of a call that a message on its way speaks of. *)
WebGoesOn ==
  \A d \in Call : /\ web[d] = "done" => web'[d] = "done"
                  /\ web[d] \in {"streaming", "stuck"} => web'[d] \in {"streaming", "stuck", "done"}

LEMMA NativeFitsFrame ==
  ASSUME NEW m \in ToNativeMsg, NativeFits(m), kind' = kind,
         web[m.id] = "done" => web'[m.id] = "done",
         web[m.id] \in {"streaming", "stuck"} => web'[m.id] \in {"streaming", "stuck", "done"}
  PROVE  NativeFits(m)'
  BY DEF NativeFits, GoodPiece

LEMMA WebQueueFrame ==
  ASSUME WebQueue, toWeb \in Seq(ToWebMsg), toWeb' = toWeb, kind' = kind,
         \A d \in Call : web[d] = "none" => web'[d] = "none"
  PROVE  WebQueue'
  <1>1. WebOrdered(toWeb)'
    BY DEF WebQueue
  <1>2. ASSUME NEW p \in DOMAIN toWeb PROVE WebFits(toWeb[p])'
    <2>1. toWeb[p] \in ToWebMsg
      BY LenProperties
    <2>2. toWeb[p].id \in Call
      BY <2>1 DEF ToWebMsg
    <2>3. WebFits(toWeb[p])
      BY DEF WebQueue
    <2> QED BY <2>2, <2>3 DEF WebFits
  <1> QED BY <1>1, <1>2 DEF WebQueue

LEMMA NativeQueueFrame ==
  ASSUME NativeQueue, toNative \in Seq(ToNativeMsg), toNative' = toNative, kind' = kind, WebGoesOn
  PROVE  NativeQueue'
  <1>1. NativeOrdered(toNative)'
    BY DEF NativeQueue
  <1>2. ASSUME NEW p \in DOMAIN toNative PROVE NativeFits(toNative[p])'
    <2>1. toNative[p] \in ToNativeMsg
      BY LenProperties
    <2>2. toNative[p].id \in Call
      BY <2>1 DEF ToNativeMsg
    <2>3. NativeFits(toNative[p])
      BY DEF NativeQueue
    <2> QED BY <2>1, <2>2, <2>3, NativeFitsFrame DEF WebGoesOn
  <1> QED BY <1>1, <1>2 DEF NativeQueue

(* A message that fits is posted. *)
LEMMA NativeQueuePost ==
  ASSUME NativeQueue, toNative \in Seq(ToNativeMsg), kind' = kind, WebGoesOn,
         NEW m \in ToNativeMsg, toNative' = Append(toNative, m), NativeFits(m)',
         m.what \in Streamed => \A p \in DOMAIN toNative :
           toNative[p].id = m.id /\ toNative[p].what \in Streamed => NativeBefore(toNative[p], m)
  PROVE  NativeQueue'
  <1>1. NativeOrdered(toNative')
    BY NativeAppend DEF NativeQueue
  <1>2. ASSUME NEW p \in DOMAIN toNative' PROVE NativeFits(toNative[p])'
    <2>1. CASE p = Len(toNative) + 1
      <3>1. toNative'[p] = m
        BY <2>1, AppendFacts
      <3> QED BY <3>1 DEF NativeFits
    <2>2. CASE p \in DOMAIN toNative
      <3>1. toNative'[p] = toNative[p]
        BY <2>2, AppendFacts
      <3>2. PICK n \in ToNativeMsg : n = toNative[p]
        BY <2>2, LenProperties
      <3>3. n.id \in Call
        BY DEF ToNativeMsg
      <3>4. NativeFits(n)
        BY <2>2, <3>2 DEF NativeQueue
      <3>5. NativeFits(n)'
        BY <3>3, <3>4, NativeFitsFrame DEF WebGoesOn
      <3> QED BY <3>1, <3>2, <3>5 DEF NativeFits
    <2> QED BY <2>1, <2>2, AppendFacts
  <1> QED BY <1>1, <1>2 DEF NativeQueue

(* The first message of a queue is taken. *)
LEMMA NativeQueueTake ==
  ASSUME NativeQueue, toNative \in Seq(ToNativeMsg), toNative # <<>>, kind' = kind, web' = web,
         toNative' = Tail(toNative)
  PROVE  NativeQueue'
  <1>1. NativeOrdered(toNative')
    BY NativeTail DEF NativeQueue
  <1>2. ASSUME NEW p \in DOMAIN toNative' PROVE NativeFits(toNative[p])'
    <2>1. p + 1 \in DOMAIN toNative /\ toNative'[p] = toNative[p + 1]
      BY TailFacts
    <2>2. PICK n \in ToNativeMsg : n = toNative[p + 1]
      BY <2>1, LenProperties
    <2>3. NativeFits(n)
      BY <2>1, <2>2 DEF NativeQueue
    <2>4. NativeFits(n)'
      BY <2>3, NativeFitsFrame
    <2> QED BY <2>1, <2>2, <2>4 DEF NativeFits
  <1> QED BY <1>1, <1>2 DEF NativeQueue

LEMMA WebQueueTake ==
  ASSUME WebQueue, toWeb \in Seq(ToWebMsg), toWeb # <<>>, kind' = kind,
         \A d \in Call : d # Head(toWeb).id => web'[d] = web[d],
         toWeb' = Tail(toWeb)
  PROVE  WebQueue'
  <1>1. WebOrdered(toWeb')
    BY WebTail DEF WebQueue
  <1>2. ASSUME NEW p \in DOMAIN toWeb' PROVE WebFits(toWeb[p])'
    <2>1. p + 1 \in DOMAIN toWeb /\ toWeb'[p] = toWeb[p + 1]
      BY TailFacts
    <2>2. PICK n \in ToWebMsg : n = toWeb[p + 1]
      BY <2>1, LenProperties
    <2>3. WebFits(n) /\ n.id \in Call /\ n.what \in WebWhat /\ toWeb'[p] = n
      BY <2>1, <2>2 DEF WebQueue, ToWebMsg
    <2>4. CASE n.id # Head(toWeb).id
      BY <2>3, <2>4 DEF WebFits
    <2>5. CASE n.id = Head(toWeb).id
      <3>1. WebBefore(Head(toWeb), n)
        BY <2>3, <2>5, WebTail DEF WebQueue
      <3>2. n.what # "request"
        BY <3>1 DEF WebBefore, Rank
      <3> QED BY <2>3, <3>2 DEF WebFits
    <2> QED BY <2>4, <2>5
  <1> QED BY <1>1, <1>2 DEF WebQueue

(* What is added to a sequence is an element of it, and nothing else is. *)
LEMMA ElementsAppend ==
  ASSUME NEW S, NEW s \in Seq(S), NEW e \in S
  PROVE  Elements(Append(s, e)) = Elements(s) \cup {e}
  <1> DEFINE t == Append(s, e)
  <1>1. /\ Len(s) + 1 \in DOMAIN t /\ t[Len(s) + 1] = e
        /\ \A p \in DOMAIN s : p \in DOMAIN t /\ t[p] = s[p]
        /\ \A p \in DOMAIN t : p = Len(s) + 1 \/ p \in DOMAIN s
    BY AppendFacts
  <1> HIDE DEF t
  <1>2. Elements(t) \subseteq Elements(s) \cup {e}
    BY <1>1 DEF Elements
  <1>3. Elements(s) \cup {e} \subseteq Elements(t)
    BY <1>1 DEF Elements
  <1> QED BY <1>2, <1>3 DEF t

-----------------------------------------------------------------------------
(* In the beginning no call was made. *)
LEMMA Initially == Init => IInv
  <1> SUFFICES ASSUME Init PROVE IInv
    OBVIOUS
  <1>1. toWeb = <<>> /\ toNative = <<>> /\ DOMAIN toWeb = {} /\ DOMAIN toNative = {}
    BY DEF Init
  <1>2. \A S : <<>> \in Seq(S)
    BY EmptySeq
  <1>3. Typed
    <2>1. gen \in [Call -> GenState]
      BY DEF Init, GenState
    <2>2. native \in [Call -> NativeState] /\ web \in [Call -> WebState]
      BY DEF Init, NativeState, WebState
    <2>3. value \in [Call -> Seq(Piece)] /\ buffer \in [Call -> Seq(Nat)]
      BY <1>2 DEF Init
    <2>4. read \in [Call -> 0 .. Stored]
      BY DEF Init
    <2>5. toWeb \in Seq(ToWebMsg) /\ toNative \in Seq(ToNativeMsg)
      BY <1>1, <1>2
    <2> QED BY <2>1, <2>2, <2>3, <2>4, <2>5 DEF Init, Typed
  <1>4. CallsFit
    BY <1>1 DEF Init, CallsFit, KindFits, NothingBefore, Posted, Silent
  <1>5. WebQueue /\ NativeQueue
    BY <1>1 DEF WebQueue, WebOrdered, NativeQueue, NativeOrdered
  <1>6. ASSUME NEW c \in Call
        PROVE  /\ Elements(value[c]) = {} /\ DOMAIN value[c] = {} /\ lost[c] = {}
               /\ ChunksOf(toWeb, c) = {} /\ ChunksOf(toNative, c) = {}
    BY <1>1 DEF Init, Elements, ChunksOf
  <1>7. Uploads
    BY <1>6, <1>1 DEF Init, Uploads, UploadKept, InOrder, Passed, Below, Posted, Silent
  <1>8. ASSUME NEW c \in Call PROVE DownloadKept(c)
    <2>1. buffer[c] = <<>> /\ Len(buffer[c]) = 0 /\ DOMAIN buffer[c] = {} /\ read[c] = 0
      BY DEF Init
    <2>2. Arrived(c) = {} /\ Arriving(c) = {}
      BY <1>6 DEF Arrived, Arriving, Numbers
    <2>3. PostedChunks(c) = 0 /\ 1 .. 0 = {}
      BY <2>1 DEF Init, PostedChunks
    <2>4. native[c] # "resolved" /\ 0 % 3 = 0
      BY DEF Init
    <2> QED BY <1>6, <2>1, <2>2, <2>3, <2>4 DEF DownloadKept, Below
  <1>9. OthersRead
    BY DEF Init, OthersRead
  <1> QED BY <1>3, <1>4, <1>5, <1>7, <1>8, <1>9 DEF IInv, Downloads

-----------------------------------------------------------------------------
(* The steps. *)

(* The WebView touches no call. *)
LEMMA PagePreserves ==
  ASSUME IInv, PageNext \/ UNCHANGED vars
  PROVE  IInv'
  <1>1. UNCHANGED <<kind, native, web, gen, read, buffer, value, lost, unheard, toWeb, toNative>>
    BY DEF PageNext, vars, missing, channels
  <1>2. Typed'
    BY <1>1 DEF IInv, Typed, PageNext, vars
  <1>3. CallsFit'
    BY <1>1 DEF IInv, CallsFit, KindFits, NothingBefore, Posted
  <1>4. WebGoesOn
    BY <1>1 DEF WebGoesOn
  <1>5. WebQueue' /\ NativeQueue'
    BY <1>1, <1>4, WebQueueFrame, NativeQueueFrame DEF IInv, Typed
  <1>6. Uploads'
    BY <1>1, UploadFrame DEF IInv, Uploads, Posted
  <1>7. Downloads'
    BY <1>1, DownloadFrame DEF IInv, Downloads, DownloadKept
  <1>8. OthersRead'
    BY <1>1 DEF IInv, OthersRead
  <1> QED BY <1>2, <1>3, <1>5, <1>6, <1>7, <1>8 DEF IInv

(* A call is made. *)
LEMMA CallOutPreserves ==
  ASSUME IInv, NEW c \in Call, CallOut(c)
  PROVE  IInv'
  <1> DEFINE ready == page = "ready"
  <1>1. /\ native[c] = "idle" /\ unheard[c] = {} /\ web[c] = "none" /\ value[c] = <<>>
        /\ lost[c] = {} /\ ~gen[c].finished /\ Silent(toWeb, c)
    BY DEF CallOut, IInv, CallsFit, NothingBefore, Posted
  <1>2. /\ UNCHANGED <<page, started, kind, web, gen, read, buffer, value, lost, toNative>>
        /\ native' = [native EXCEPT ![c] = IF page = "absent" THEN "rejected"
                        ELSE IF kind[c] = "receive" THEN "callback" ELSE "answer"]
        /\ unheard' = [unheard EXCEPT ![c] = IF page = "loading" THEN {"request"} ELSE {}]
        /\ toWeb' = IF ready THEN toWeb \o Posts(c) ELSE toWeb
    BY DEF CallOut, At
  <1>3. /\ native \in [Call -> NativeState] /\ unheard \in [Call -> SUBSET {"request", "END"}]
        /\ toWeb \in Seq(ToWebMsg) /\ WebOrdered(toWeb) /\ toNative \in Seq(ToNativeMsg)
        /\ page \in {"absent", "loading", "ready"}
    BY DEF IInv, Typed, WebQueue
  <1>4. /\ native'[c] \in {"rejected", "callback", "answer"}
        /\ native'[c] = "callback" => kind[c] = "receive"
        /\ native'[c] = "answer" => kind[c] # "receive"
        /\ Posted(c)' <=> ready
        /\ \A d \in Call : d # c => native'[d] = native[d] /\ unheard'[d] = unheard[d]
    BY <1>2, <1>3 DEF Posted
  <1>5. /\ toWeb' \in Seq(ToWebMsg) /\ WebOrdered(toWeb')
        /\ \A p \in DOMAIN toWeb' :
              \/ p \in DOMAIN toWeb /\ toWeb'[p] = toWeb[p]
              \/ \E q \in DOMAIN Posts(c) : toWeb'[p] = Posts(c)[q]
        /\ ready => ChunksOf(toWeb', c) = ChunksOf(Posts(c), c)
        /\ \A d \in Call \ {c} : /\ ChunksOf(toWeb', d) = ChunksOf(toWeb, d)
                                 /\ Silent(toWeb, d) => Silent(toWeb', d)
    <2>1. CASE ready
      BY <1>1, <1>2, <1>3, <2>1, PostsFacts, ConcatFacts
    <2>2. CASE ~ready
      BY <1>2, <1>3, <2>2
    <2> QED BY <2>1, <2>2
  <1>6. Typed'
    <2>1. native' \in [Call -> NativeState]
      BY <1>2, <1>3, <1>4 DEF NativeState
    <2>2. unheard' \in [Call -> SUBSET {"request", "END"}]
      BY <1>2, <1>3
    <2> QED BY <1>2, <1>5, <2>1, <2>2 DEF IInv, Typed
  <1>7. CallsFit'
    <2> SUFFICES ASSUME NEW d \in Call PROVE KindFits(d)' /\ NothingBefore(d)'
      BY DEF CallsFit
    <2>1. KindFits(d) /\ NothingBefore(d)
      BY DEF IInv, CallsFit
    <2>2. CASE d # c
      BY <1>2, <1>4, <1>5, <2>1, <2>2, CallFrame
    <2>3. CASE d = c
      <3>1. KindFits(c)'
        BY <1>1, <1>2, <1>4 DEF KindFits
      <3>2. ~ready => Silent(toWeb', c)
        BY <1>1, <1>2
      <3>3. NothingBefore(c)'
        BY <1>1, <1>2, <1>4, <3>2 DEF NothingBefore
      <3> QED BY <2>3, <3>1, <3>3
    <2> QED BY <2>2, <2>3
  <1>8. WebQueue'
    <2>1. ASSUME NEW p \in DOMAIN toWeb' PROVE WebFits(toWeb[p])'
      <3>1. CASE p \in DOMAIN toWeb /\ toWeb'[p] = toWeb[p]
        BY <1>2, <3>1 DEF IInv, WebQueue, WebFits
      <3>2. ASSUME NEW q \in DOMAIN Posts(c), toWeb'[p] = Posts(c)[q]
            PROVE  WebFits(toWeb[p])'
        BY <1>1, <1>2, <3>2, PostsFacts DEF WebFits
      <3> QED BY <1>5, <3>1, <3>2
    <2> QED BY <1>5, <2>1 DEF WebQueue
  <1>9. NativeQueue'
    <2>1. WebGoesOn
      BY <1>2 DEF WebGoesOn
    <2> QED BY <1>2, <1>3, <2>1, NativeQueueFrame DEF IInv
  <1>10. Uploads'
    <2> SUFFICES ASSUME NEW d \in Call, kind[d] = "send" PROVE UploadKept(d)'
      BY <1>2 DEF Uploads
    <2>1. CASE d # c
      <3>1. UploadKept(d) /\ (Posted(d)' => Posted(d))
        BY <1>4, <2>1 DEF IInv, Uploads, Posted
      <3> QED BY <1>2, <1>5, <2>1, <3>1, UploadFrame
    <2>2. CASE d = c
      <3>1. value'[c] = <<>> /\ lost'[c] = {} /\ web'[c] = "none" /\ ~gen'[c].finished
        BY <1>1, <1>2
      <3>2. Elements(value[c])' = {} /\ Passed(c)' = {} /\ InOrder(value[c])'
        BY <3>1 DEF Elements, Passed, InOrder
      <3>3. Posted(c)' => UNION ChunksOf(toWeb', c) = Groups
        BY <1>4, <1>5, <2>2, PostsFacts
      <3> QED BY <2>2, <3>1, <3>2, <3>3 DEF UploadKept, Below
    <2> QED BY <2>1, <2>2
  <1>11. Downloads'
    <2> SUFFICES ASSUME NEW d \in Call, kind[d] = "receive" PROVE DownloadKept(d)'
      BY <1>2 DEF Downloads
    <2>1. DownloadKept(d)
      BY DEF IInv, Downloads
    <2>2. native'[d] = "resolved" => StreamOver(toNative', d)
      BY <1>2, <1>4, <2>1 DEF DownloadKept
    <2> QED BY <1>2, <2>1, <2>2, DownloadFrame
  <1>12. OthersRead'
    BY <1>2 DEF IInv, OthersRead
  <1> QED BY <1>6, <1>7, <1>8, <1>9, <1>10, <1>11, <1>12 DEF IInv

(* What is known of the first message to the native side, and of the others of
   its call. *)
LEMMA NativeHead ==
  ASSUME IInv, toNative # <<>>
  PROVE  /\ Head(toNative) \in ToNativeMsg /\ Head(toNative).id \in Call
         /\ Head(toNative).what \in NativeWhat /\ NativeFits(Head(toNative))
         /\ Tail(toNative) \in Seq(ToNativeMsg)
         /\ \A d \in Call : ChunksOf(toNative, d) = ChunksOf(Tail(toNative), d) \cup
              (IF Head(toNative).id = d /\ Head(toNative).what = "CHUNK" THEN {Head(toNative).data} ELSE {})
         /\ \A d \in Call : StreamOver(toNative, d) => StreamOver(Tail(toNative), d)
  <1>1. toNative \in Seq(ToNativeMsg)
    BY DEF IInv, Typed
  <1>2. 1 \in DOMAIN toNative /\ toNative[1] = Head(toNative) /\ Head(toNative) \in ToNativeMsg
        /\ Tail(toNative) \in Seq(ToNativeMsg)
    BY <1>1, TailFacts
  <1>3. NativeFits(Head(toNative))
    BY <1>2 DEF IInv, NativeQueue
  <1> QED BY <1>1, <1>2, <1>3, ChunksTail DEF ToNativeMsg

(* The native side hears an answer, or what is not of a chunk. *)
LEMMA NativeHears ==
  ASSUME IInv, toNative # <<>>, Head(toNative).what # "CHUNK",
         NEW n \in NativeState,
         \/ UNCHANGED native
         \/ /\ native' = [native EXCEPT ![Head(toNative).id] = n]
            /\ native[Head(toNative).id] \notin {"idle", "rejected"} /\ n \notin {"idle", "rejected"}
            /\ n \in {"callback", "receiving"} => kind[Head(toNative).id] = "receive"
            /\ n \in {"answer", "dropped"} => kind[Head(toNative).id] # "receive"
            /\ n = "resolved" => /\ web[Head(toNative).id] = "done"
                                 /\ kind[Head(toNative).id] = "receive"
                                      => StreamOver(Tail(toNative), Head(toNative).id),
         toNative' = Tail(toNative),
         UNCHANGED <<page, started, kind, web, gen, read, buffer, value, lost, unheard, toWeb>>
  PROVE  IInv'
  <1> DEFINE c == Head(toNative).id
  <1>1. /\ c \in Call /\ toNative' \in Seq(ToNativeMsg)
        /\ \A d \in Call : ChunksOf(toNative', d) = ChunksOf(toNative, d)
        /\ \A d \in Call : StreamOver(toNative, d) => StreamOver(toNative', d)
    BY NativeHead
  <1>2. native \in [Call -> NativeState] /\ toNative \in Seq(ToNativeMsg)
    BY DEF IInv, Typed
  <1>3. /\ native' \in [Call -> NativeState]
        /\ \A d \in Call : native'[d] = native[d] \/ (d = c /\ native'[d] = n)
        /\ \A d \in Call : Posted(d)' <=> Posted(d)
    <2>1. CASE UNCHANGED native
      BY <1>2, <2>1 DEF Posted
    <2>2. CASE native' = [native EXCEPT ![c] = n] /\ native[c] \notin {"idle", "rejected"}
               /\ n \notin {"idle", "rejected"}
      BY <1>1, <1>2, <2>2 DEF Posted
    <2> QED BY <2>1, <2>2
  <1>4. Typed'
    BY <1>1, <1>3 DEF IInv, Typed
  <1>5. CallsFit'
    <2> SUFFICES ASSUME NEW d \in Call PROVE KindFits(d)' /\ NothingBefore(d)'
      BY DEF CallsFit
    <2>1. KindFits(d) /\ NothingBefore(d)
      BY DEF IInv, CallsFit
    <2>2. KindFits(d)'
      BY <1>2, <1>3, <2>1 DEF KindFits
    <2>3. native'[d] = "idle" => native[d] = "idle"
      BY <1>2, <1>1
    <2>4. NothingBefore(d)'
      BY <1>3, <2>1, <2>3 DEF NothingBefore
    <2> QED BY <2>2, <2>4
  <1>6. WebQueue'
    BY WebQueueFrame DEF IInv, Typed
  <1>7. NativeQueue'
    BY <1>2, NativeQueueTake DEF IInv
  <1>8. Uploads'
    <2> SUFFICES ASSUME NEW d \in Call, kind[d] = "send" PROVE UploadKept(d)'
      BY DEF Uploads
    <2>1. UploadKept(d)
      BY DEF IInv, Uploads
    <2> QED BY <1>3, <2>1, UploadFrame
  <1>9. Downloads'
    <2> SUFFICES ASSUME NEW d \in Call, kind[d] = "receive" PROVE DownloadKept(d)'
      BY DEF Downloads
    <2>1. DownloadKept(d)
      BY DEF IInv, Downloads
    <2>2. native'[d] = "resolved" => StreamOver(toNative', d)
      <3>1. CASE native'[d] = native[d]
        BY <1>1, <2>1, <3>1 DEF DownloadKept
      <3>2. CASE d = c /\ native'[d] = n /\ native'[d] # native[d]
        BY <3>2
      <3> QED BY <1>3, <3>1, <3>2
    <2> QED BY <1>1, <2>1, <2>2, DownloadFrame
  <1>10. OthersRead'
    BY DEF IInv, OthersRead
  <1> QED BY <1>4, <1>5, <1>6, <1>7, <1>8, <1>9, <1>10 DEF IInv

(* A piece of a download arrives. *)
LEMMA PiecePreserves ==
  ASSUME IInv, toNative # <<>>, Head(toNative).what = "CHUNK",
         native[Head(toNative).id] = "receiving",
         value' = [value EXCEPT ![Head(toNative).id] = Append(@, Head(toNative).data)],
         toNative' = Tail(toNative),
         UNCHANGED <<page, started, kind, native, web, gen, read, buffer, lost, unheard, toWeb>>
  PROVE  IInv'
  <1>1. PICK c \in Call, data \in Seq(Nat) :
          /\ c = Head(toNative).id /\ data = Head(toNative).data
          /\ toNative' \in Seq(ToNativeMsg)
          /\ kind[c] = "receive" /\ web[c] \in {"streaming", "stuck", "done"} /\ GoodPiece(data)
          /\ \A d \in Call : d # c => ChunksOf(toNative', d) = ChunksOf(toNative, d)
          /\ ChunksOf(toNative, c) = ChunksOf(toNative', c) \cup {data}
          /\ \A d \in Call : StreamOver(toNative, d) => StreamOver(toNative', d)
    <2>1. /\ Head(toNative).id \in Call /\ toNative' \in Seq(ToNativeMsg) /\ NativeFits(Head(toNative))
          /\ \A d \in Call : ChunksOf(toNative, d) = ChunksOf(toNative', d) \cup
               (IF Head(toNative).id = d /\ Head(toNative).what = "CHUNK" THEN {Head(toNative).data} ELSE {})
          /\ \A d \in Call : StreamOver(toNative, d) => StreamOver(toNative', d)
      BY NativeHead
    <2>2. /\ kind[Head(toNative).id] = "receive"
          /\ web[Head(toNative).id] \in {"streaming", "stuck", "done"}
          /\ GoodPiece(Head(toNative).data)
      BY <2>1 DEF NativeFits, Streamed
    <2>3. Head(toNative).data \in Seq(Nat)
      BY <2>2 DEF GoodPiece
    <2>4. /\ \A d \in Call : d # Head(toNative).id => ChunksOf(toNative', d) = ChunksOf(toNative, d)
          /\ ChunksOf(toNative, Head(toNative).id)
               = ChunksOf(toNative', Head(toNative).id) \cup {Head(toNative).data}
      BY <2>1
    <2> QED BY <2>1, <2>2, <2>3, <2>4, Zenon
  <1>2. kind[c] = "receive" /\ GoodPiece(data) /\ native[c] = "receiving"
        /\ value' = [value EXCEPT ![c] = Append(@, data)]
    BY <1>1
  <1>3. /\ value \in [Call -> Seq(Piece)] /\ data \in Piece /\ toNative \in Seq(ToNativeMsg)
        /\ native \in [Call -> NativeState] /\ buffer \in [Call -> Seq(Nat)]
        /\ read \in [Call -> 0 .. Stored]
    <2>1. data \in Piece
      BY <1>1 DEF Piece
    <2> QED BY <2>1 DEF IInv, Typed
  <1>4. /\ value' \in [Call -> Seq(Piece)] /\ value'[c] = Append(value[c], data)
        /\ \A d \in Call : d # c => value'[d] = value[d]
        /\ Elements(value'[c]) = Elements(value[c]) \cup {data}
    <2>1. value[c] \in Seq(Piece) /\ Append(value[c], data) \in Seq(Piece)
      BY <1>1, <1>3, AppendProperties
    <2>2. value'[c] = Append(value[c], data) /\ value' \in [Call -> Seq(Piece)]
          /\ \A d \in Call : d # c => value'[d] = value[d]
      BY <1>2, <1>3, <2>1
    <2> QED BY <1>3, <2>1, <2>2, ElementsAppend
  <1>5. Typed'
    BY <1>1, <1>4 DEF IInv, Typed
  <1>6. CallsFit'
    <2> SUFFICES ASSUME NEW d \in Call PROVE KindFits(d)' /\ NothingBefore(d)'
      BY DEF CallsFit
    <2>1. KindFits(d) /\ NothingBefore(d)
      BY DEF IInv, CallsFit
    <2>2. CASE d # c
      BY <1>4, <2>1, <2>2, CallFrame
    <2>3. CASE d = c
      <3>1. KindFits(c)'
        BY <2>1, <2>3 DEF KindFits
      <3>2. Posted(c)' /\ native'[c] # "idle"
        <4>1. web[c] # "none"
          BY <1>1
        <4>2. Posted(c)
          BY <2>1, <2>3, <4>1 DEF NothingBefore
        <4> QED BY <1>2, <4>2 DEF Posted
      <3> QED BY <2>3, <3>1, <3>2 DEF NothingBefore
    <2> QED BY <2>2, <2>3
  <1>7. WebQueue'
    BY WebQueueFrame DEF IInv, Typed
  <1>8. NativeQueue'
    BY <1>3, NativeQueueTake DEF IInv
  <1>9. Uploads'
    <2> SUFFICES ASSUME NEW d \in Call, kind[d] = "send" PROVE UploadKept(d)'
      BY DEF Uploads
    <2>1. UploadKept(d) /\ d # c /\ (Posted(d)' => Posted(d))
      BY <1>2 DEF IInv, Uploads, Posted
    <2> QED BY <1>4, <2>1, UploadFrame
  <1>10. Downloads'
    <2> SUFFICES ASSUME NEW d \in Call, kind[d] = "receive" PROVE DownloadKept(d)'
      BY DEF Downloads
    <2>1. DownloadKept(d)
      BY DEF IInv, Downloads
    <2>2. native'[d] = "resolved" => StreamOver(toNative', d)
      BY <1>1, <2>1 DEF DownloadKept
    <2>3. CASE d # c
      BY <1>1, <1>4, <2>1, <2>2, <2>3, DownloadFrame
    <2>4. CASE d = c
      <3>1. Arrived(c)' = Arrived(c) \cup Elements(data)
        BY <1>4 DEF Arrived, Numbers
      <3>2. Arriving(c) = Arriving(c)' \cup Elements(data)
        <4>1. Arriving(c)' = Numbers(ChunksOf(toNative', c))
          BY DEF Arriving, Numbers
        <4> QED BY <1>1, <4>1 DEF Arriving, Numbers
      <3>3. Below(Arrived(c), Arriving(c)) /\ Below(Arrived(c), Elements(data))
            /\ Below(Arrived(c), Arriving(c)')
        BY <2>1, <2>4, <3>2 DEF DownloadKept, Below
      <3>4. Below(Elements(data), Arriving(c)')
        <4>1. ASSUME NEW p \in DOMAIN toNative', toNative'[p].id = c, toNative'[p].what = "CHUNK"
              PROVE  Below(Elements(data), Elements(toNative'[p].data))
          <5>1. NativeBefore(Head(toNative), toNative'[p])
            BY <1>1, <1>3, <4>1, NativeTail DEF IInv, NativeQueue, Streamed
          <5> QED BY <1>1, <4>1, <5>1 DEF NativeBefore, Rank
        <4>2. \A s \in ChunksOf(toNative', c) : Below(Elements(data), Elements(s))
          BY <4>1 DEF ChunksOf
        <4>3. Arriving(c)' = Numbers(ChunksOf(toNative', c))
          BY DEF Arriving, Numbers
        <4> QED BY <4>2, <4>3 DEF Below, Numbers
      <3>5. Below(Arrived(c)', Arriving(c)')
        BY <3>1, <3>3, <3>4 DEF Below
      <3>6. Arrived(c)' \cup Arriving(c)' = 1 .. PostedChunks(c)'
        <4>1. PostedChunks(c)' = PostedChunks(c)
          BY DEF PostedChunks
        <4> QED BY <2>1, <2>4, <3>1, <3>2, <4>1 DEF DownloadKept
      <3>7. \A s \in Elements(value'[c]) : GoodPiece(s)
        BY <1>2, <1>4, <2>1, <2>4 DEF DownloadKept
      <3>8. \A i, j \in DOMAIN value'[c] :
              i < j => Below(Elements(value'[c][i]), Elements(value'[c][j]))
        <4> SUFFICES ASSUME NEW i \in DOMAIN value'[c], NEW j \in DOMAIN value'[c], i < j
                     PROVE  Below(Elements(value'[c][i]), Elements(value'[c][j]))
          OBVIOUS
        <4>1. /\ value'[c][Len(value[c]) + 1] = data
              /\ \A p \in DOMAIN value[c] : /\ p \in Nat /\ p < Len(value[c]) + 1
                                            /\ value'[c][p] = value[c][p]
              /\ \A p \in DOMAIN value'[c] : p = Len(value[c]) + 1 \/ p \in DOMAIN value[c]
              /\ Len(value[c]) \in Nat
          <5>1. PICK v \in Seq(Piece) : v = value[c]
            BY <1>3
          <5>2. value'[c] = Append(v, data) /\ data \in Piece
            BY <1>3, <1>4, <5>1
          <5>3. /\ Append(v, data)[Len(v) + 1] = data /\ Len(v) \in Nat
                /\ \A p \in DOMAIN v : p \in Nat /\ p < Len(v) + 1 /\ Append(v, data)[p] = v[p]
                /\ \A p \in DOMAIN Append(v, data) : p = Len(v) + 1 \/ p \in DOMAIN v
            BY <5>2, AppendFacts
          <5> QED BY <5>1, <5>2, <5>3
        <4>2. i \in DOMAIN value[c]
          BY <4>1
        <4>3. CASE j \in DOMAIN value[c]
          BY <2>1, <2>4, <4>1, <4>2, <4>3 DEF DownloadKept
        <4>4. CASE j = Len(value[c]) + 1
          <5>1. value'[c][i] \in Elements(value[c])
            BY <4>1, <4>2 DEF Elements
          <5>2. Elements(value'[c][i]) \subseteq Arrived(c)
            BY <5>1 DEF Arrived, Numbers
          <5>3. value'[c][j] = data
            BY <4>1, <4>4
          <5> QED BY <3>3, <5>2, <5>3 DEF Below
        <4> QED BY <4>1, <4>3, <4>4
      <3> QED BY <2>1, <2>2, <2>4, <3>5, <3>6, <3>7, <3>8 DEF DownloadKept
    <2> QED BY <2>3, <2>4
  <1>11. OthersRead'
    BY DEF IInv, OthersRead
  <1> QED BY <1>5, <1>6, <1>7, <1>8, <1>9, <1>10, <1>11 DEF IInv

(* The native side takes a message. *)
LEMMA NativeMessagePreserves ==
  ASSUME IInv, NativeMessage
  PROVE  IInv'
  <1> DEFINE h == Head(toNative)
             c == h.id
  <1>1. /\ toNative # <<>> /\ toNative' = Tail(toNative) /\ (NativeResponse(h) \/ NativeStream(h))
        /\ UNCHANGED <<page, started, kind, web, gen, read, buffer, lost, unheard, toWeb>>
    BY DEF NativeMessage, missing
  <1>2. c \in Call /\ NativeFits(h) /\ KindFits(c)
    BY <1>1, NativeHead DEF IInv, CallsFit
  <1>3. CASE NativeResponse(h)
    <2>1. h.what \in {"done", "failed"} /\ UNCHANGED value
      BY <1>3 DEF NativeResponse
    <2>2. CASE native[c] = "answer"
      <3>1. kind[c] # "receive" /\ (h.what = "done" => web[c] = "done")
        BY <1>2, <2>2 DEF KindFits, NativeFits
      <3>2. CASE h.what = "done"
        <4>1. native' = [native EXCEPT ![c] = "resolved"] /\ "resolved" \in NativeState
          BY <1>3, <2>2, <3>2 DEF NativeResponse, At, NativeState
        <4> QED BY <1>1, <2>1, <2>2, <3>1, <3>2, <4>1, NativeHears
      <3>3. CASE h.what = "failed"
        <4>1. native' = [native EXCEPT ![c] = "dropped"] /\ "dropped" \in NativeState
          BY <1>3, <2>2, <3>3 DEF NativeResponse, At, NativeState
        <4> QED BY <1>1, <2>1, <2>2, <3>1, <3>3, <4>1, NativeHears
      <3> QED BY <2>1, <3>2, <3>3
    <2>3. CASE native[c] # "answer"
      <3>1. UNCHANGED native /\ "idle" \in NativeState
        BY <1>3, <2>3 DEF NativeResponse, NativeState
      <3> QED BY <1>1, <2>1, <3>1, NativeHears
    <2> QED BY <2>2, <2>3
  <1>4. CASE NativeStream(h) /\ h.what = "START"
    <2>1. /\ native[c] = "callback" /\ native' = [native EXCEPT ![c] = "receiving"] /\ UNCHANGED value
          /\ "receiving" \in NativeState
      BY <1>4 DEF NativeStream, At, NativeState
    <2>2. kind[c] = "receive"
      BY <1>2, <2>1 DEF KindFits
    <2> QED BY <1>1, <1>4, <2>1, <2>2, NativeHears
  <1>5. CASE NativeStream(h) /\ h.what = "CHUNK"
    BY <1>1, <1>5, PiecePreserves DEF NativeStream
  <1>6. CASE NativeStream(h) /\ h.what = "END"
    <2>1. /\ native[c] = "receiving" /\ native' = [native EXCEPT ![c] = "resolved"] /\ UNCHANGED value
          /\ "resolved" \in NativeState
      BY <1>6 DEF NativeStream, At, NativeState
    <2>2. kind[c] = "receive" /\ web[c] = "done"
      BY <1>2, <1>6, <2>1 DEF KindFits, NativeFits
    <2>3. StreamOver(Tail(toNative), c)
      <3> SUFFICES ASSUME NEW q \in DOMAIN Tail(toNative), Tail(toNative)[q].id = c,
                          Tail(toNative)[q].what \in Streamed
                   PROVE  FALSE
        BY DEF StreamOver
      <3>1. toNative \in Seq(ToNativeMsg) /\ NativeOrdered(toNative) /\ h.what \in Streamed
        BY <1>6 DEF IInv, Typed, NativeQueue, Streamed
      <3>2. NativeBefore(h, Tail(toNative)[q])
        BY <1>1, <3>1, NativeTail
      <3> QED BY <1>6, <3>2 DEF NativeBefore, Rank, Streamed
    <2> QED BY <1>1, <1>6, <2>1, <2>2, <2>3, NativeHears
  <1> QED BY <1>1, <1>3, <1>4, <1>5, <1>6 DEF NativeStream

(* What is known of the first message to the page, and of what remains. *)
LEMMA WebHead ==
  ASSUME IInv, toWeb # <<>>
  PROVE  \E c \in Call, what \in WebWhat, data \in {"function"} \cup SUBSET Groups :
           /\ c = Head(toWeb).id /\ what = Head(toWeb).what /\ data = Head(toWeb).data
           /\ Tail(toWeb) \in Seq(ToWebMsg)
           /\ Posted(c) /\ ~Silent(toWeb, c)
           /\ what = "request" => web[c] = "none"
           /\ what # "request" => kind[c] = "send"
           /\ what = "CHUNK" => data \in SUBSET Groups /\ data # {}
           /\ \A d \in Call : d # c => ChunksOf(Tail(toWeb), d) = ChunksOf(toWeb, d)
           /\ what # "CHUNK" => ChunksOf(Tail(toWeb), c) = ChunksOf(toWeb, c)
           /\ what = "CHUNK" => /\ ChunksOf(toWeb, c) = ChunksOf(Tail(toWeb), c) \cup {data}
                                /\ Below(data, UNION ChunksOf(Tail(toWeb), c))
           /\ what = "END" => Silent(Tail(toWeb), c)
           /\ \A d \in Call : Silent(toWeb, d) => Silent(Tail(toWeb), d)
  <1>1. toWeb \in Seq(ToWebMsg) /\ WebOrdered(toWeb) /\ \A p \in DOMAIN toWeb : WebFits(toWeb[p])
    BY DEF IInv, Typed, WebQueue
  <1>2. /\ 1 \in DOMAIN toWeb /\ toWeb[1] = Head(toWeb) /\ Head(toWeb) \in ToWebMsg
        /\ Tail(toWeb) \in Seq(ToWebMsg)
    BY <1>1, TailFacts
  <1>3. PICK c \in Call, what \in WebWhat, data \in {"function"} \cup SUBSET Groups :
          c = Head(toWeb).id /\ what = Head(toWeb).what /\ data = Head(toWeb).data
    BY <1>2 DEF ToWebMsg
  <1>4. /\ what = "request" => web[c] = "none"
        /\ what # "request" => kind[c] = "send"
        /\ what = "CHUNK" => data \in SUBSET Groups /\ data # {}
    BY <1>1, <1>2, <1>3 DEF WebFits
  <1>5. ~Silent(toWeb, c)
    BY <1>2, <1>3 DEF Silent
  <1>6. Posted(c)
    BY <1>5 DEF IInv, CallsFit, NothingBefore
  <1>7. \A d \in Call :
          /\ ChunksOf(toWeb, d) = ChunksOf(Tail(toWeb), d) \cup
               (IF Head(toWeb).id = d /\ Head(toWeb).what = "CHUNK" THEN {Head(toWeb).data} ELSE {})
          /\ Silent(toWeb, d) => Silent(Tail(toWeb), d)
    BY <1>1, ChunksTail
  <1>8. /\ \A d \in Call : d # c => ChunksOf(Tail(toWeb), d) = ChunksOf(toWeb, d)
        /\ what # "CHUNK" => ChunksOf(Tail(toWeb), c) = ChunksOf(toWeb, c)
        /\ what = "CHUNK" => ChunksOf(toWeb, c) = ChunksOf(Tail(toWeb), c) \cup {data}
    BY <1>3, <1>7
  <1>9. \A q \in DOMAIN Tail(toWeb) : Tail(toWeb)[q].id = c => WebBefore(Head(toWeb), Tail(toWeb)[q])
    BY <1>1, <1>3, WebTail
  <1>10. ASSUME what = "CHUNK" PROVE Below(data, UNION ChunksOf(Tail(toWeb), c))
    <2>1. ASSUME NEW q \in DOMAIN Tail(toWeb), Tail(toWeb)[q].id = c, Tail(toWeb)[q].what = "CHUNK"
          PROVE  Below(data, Tail(toWeb)[q].data)
      BY <1>3, <1>9, <1>10, <2>1 DEF WebBefore, Rank
    <2>2. \A s \in ChunksOf(Tail(toWeb), c) : Below(data, s)
      BY <2>1 DEF ChunksOf
    <2> QED BY <2>2 DEF Below
  <1>11. ASSUME what = "END" PROVE Silent(Tail(toWeb), c)
    <2> SUFFICES ASSUME NEW q \in DOMAIN Tail(toWeb), Tail(toWeb)[q].id = c PROVE FALSE
      BY DEF Silent
    <2>1. WebBefore(Head(toWeb), Tail(toWeb)[q])
      BY <1>9
    <2> QED BY <1>3, <1>11, <2>1 DEF WebBefore, Rank
  <1>12. \A d \in Call : Silent(toWeb, d) => Silent(Tail(toWeb), d)
    BY <1>7
  <1> QED BY <1>2, <1>3, <1>4, <1>5, <1>6, <1>8, <1>10, <1>11, <1>12, Zenon

(* What a call posts when the page goes on with it; no piece of a download. *)
Says(c) ==
  \/ toNative' = toNative
  \/ toNative' = Append(toNative, Message(c, "failed", {})) /\ web'[c] \in {"connected", "failed"}
  \/ toNative' = Append(toNative, Message(c, "done", {})) /\ web'[c] = "done" /\ kind[c] # "receive"
  \/ /\ toNative' = Append(toNative, Message(c, "START", {}))
     /\ kind[c] = "receive" /\ web[c] = "retrieving" /\ web'[c] = "streaming"

(* The first message of a call may be taken with the step, when it is no chunk
   and no end. *)
Takes(c) ==
  \/ toWeb' = toWeb /\ (web[c] = "none" => web'[c] = "none")
  \/ /\ toWeb # <<>> /\ toWeb' = Tail(toWeb)
     /\ Head(toWeb).id = c /\ Head(toWeb).what \in {"request", "START"}

LEMMA SaysFacts ==
  ASSUME IInv, NEW c \in Call, Says(c), WebGoesOn, kind' = kind
  PROVE  /\ toNative' \in Seq(ToNativeMsg) /\ NativeQueue'
         /\ \A d \in Call : ChunksOf(toNative', d) = ChunksOf(toNative, d)
         /\ \A d \in Call : d # c /\ StreamOver(toNative, d) => StreamOver(toNative', d)
  <1>1. toNative \in Seq(ToNativeMsg) /\ NativeQueue
    BY DEF IInv, Typed
  <1>2. CASE toNative' = toNative
    BY <1>1, <1>2, NativeQueueFrame
  <1>3. ASSUME NEW what \in NativeWhat \ {"CHUNK", "END"},
               toNative' = Append(toNative, Message(c, what, {})),
               what = "done" => web'[c] = "done" /\ kind[c] # "receive",
               what = "START" => kind[c] = "receive" /\ web[c] = "retrieving" /\ web'[c] = "streaming"
        PROVE  /\ toNative' \in Seq(ToNativeMsg) /\ NativeQueue'
               /\ \A d \in Call : ChunksOf(toNative', d) = ChunksOf(toNative, d)
               /\ \A d \in Call : d # c /\ StreamOver(toNative, d) => StreamOver(toNative', d)
    <2>1. PICK m \in ToNativeMsg : m = Message(c, what, {}) /\ m.id = c /\ m.what = what
      BY <1>3 DEF Message, ToNativeMsg
    <2>2. toNative' = Append(toNative, m)
      BY <1>3, <2>1
    <2>3. /\ toNative' \in Seq(ToNativeMsg)
          /\ \A d \in Call : ChunksOf(toNative', d) = ChunksOf(toNative, d)
          /\ \A d \in Call : d # c /\ StreamOver(toNative, d) => StreamOver(toNative', d)
      <3>1. what # "CHUNK"
        OBVIOUS
      <3>2. toNative' \in Seq(ToNativeMsg)
        BY <1>1, <2>2, AppendFacts
      <3>3. \A d \in Call :
              /\ ChunksOf(Append(toNative, m), d) = ChunksOf(toNative, d) \cup
                   (IF m.id = d /\ m.what = "CHUNK" THEN {m.data} ELSE {})
              /\ StreamOver(toNative, d) /\ (m.id # d \/ m.what \notin Streamed)
                   => StreamOver(Append(toNative, m), d)
        BY <1>1, ChunksAppend
      <3> QED BY <2>1, <2>2, <3>1, <3>2, <3>3
    <2>4. NativeFits(m)'
      BY <1>3, <2>1 DEF NativeFits, Streamed, NativeWhat
    <2>5. m.what \in Streamed => \A p \in DOMAIN toNative :
            toNative[p].id = m.id /\ toNative[p].what \in Streamed => NativeBefore(toNative[p], m)
      BY <1>1, <1>3, <2>1 DEF NativeQueue, NativeFits, Streamed
    <2> QED BY <1>1, <2>2, <2>3, <2>4, <2>5, NativeQueuePost
  <1>4. CASE toNative' = Append(toNative, Message(c, "failed", {})) /\ web'[c] \in {"connected", "failed"}
    <2>1. "failed" \in NativeWhat \ {"CHUNK", "END"}
      BY DEF NativeWhat
    <2> QED BY <1>3, <1>4, <2>1
  <1>5. CASE toNative' = Append(toNative, Message(c, "done", {})) /\ web'[c] = "done" /\ kind[c] # "receive"
    <2>1. "done" \in NativeWhat \ {"CHUNK", "END"}
      BY DEF NativeWhat
    <2> QED BY <1>3, <1>5, <2>1
  <1>6. CASE /\ toNative' = Append(toNative, Message(c, "START", {}))
             /\ kind[c] = "receive" /\ web[c] = "retrieving" /\ web'[c] = "streaming"
    <2>1. "START" \in NativeWhat \ {"CHUNK", "END"}
      BY DEF NativeWhat
    <2> QED BY <1>3, <1>6, <2>1
  <1> QED BY <1>2, <1>4, <1>5, <1>6 DEF Says

(* The page goes on with a call, and no chunk moves. *)
LEMMA Moves ==
  ASSUME IInv, NEW c \in Call,
         web' \in [Call -> WebState], gen' \in [Call -> GenState], started' \in BOOLEAN,
         \A d \in Call : d # c => web'[d] = web[d] /\ gen'[d] = gen[d],
         gen'[c].finished = gen[c].finished,
         Takes(c), Says(c), Posted(c),
         web[c] = "done" => web'[c] = "done",
         web[c] \in {"streaming", "stuck"} => web'[c] \in {"streaming", "stuck"},
         web'[c] \in {"starting", "asking"} => kind[c] \in {"start", "connect", "meta"},
         web'[c] \in {"waiting", "opening", "uploading"} => kind[c] = "send",
         web'[c] \in {"retrieving", "streaming", "stuck"} => kind[c] = "receive",
         kind[c] = "receive" => (web'[c] = "done" <=> web[c] = "done"),
         kind[c] = "send" /\ web'[c] = "done" => gen[c].finished,
         web'[c] = "uploading" /\ gen'[c].at = "ended" => gen[c].finished,
         UNCHANGED <<page, kind, native, read, buffer, value, lost, unheard>>
  PROVE  IInv'
  <1>1. /\ toWeb' \in Seq(ToWebMsg) /\ WebQueue'
        /\ \A d \in Call : /\ ChunksOf(toWeb', d) = ChunksOf(toWeb, d)
                           /\ Silent(toWeb, d) => Silent(toWeb', d)
    <2>1. toWeb \in Seq(ToWebMsg) /\ WebQueue
      BY DEF IInv, Typed
    <2>2. CASE toWeb' = toWeb /\ (web[c] = "none" => web'[c] = "none")
      BY <2>1, <2>2, WebQueueFrame
    <2>3. CASE /\ toWeb # <<>> /\ toWeb' = Tail(toWeb)
               /\ Head(toWeb).id = c /\ Head(toWeb).what \in {"request", "START"}
      <3>1. /\ toWeb' \in Seq(ToWebMsg)
            /\ \A d \in Call : /\ ChunksOf(toWeb', d) = ChunksOf(toWeb, d)
                               /\ Silent(toWeb, d) => Silent(toWeb', d)
        BY <2>3, WebHead
      <3>2. WebQueue'
        BY <2>1, <2>3, WebQueueTake
      <3> QED BY <3>1, <3>2
    <2> QED BY <2>2, <2>3 DEF Takes
  <1>2. WebGoesOn
    BY DEF WebGoesOn
  <1>3. /\ toNative' \in Seq(ToNativeMsg) /\ NativeQueue'
        /\ \A d \in Call : ChunksOf(toNative', d) = ChunksOf(toNative, d)
        /\ \A d \in Call : d # c /\ StreamOver(toNative, d) => StreamOver(toNative', d)
    BY <1>2, SaysFacts
  <1>4. Typed'
    BY <1>1, <1>3 DEF IInv, Typed
  <1>5. CallsFit'
    <2> SUFFICES ASSUME NEW d \in Call PROVE KindFits(d)' /\ NothingBefore(d)'
      BY DEF CallsFit
    <2>1. KindFits(d) /\ NothingBefore(d)
      BY DEF IInv, CallsFit
    <2>2. CASE d # c
      BY <1>1, <2>1, <2>2, CallFrame
    <2>3. CASE d = c
      <3>1. KindFits(c)'
        BY <2>1, <2>3 DEF KindFits
      <3>2. Posted(c)' /\ native'[c] # "idle"
        BY DEF Posted
      <3> QED BY <2>3, <3>1, <3>2 DEF NothingBefore
    <2> QED BY <2>2, <2>3
  <1>6. Uploads'
    <2> SUFFICES ASSUME NEW d \in Call, kind[d] = "send" PROVE UploadKept(d)'
      BY DEF Uploads
    <2>1. UploadKept(d) /\ (Posted(d)' => Posted(d))
      BY DEF IInv, Uploads, Posted
    <2>2. CASE d # c
      BY <1>1, <2>1, <2>2, UploadFrame
    <2>3. CASE d = c
      <3>1. Passed(c)' = Passed(c) /\ ChunksOf(toWeb', c) = ChunksOf(toWeb, c)
        BY <1>1 DEF Passed, Elements
      <3>2. /\ Elements(value'[c]) \subseteq SUBSET Groups /\ InOrder(value'[c])
            /\ Elements(value'[c]) \cap lost'[c] = {}
        BY <2>1, <2>3 DEF UploadKept
      <3>3. /\ Below(UNION Passed(c), UNION ChunksOf(toWeb, c))
            /\ UNION (Passed(c) \cup ChunksOf(toWeb, c)) = Groups
            /\ gen[c].finished => Silent(toWeb', c)
        BY <1>1, <2>1, <2>3 DEF UploadKept
      <3> QED BY <2>3, <3>1, <3>2, <3>3 DEF UploadKept
    <2> QED BY <2>2, <2>3
  <1>7. Downloads'
    <2> SUFFICES ASSUME NEW d \in Call, kind[d] = "receive" PROVE DownloadKept(d)'
      BY DEF Downloads
    <2>1. DownloadKept(d)
      BY DEF IInv, Downloads
    <2>2. native'[d] = "resolved" => StreamOver(toNative', d)
      <3>1. CASE d # c
        BY <1>3, <2>1, <3>1 DEF DownloadKept
      <3>2. CASE d = c
        <4>1. ASSUME native[c] = "resolved" PROVE toNative' = toNative
          <5>1. web[c] = "done"
            BY <4>1 DEF IInv, CallsFit, KindFits
          <5>2. web'[c] = "done" /\ kind[c] = "receive"
            BY <3>2, <5>1
          <5> QED BY <5>1, <5>2 DEF Says
        <4> QED BY <2>1, <3>2, <4>1 DEF DownloadKept
      <3> QED BY <3>1, <3>2
    <2>3. (web'[d] = "done") = (web[d] = "done")
      BY DEF IInv, Typed
    <2> QED BY <1>3, <2>1, <2>2, <2>3, DownloadFrame
  <1>8. OthersRead'
    BY DEF IInv, OthersRead
  <1> QED BY <1>1, <1>3, <1>4, <1>5, <1>6, <1>7, <1>8 DEF IInv

(* The function of a request is called, or is not there. *)
LEMMA RequestPreserves ==
  ASSUME IInv, toWeb # <<>>, WebRequest(Head(toWeb)), toWeb' = Tail(toWeb),
         UNCHANGED <<page, started, kind, native, read, buffer>>
  PROVE  IInv'
  <1>1. PICK c \in Call :
          c = Head(toWeb).id /\ Head(toWeb).what = "request" /\ Posted(c) /\ web[c] = "none"
    BY WebHead DEF WebRequest
  <1>2. UNCHANGED <<gen, value, lost, unheard>>
    BY DEF WebRequest, missing
  <1>3. /\ web \in [Call -> WebState] /\ gen \in [Call -> GenState] /\ started \in BOOLEAN
        /\ kind[c] \in {"start", "connect", "meta", "send", "receive"}
    BY DEF IInv, Typed, Kind
  <1>4. Takes(c)
    BY <1>1 DEF Takes
  <1>5. CASE Fails(c)
    <2>1. web' = [web EXCEPT ![c] = "failed"] /\ toNative' = Append(toNative, Message(c, "failed", {}))
      BY <1>5 DEF Fails, At, Post
    <2>2. web' \in [Call -> WebState] /\ web'[c] = "failed" /\ \A d \in Call : d # c => web'[d] = web[d]
      BY <1>3, <2>1 DEF WebState
    <2>3. Says(c)
      BY <2>1, <2>2 DEF Says
    <2> QED BY <1>1, <1>2, <1>3, <1>4, <2>2, <2>3, Moves
  <1>6. CASE /\ UNCHANGED toNative
             /\ At(web, c, CASE kind[c] = "start" -> "starting" [] kind[c] \in {"connect", "meta"} -> "asking"
                             [] kind[c] = "send" -> "waiting" [] kind[c] = "receive" -> "retrieving")
    <2>1. PICK w \in {"starting", "asking", "waiting", "retrieving"} :
            /\ web' = [web EXCEPT ![c] = w]
            /\ w \in {"starting", "asking"} => kind[c] \in {"start", "connect", "meta"}
            /\ w = "waiting" => kind[c] = "send"
            /\ w = "retrieving" => kind[c] = "receive"
      BY <1>3, <1>6 DEF At
    <2>2. web' \in [Call -> WebState] /\ web'[c] = w /\ \A d \in Call : d # c => web'[d] = web[d]
      BY <1>3, <2>1 DEF WebState
    <2>3. Says(c)
      BY <1>6 DEF Says
    <2> QED BY <1>1, <1>2, <1>3, <1>4, <2>1, <2>2, <2>3, Moves
  <1>7. Fails(c) \/ (/\ UNCHANGED toNative
             /\ At(web, c, CASE kind[c] = "start" -> "starting" [] kind[c] \in {"connect", "meta"} -> "asking"
                             [] kind[c] = "send" -> "waiting" [] kind[c] = "receive" -> "retrieving"))
    BY <1>1 DEF WebRequest
  <1> QED BY <1>5, <1>6, <1>7

(* An upload that waits is woken. *)
LEMMA StartPreserves ==
  ASSUME IInv, toWeb # <<>>, WebStart(Head(toWeb)), toWeb' = Tail(toWeb),
         UNCHANGED <<page, started, kind, native, read, buffer>>
  PROVE  IInv'
  <1>1. PICK c \in Call :
          c = Head(toWeb).id /\ Head(toWeb).what = "START" /\ Posted(c) /\ kind[c] = "send"
    BY WebHead DEF WebStart
  <1>2. UNCHANGED <<gen, value, lost, unheard>>
    BY DEF WebStart, missing
  <1>3. web \in [Call -> WebState] /\ gen \in [Call -> GenState] /\ started \in BOOLEAN
    BY DEF IInv, Typed
  <1>4. Takes(c) /\ KindFits(c) /\ UploadKept(c)
    BY <1>1 DEF Takes, IInv, CallsFit, Uploads
  <1>5. CASE web[c] = "waiting" /\ Fails(c)
    <2>1. web' = [web EXCEPT ![c] = "failed"] /\ toNative' = Append(toNative, Message(c, "failed", {}))
      BY <1>5 DEF Fails, At, Post
    <2>2. web' \in [Call -> WebState] /\ web'[c] = "failed" /\ \A d \in Call : d # c => web'[d] = web[d]
      BY <1>3, <2>1 DEF WebState
    <2>3. Says(c)
      BY <2>1, <2>2 DEF Says
    <2> QED BY <1>1, <1>2, <1>3, <1>4, <1>5, <2>2, <2>3, Moves
  <1>6. CASE web[c] = "waiting" /\ At(web, c, "opening") /\ UNCHANGED toNative
    <2>1. web' \in [Call -> WebState] /\ web'[c] = "opening" /\ \A d \in Call : d # c => web'[d] = web[d]
      BY <1>3, <1>6 DEF WebState, At
    <2>2. Says(c)
      BY <1>6 DEF Says
    <2> QED BY <1>1, <1>2, <1>3, <1>4, <1>6, <2>1, <2>2, Moves
  <1>7. CASE UNCHANGED <<web, toNative>>
    <2>1. Says(c)
      BY <1>7 DEF Says
    <2>2. /\ web[c] \in {"starting", "asking"} => kind[c] \in {"start", "connect", "meta"}
          /\ web[c] \notin {"retrieving", "streaming", "stuck"}
          /\ web[c] = "done" => gen[c].finished
          /\ web[c] = "uploading" /\ gen[c].at = "ended" => gen[c].finished
      BY <1>1, <1>4 DEF KindFits, UploadKept
    <2> QED BY <1>1, <1>2, <1>3, <1>4, <1>7, <2>1, <2>2, Moves
  <1>8. \/ web[c] = "waiting" /\ Fails(c)
        \/ web[c] = "waiting" /\ At(web, c, "opening") /\ UNCHANGED toNative
        \/ UNCHANGED <<web, toNative>>
    BY <1>1 DEF WebStart
  <1> QED BY <1>5, <1>6, <1>7, <1>8

(* What waits in a state of the page was posted. *)
LEMMA ThereIsPosted ==
  ASSUME IInv, NEW c \in Call, web[c] # "none"
  PROVE  Posted(c) /\ KindFits(c)
  BY DEF IInv, CallsFit, NothingBefore

(* A call is done, but for a download. *)
LEMMA DonePreserves ==
  ASSUME IInv, NEW c \in Call, Answered(c) \/ Uploaded(c)
  PROVE  IInv'
  <1>1. /\ web' = [web EXCEPT ![c] = "done"] /\ toNative' = Append(toNative, Message(c, "done", {}))
        /\ UNCHANGED <<page, kind, native, gen, read, buffer, value, lost, unheard, toWeb>>
        /\ web[c] \in {"starting", "asking", "uploading"}
    BY DEF Answered, Uploaded, At, Post, missing
  <1>2. /\ web \in [Call -> WebState] /\ gen \in [Call -> GenState] /\ started \in BOOLEAN
    BY DEF IInv, Typed
  <1>3. started' \in BOOLEAN
    BY <1>2 DEF Answered, Uploaded
  <1>4. web' \in [Call -> WebState] /\ web'[c] = "done" /\ \A d \in Call : d # c => web'[d] = web[d]
    BY <1>1, <1>2 DEF WebState
  <1>5. Posted(c) /\ KindFits(c)
    BY <1>1, ThereIsPosted
  <1>6. kind[c] # "receive" /\ (kind[c] = "send" => gen[c].finished)
    <2>1. CASE Answered(c)
      BY <1>5, <2>1 DEF Answered, KindFits
    <2>2. CASE Uploaded(c)
      BY <1>5, <2>2 DEF Uploaded, KindFits, IInv, Uploads, UploadKept
    <2> QED BY <2>1, <2>2
  <1>7. Says(c) /\ Takes(c)
    BY <1>1, <1>4, <1>6 DEF Says, Takes
  <1> QED BY <1>1, <1>2, <1>3, <1>4, <1>5, <1>6, <1>7, Moves

(* The Fula client reads an upload, the first time or again. *)
LEMMA PullPreserves ==
  ASSUME IInv, NEW c \in Call, Pull(c)
  PROVE  IInv'
  <1>1. UNCHANGED <<page, started, kind, native, read, buffer, value, lost, unheard, toWeb, toNative>>
    BY DEF Pull, missing, channels
  <1>2. web \in [Call -> WebState] /\ gen \in [Call -> GenState] /\ started \in BOOLEAN
    BY DEF IInv, Typed
  <1>3. web[c] \in {"opening", "uploading"} /\ Posted(c) /\ kind[c] = "send"
    <2>1. web[c] \in {"opening", "uploading"}
      BY DEF Pull
    <2> QED BY <2>1, ThereIsPosted DEF KindFits
  <1>4. /\ web' \in [Call -> WebState] /\ web'[c] = "uploading"
        /\ \A d \in Call : d # c => web'[d] = web[d]
    BY <1>2 DEF Pull, At, WebState
  <1>5. PICK a \in {"awaiting", "ended"} :
          gen' = [gen EXCEPT ![c].at = a] /\ (a = "ended" => gen[c].finished)
    BY DEF Pull
  <1>6. /\ gen' \in [Call -> GenState] /\ gen'[c].finished = gen[c].finished /\ gen'[c].at = a
        /\ \A d \in Call : d # c => gen'[d] = gen[d]
    BY <1>2, <1>5 DEF GenState
  <1>7. Says(c) /\ Takes(c)
    BY <1>1, <1>3 DEF Says, Takes
  <1> QED BY <1>1, <1>2, <1>3, <1>4, <1>5, <1>6, <1>7, Moves

(* A download begins, or breaks off. *)
LEMMA StreamPreserves ==
  ASSUME IInv, NEW c \in Call, Retrieved(c) \/ ContentFails(c)
  PROVE  IInv'
  <1>1. UNCHANGED <<page, started, kind, native, gen, read, buffer, value, lost, unheard, toWeb>>
    BY DEF Retrieved, ContentFails, missing, channels
  <1>2. web \in [Call -> WebState] /\ gen \in [Call -> GenState] /\ started \in BOOLEAN
    BY DEF IInv, Typed
  <1>3. web[c] \in {"retrieving", "streaming"} /\ Posted(c) /\ kind[c] = "receive"
    <2>1. web[c] \in {"retrieving", "streaming"}
      BY DEF Retrieved, ContentFails
    <2> QED BY <2>1, ThereIsPosted DEF KindFits
  <1>4. /\ web' \in [Call -> WebState] /\ web'[c] \in {"streaming", "stuck"}
        /\ \A d \in Call : d # c => web'[d] = web[d]
    BY <1>2 DEF Retrieved, ContentFails, At, WebState
  <1>5. Says(c)
    <2>1. CASE Retrieved(c)
      BY <1>2, <1>3, <2>1 DEF Retrieved, At, Post, Says
    <2>2. CASE ContentFails(c)
      BY <2>2 DEF ContentFails, channels, Says
    <2> QED BY <2>1, <2>2
  <1>6. Takes(c)
    BY <1>1, <1>3 DEF Takes
  <1> QED BY <1>1, <1>2, <1>3, <1>4, <1>5, <1>6, Moves

(* The Fula client rejects. *)
LEMMA FailsPreserves ==
  ASSUME IInv, NEW c \in Call, ClientFails(c)
  PROVE  IInv'
  <1>1. /\ web' = [web EXCEPT ![c] = "failed"] /\ toNative' = Append(toNative, Message(c, "failed", {}))
        /\ UNCHANGED <<page, started, kind, native, read, buffer, value, lost, unheard, toWeb>>
        /\ web[c] \in {"starting", "asking", "opening", "uploading", "retrieving"}
    BY DEF ClientFails, Fails, At, Post, missing
  <1>2. web \in [Call -> WebState] /\ gen \in [Call -> GenState] /\ started \in BOOLEAN
    BY DEF IInv, Typed
  <1>3. /\ web' \in [Call -> WebState] /\ web'[c] = "failed"
        /\ \A d \in Call : d # c => web'[d] = web[d]
    BY <1>1, <1>2 DEF WebState
  <1>4. PICK a \in {"unstarted", "ended"} : gen' = [gen EXCEPT ![c].at = a]
    BY DEF ClientFails
  <1>5. /\ gen' \in [Call -> GenState] /\ gen'[c].finished = gen[c].finished
        /\ \A d \in Call : d # c => gen'[d] = gen[d]
    BY <1>2, <1>4 DEF GenState
  <1>6. Posted(c)
    BY <1>1, ThereIsPosted
  <1>7. Says(c) /\ Takes(c)
    BY <1>1, <1>3 DEF Says, Takes
  <1> QED BY <1>1, <1>2, <1>3, <1>5, <1>6, <1>7, Moves

(* connect() has answered, and the page says that it has failed. *)
LEMMA ConnectedPreserves ==
  ASSUME IInv, NEW c \in Call, Connected(c)
  PROVE  IInv'
  <1>1. /\ web' = [web EXCEPT ![c] = "connected"] /\ toNative' = Append(toNative, Message(c, "failed", {}))
        /\ UNCHANGED <<page, started, kind, native, gen, read, buffer, value, lost, unheard, toWeb>>
        /\ web[c] = "asking"
    BY DEF Connected, At, Post, missing
  <1>2. web \in [Call -> WebState] /\ gen \in [Call -> GenState] /\ started \in BOOLEAN
    BY DEF IInv, Typed
  <1>3. /\ web' \in [Call -> WebState] /\ web'[c] = "connected"
        /\ \A d \in Call : d # c => web'[d] = web[d]
    BY <1>1, <1>2 DEF WebState
  <1>4. Posted(c)
    BY <1>1, ThereIsPosted
  <1>5. Says(c) /\ Takes(c)
    BY <1>1, <1>3 DEF Says, Takes
  <1> QED BY <1>1, <1>2, <1>3, <1>4, <1>5, Moves

(* The end of an upload comes to the page. *)
LEMMA EndPreserves ==
  ASSUME IInv, toWeb # <<>>, WebEnd(Head(toWeb)), toWeb' = Tail(toWeb),
         UNCHANGED <<page, started, kind, native, read, buffer>>
  PROVE  IInv'
  <1>1. PICK c \in Call :
          /\ c = Head(toWeb).id /\ Head(toWeb).what = "END" /\ Posted(c) /\ kind[c] = "send"
          /\ toWeb' \in Seq(ToWebMsg)
          /\ \A d \in Call : ChunksOf(toWeb', d) = ChunksOf(toWeb, d)
          /\ Silent(toWeb', c)
          /\ \A d \in Call : Silent(toWeb, d) => Silent(toWeb', d)
    BY WebHead DEF WebEnd
  <1>2. /\ UNCHANGED <<web, value, lost, toNative>>
        /\ unheard' = [unheard EXCEPT ![c] = @ \cup IF gen[c].at = "unstarted" THEN {"END"} ELSE {}]
        /\ gen' = [gen EXCEPT ![c] = CASE @.at = "awaiting"  -> [at |-> "ended", finished |-> TRUE]
                                       [] @.at = "unstarted" -> @
                                       [] OTHER              -> [@ EXCEPT !.finished = TRUE]]
    BY <1>1 DEF WebEnd
  <1>3. /\ web \in [Call -> WebState] /\ gen \in [Call -> GenState]
        /\ unheard \in [Call -> SUBSET {"request", "END"}] /\ toWeb \in Seq(ToWebMsg)
        /\ toNative \in Seq(ToNativeMsg)
    BY DEF IInv, Typed
  <1>4. /\ gen' \in [Call -> GenState]
        /\ \A d \in Call : d # c => gen'[d] = gen[d]
        /\ gen[c].finished => gen'[c].finished
        /\ gen'[c].at = "ended" => gen[c].at = "ended" \/ gen'[c].finished
    <2>1. gen[c] \in GenState
      BY <1>3
    <2>2. CASE gen[c].at = "awaiting"
      <3>1. gen' = [gen EXCEPT ![c] = [at |-> "ended", finished |-> TRUE]]
        BY <1>2, <2>2
      <3> QED BY <1>3, <3>1 DEF GenState
    <2>3. CASE gen[c].at = "unstarted"
      <3>1. gen' = [gen EXCEPT ![c] = gen[c]]
        BY <1>2, <2>3
      <3> QED BY <1>3, <2>1, <3>1
    <2>4. CASE gen[c].at \in {"yielded", "ended"}
      <3>1. gen' = [gen EXCEPT ![c] = [gen[c] EXCEPT !.finished = TRUE]]
        BY <1>2, <2>4
      <3> QED BY <1>3, <2>1, <3>1 DEF GenState
    <2> QED BY <2>1, <2>2, <2>3, <2>4 DEF GenState
  <1>5. /\ unheard' \in [Call -> SUBSET {"request", "END"}]
        /\ \A d \in Call : d # c => unheard'[d] = unheard[d]
        /\ "request" \in unheard'[c] => "request" \in unheard[c]
    BY <1>2, <1>3
  <1>6. Typed'
    BY <1>1, <1>2, <1>4, <1>5 DEF IInv, Typed
  <1>7. Posted(c)' /\ native[c] # "idle" /\ \A d \in Call : d # c => (Posted(d)' <=> Posted(d))
    BY <1>1, <1>5 DEF Posted
  <1>8. CallsFit'
    <2> SUFFICES ASSUME NEW d \in Call PROVE KindFits(d)' /\ NothingBefore(d)'
      BY DEF CallsFit
    <2>1. KindFits(d) /\ NothingBefore(d)
      BY DEF IInv, CallsFit
    <2>2. CASE d # c
      BY <1>1, <1>2, <1>4, <1>5, <2>1, <2>2, CallFrame
    <2>3. CASE d = c
      <3>1. KindFits(c)'
        BY <1>2, <2>1, <2>3 DEF KindFits
      <3> QED BY <1>7, <2>3, <3>1 DEF NothingBefore
    <2> QED BY <2>2, <2>3
  <1>9. WebQueue'
    BY <1>2, <1>3, WebQueueTake DEF IInv
  <1>10. NativeQueue'
    <2>1. WebGoesOn
      BY <1>2 DEF WebGoesOn
    <2> QED BY <1>2, <1>3, <2>1, NativeQueueFrame DEF IInv
  <1>11. Uploads'
    <2> SUFFICES ASSUME NEW d \in Call, kind[d] = "send" PROVE UploadKept(d)'
      BY DEF Uploads
    <2>1. UploadKept(d)
      BY DEF IInv, Uploads
    <2>2. CASE d # c
      BY <1>1, <1>2, <1>4, <1>7, <2>1, <2>2, UploadFrame
    <2>3. CASE d = c
      <3>1. Passed(c)' = Passed(c)
        BY <1>2 DEF Passed, Elements
      <3>2. /\ Elements(value'[c]) \subseteq SUBSET Groups /\ InOrder(value'[c])
            /\ Elements(value'[c]) \cap lost'[c] = {}
        BY <1>2, <2>1, <2>3 DEF UploadKept
      <3>3. /\ Below(UNION Passed(c), UNION ChunksOf(toWeb, c))
            /\ UNION (Passed(c) \cup ChunksOf(toWeb, c)) = Groups
        BY <1>1, <2>1, <2>3 DEF UploadKept
      <3>4. /\ web'[c] = "done" => gen'[c].finished
            /\ web'[c] = "uploading" /\ gen'[c].at = "ended" => gen'[c].finished
        BY <1>2, <1>4, <2>1, <2>3 DEF UploadKept
      <3> QED BY <1>1, <2>3, <3>1, <3>2, <3>3, <3>4 DEF UploadKept
    <2> QED BY <2>2, <2>3
  <1>12. Downloads'
    <2> SUFFICES ASSUME NEW d \in Call, kind[d] = "receive" PROVE DownloadKept(d)'
      BY DEF Downloads
    <2>1. DownloadKept(d)
      BY DEF IInv, Downloads
    <2>2. native'[d] = "resolved" => StreamOver(toNative', d)
      BY <1>2, <2>1 DEF DownloadKept
    <2> QED BY <1>2, <2>1, <2>2, DownloadFrame
  <1>13. OthersRead'
    BY DEF IInv, OthersRead
  <1> QED BY <1>6, <1>8, <1>9, <1>10, <1>11, <1>12, <1>13 DEF IInv

(* A chunk of an upload comes, to who awaits it or to nobody. *)
LEMMA ChunkPreserves ==
  ASSUME IInv, toWeb # <<>>, WebChunk(Head(toWeb)), toWeb' = Tail(toWeb),
         UNCHANGED <<page, started, kind, native, read, buffer>>
  PROVE  IInv'
  <1>1. PICK c \in Call, data \in SUBSET Groups :
          /\ c = Head(toWeb).id /\ data = Head(toWeb).data /\ data # {}
          /\ Posted(c) /\ kind[c] = "send" /\ ~Silent(toWeb, c)
          /\ toWeb' \in Seq(ToWebMsg)
          /\ \A d \in Call : d # c => ChunksOf(toWeb', d) = ChunksOf(toWeb, d)
          /\ ChunksOf(toWeb, c) = ChunksOf(toWeb', c) \cup {data}
          /\ Below(data, UNION ChunksOf(toWeb', c))
          /\ \A d \in Call : Silent(toWeb, d) => Silent(toWeb', d)
    <2>1. Head(toWeb).what = "CHUNK"
      BY DEF WebChunk
    <2> QED BY <2>1, WebHead
  <1>2. /\ UNCHANGED <<web, unheard, toNative>>
        /\ \/ /\ gen[c].at = "awaiting" /\ gen' = [gen EXCEPT ![c].at = "yielded"]
              /\ value' = [value EXCEPT ![c] = Append(@, data)] /\ UNCHANGED lost
           \/ lost' = [lost EXCEPT ![c] = @ \cup {data}] /\ UNCHANGED <<gen, value>>
    BY <1>1 DEF WebChunk
  <1>3. /\ web \in [Call -> WebState] /\ gen \in [Call -> GenState]
        /\ value \in [Call -> Seq(Piece)] /\ lost \in [Call -> SUBSET SUBSET Groups]
        /\ toWeb \in Seq(ToWebMsg) /\ toNative \in Seq(ToNativeMsg)
    BY DEF IInv, Typed
  <1>4. UploadKept(c) /\ ~gen[c].finished
    BY <1>1 DEF IInv, Uploads, UploadKept
  <1>5. data \in Piece /\ value[c] \in Seq(Piece)
    BY <1>1, <1>3 DEF Piece
  <1>6. /\ gen' \in [Call -> GenState] /\ gen'[c].finished = gen[c].finished
        /\ \A d \in Call : d # c => gen'[d] = gen[d]
        /\ gen'[c].at = "ended" => gen[c].at = "ended"
    <2>1. CASE gen' = [gen EXCEPT ![c].at = "yielded"]
      BY <1>3, <2>1 DEF GenState
    <2>2. CASE gen' = gen
      BY <1>3, <2>2
    <2> QED BY <1>2, <2>1, <2>2
  <1>7. /\ value' \in [Call -> Seq(Piece)] /\ lost' \in [Call -> SUBSET SUBSET Groups]
        /\ \A d \in Call : d # c => value'[d] = value[d] /\ lost'[d] = lost[d]
        /\ \/ value'[c] = Append(value[c], data) /\ lost'[c] = lost[c]
           \/ value'[c] = value[c] /\ lost'[c] = lost[c] \cup {data}
    <2>1. Append(value[c], data) \in Seq(Piece)
      BY <1>5, AppendProperties
    <2>2. lost[c] \cup {data} \in SUBSET SUBSET Groups
      BY <1>1, <1>3
    <2> QED BY <1>2, <1>3, <2>1, <2>2
  <1>8. Typed'
    BY <1>1, <1>2, <1>6, <1>7 DEF IInv, Typed
  <1>9. CallsFit'
    <2> SUFFICES ASSUME NEW d \in Call PROVE KindFits(d)' /\ NothingBefore(d)'
      BY DEF CallsFit
    <2>1. KindFits(d) /\ NothingBefore(d)
      BY DEF IInv, CallsFit
    <2>2. CASE d # c
      BY <1>1, <1>2, <1>6, <1>7, <2>1, <2>2, CallFrame
    <2>3. CASE d = c
      <3>1. KindFits(c)'
        BY <1>2, <2>1, <2>3 DEF KindFits
      <3>2. Posted(c)' /\ native'[c] # "idle"
        BY <1>1, <1>2 DEF Posted
      <3> QED BY <2>3, <3>1, <3>2 DEF NothingBefore
    <2> QED BY <2>2, <2>3
  <1>10. WebQueue'
    BY <1>2, <1>3, WebQueueTake DEF IInv
  <1>11. NativeQueue'
    <2>1. WebGoesOn
      BY <1>2 DEF WebGoesOn
    <2> QED BY <1>2, <1>3, <2>1, NativeQueueFrame DEF IInv
  <1>12. UploadKept(c)'
    <2>1. Passed(c)' = Passed(c) \cup {data}
      <3>1. CASE value'[c] = Append(value[c], data) /\ lost'[c] = lost[c]
        <4>1. Elements(value'[c]) = Elements(value[c]) \cup {data}
          BY <1>5, <3>1, ElementsAppend
        <4> QED BY <3>1, <4>1 DEF Passed, Elements
      <3>2. CASE value'[c] = value[c] /\ lost'[c] = lost[c] \cup {data}
        BY <3>2 DEF Passed, Elements
      <3> QED BY <1>7, <3>1, <3>2
    <2>2. Below(UNION Passed(c), UNION ChunksOf(toWeb', c)) /\ Below(UNION Passed(c), data)
      BY <1>1, <1>4 DEF UploadKept, Below
    <2>3. Below(UNION Passed(c)', UNION ChunksOf(toWeb', c))
      BY <1>1, <2>1, <2>2 DEF Below
    <2>4. UNION (Passed(c)' \cup ChunksOf(toWeb', c)) = Groups
      <3>1. UNION (Passed(c) \cup ChunksOf(toWeb, c)) = Groups
        BY <1>1, <1>4 DEF UploadKept
      <3> QED BY <1>1, <2>1, <3>1
    <2>5. data \notin Passed(c)
      <3>1. SUFFICES ASSUME data \in Passed(c) PROVE FALSE
        OBVIOUS
      <3>2. PICK g \in data : g \in Groups
        BY <1>1
      <3>3. g < g
        BY <2>2, <3>1, <3>2 DEF Below
      <3> QED BY <3>2, <3>3 DEF Groups
    <2>6. /\ Elements(value'[c]) \subseteq SUBSET Groups /\ InOrder(value'[c])
          /\ Elements(value'[c]) \cap lost'[c] = {}
      <3>1. /\ Elements(value[c]) \subseteq SUBSET Groups /\ InOrder(value[c])
            /\ Elements(value[c]) \cap lost[c] = {}
        BY <1>4 DEF UploadKept
      <3>2. CASE value'[c] = value[c] /\ lost'[c] = lost[c] \cup {data}
        BY <2>5, <3>1, <3>2 DEF Passed
      <3>3. CASE value'[c] = Append(value[c], data) /\ lost'[c] = lost[c]
        <4>1. Elements(value'[c]) = Elements(value[c]) \cup {data}
          BY <1>5, <3>3, ElementsAppend
        <4>2. InOrder(value'[c])
          <5> SUFFICES ASSUME NEW i \in DOMAIN value'[c], NEW j \in DOMAIN value'[c], i < j
                       PROVE  Below(value'[c][i], value'[c][j])
            BY DEF InOrder, Below
          <5>1. /\ value'[c][Len(value[c]) + 1] = data
                /\ \A p \in DOMAIN value[c] : /\ p \in Nat /\ p < Len(value[c]) + 1
                                              /\ value'[c][p] = value[c][p]
                /\ \A p \in DOMAIN value'[c] : p = Len(value[c]) + 1 \/ p \in DOMAIN value[c]
                /\ Len(value[c]) \in Nat
            BY <1>5, <3>3, AppendFacts
          <5>2. i \in DOMAIN value[c] /\ value'[c][i] = value[c][i]
            BY <5>1
          <5>3. CASE j \in DOMAIN value[c]
            BY <3>1, <5>1, <5>2, <5>3 DEF InOrder, Below
          <5>4. CASE j = Len(value[c]) + 1
            <6>1. value'[c][i] \in Passed(c) /\ value'[c][j] = data
              BY <5>1, <5>2, <5>4 DEF Passed, Elements
            <6> QED BY <2>2, <6>1 DEF Below
          <5> QED BY <5>1, <5>3, <5>4
        <4> QED BY <1>1, <2>5, <3>1, <3>3, <4>1, <4>2 DEF Passed
      <3> QED BY <1>7, <3>2, <3>3
    <2>7. /\ web'[c] # "done" /\ ~gen'[c].finished
          /\ ~(web'[c] = "uploading" /\ gen'[c].at = "ended")
      BY <1>2, <1>4, <1>6 DEF UploadKept
    <2> QED BY <2>3, <2>4, <2>6, <2>7 DEF UploadKept
  <1>13. Uploads'
    <2> SUFFICES ASSUME NEW d \in Call, kind[d] = "send", d # c PROVE UploadKept(d)'
      BY <1>12 DEF Uploads
    <2>1. UploadKept(d) /\ (Posted(d)' => Posted(d))
      BY <1>2 DEF IInv, Uploads, Posted
    <2> QED BY <1>1, <1>2, <1>6, <1>7, <2>1, UploadFrame
  <1>14. Downloads'
    <2> SUFFICES ASSUME NEW d \in Call, kind[d] = "receive" PROVE DownloadKept(d)'
      BY DEF Downloads
    <2>1. DownloadKept(d) /\ d # c
      BY <1>1 DEF IInv, Downloads
    <2>2. native'[d] = "resolved" => StreamOver(toNative', d)
      BY <1>2, <2>1 DEF DownloadKept
    <2> QED BY <1>2, <1>7, <2>1, <2>2, DownloadFrame
  <1>15. OthersRead'
    BY DEF IInv, OthersRead
  <1> QED BY <1>8, <1>9, <1>10, <1>11, <1>13, <1>14, <1>15 DEF IInv

(* The page takes a message. *)
LEMMA WebMessagePreserves ==
  ASSUME IInv, WebMessage
  PROVE  IInv'
  BY RequestPreserves, StartPreserves, ChunkPreserves, EndPreserves DEF WebMessage

(* What streamSend() holds when it posts: the chunks after those it has posted,
   as a good piece that comes after all that it has posted before. *)
LEMMA HeldPiece ==
  ASSUME IInv, NEW c \in Call, web[c] = "streaming", buffer[c] # <<>>,
         Len(buffer[c]) = 3 \/ read[c] = Stored
  PROVE  /\ Message(c, "CHUNK", buffer[c]) \in ToNativeMsg
         /\ GoodPiece(buffer[c])
         /\ PostedChunks(c) \in Nat /\ read[c] \in Nat
         /\ Elements(buffer[c]) = PostedChunks(c) + 1 .. read[c]
         /\ (PostedChunks(c) + 1 .. read[c]) \cup (1 .. PostedChunks(c)) = 1 .. read[c]
         /\ Below(1 .. PostedChunks(c), Elements(buffer[c]))
         /\ \A p \in DOMAIN toNative :
              toNative[p].id = c /\ toNative[p].what \in Streamed
                => NativeBefore(toNative[p], Message(c, "CHUNK", buffer[c]))
  <1> DEFINE b == buffer[c]
             n == read[c] - Len(b)
  <1>1. /\ kind[c] = "receive" /\ DownloadKept(c)
        /\ b \in Seq(Nat) /\ read[c] \in 0 .. Stored /\ toNative \in Seq(ToNativeMsg)
    BY ThereIsPosted DEF KindFits, IInv, Typed, Downloads
  <1>2. /\ Len(b) \in Nat \ {0} /\ DOMAIN b = 1 .. Len(b)
    BY <1>1, EmptySeq, LenProperties
  <1>3. /\ Len(b) <= read[c] /\ n % 3 = 0 /\ \A j \in DOMAIN b : b[j] = n + j
        /\ PostedChunks(c) = n /\ n \in Nat /\ read[c] \in Nat /\ Len(b) + n = read[c]
    <2>1. Len(b) <= read[c] /\ n % 3 = 0 /\ \A j \in DOMAIN b : b[j] = n + j
      BY <1>1 DEF DownloadKept
    <2>2. PostedChunks(c) = n
      BY DEF PostedChunks
    <2>3. read[c] \in Nat /\ n \in Nat /\ Len(b) + n = read[c]
      <3>1. read[c] \in Nat /\ Len(b) \in Nat /\ Len(b) <= read[c]
        BY <1>1, <1>2, <2>1
      <3> QED BY <3>1
    <2> QED BY <2>1, <2>2, <2>3
  <1> HIDE DEF b, n
  <1>4. Elements(b) = n + 1 .. read[c]
    <2>1. Elements(b) \subseteq n + 1 .. read[c]
      BY <1>2, <1>3 DEF Elements
    <2>2. ASSUME NEW x \in n + 1 .. read[c] PROVE x \in Elements(b)
      <3>1. x - n \in 1 .. Len(b) /\ n + (x - n) = x
        BY <1>2, <1>3
      <3>2. b[x - n] = n + (x - n)
        BY <1>2, <1>3, <3>1
      <3> QED BY <1>2, <3>1, <3>2 DEF Elements
    <2> QED BY <2>1, <2>2
  <1>5. GoodPiece(b)
    <2>1. \A j, k \in DOMAIN b : j < k => b[j] < b[k]
      BY <1>2, <1>3
    <2>2. b[Len(b)] = read[c]
      BY <1>2, <1>3
    <2>3. Len(b) = 3 => read[c] % 3 = 0
      BY <1>3
    <2> QED BY <1>1, <2>1, <2>2, <2>3 DEF GoodPiece, b
  <1>6. (n + 1 .. read[c]) \cup (1 .. n) = 1 .. read[c]
    BY <1>3
  <1>7. Below(1 .. n, Elements(b))
    BY <1>3, <1>4 DEF Below
  <1>8. /\ Message(c, "CHUNK", b) \in ToNativeMsg
        /\ Message(c, "CHUNK", b).what = "CHUNK" /\ Message(c, "CHUNK", b).data = b
    BY <1>1 DEF Message, ToNativeMsg, NativeWhat, b
  <1>9. ASSUME NEW p \in DOMAIN toNative, toNative[p].id = c, toNative[p].what \in Streamed
        PROVE  NativeBefore(toNative[p], Message(c, "CHUNK", b))
    <2>1. NativeFits(toNative[p])
      BY DEF IInv, NativeQueue
    <2>2. toNative[p].what \in {"START", "CHUNK"}
      BY <1>9, <2>1 DEF NativeFits, Streamed
    <2>3. CASE toNative[p].what = "START"
      BY <1>8, <2>3 DEF NativeBefore, Rank
    <2>4. CASE toNative[p].what = "CHUNK"
      <3>1. toNative[p].data \in ChunksOf(toNative, c)
        BY <1>9, <2>4 DEF ChunksOf
      <3>2. Elements(toNative[p].data) \subseteq Arriving(c)
        BY <3>1 DEF Arriving, Numbers
      <3>3. Arriving(c) \subseteq 1 .. n
        BY <1>1, <1>3 DEF DownloadKept
      <3>4. Below(Elements(toNative[p].data), Elements(b))
        BY <1>7, <3>2, <3>3 DEF Below
      <3> QED BY <1>8, <2>4, <3>4 DEF NativeBefore
    <2> QED BY <2>2, <2>3, <2>4
  <1> QED BY <1>3, <1>4, <1>5, <1>6, <1>7, <1>8, <1>9 DEF b

(* streamSend() reads on: of the other calls nothing changes. *)
LEMMA ReadingFrame ==
  ASSUME IInv, NEW c \in Call, web[c] = "streaming",
         web' \in [Call -> WebState], read' \in [Call -> 0 .. Stored], buffer' \in [Call -> Seq(Nat)],
         \A d \in Call : d # c => web'[d] = web[d] /\ read'[d] = read[d] /\ buffer'[d] = buffer[d],
         web'[c] \in {"streaming", "done"},
         toNative' \in Seq(ToNativeMsg), NativeQueue',
         \A d \in Call : d # c => /\ ChunksOf(toNative', d) = ChunksOf(toNative, d)
                                  /\ StreamOver(toNative, d) => StreamOver(toNative', d),
         DownloadKept(c)',
         UNCHANGED <<page, started, kind, native, gen, value, lost, unheard, toWeb>>
  PROVE  IInv'
  <1>1. Typed'
    BY DEF IInv, Typed
  <1>2. Posted(c) /\ KindFits(c) /\ kind[c] = "receive"
    BY ThereIsPosted DEF KindFits
  <1>3. CallsFit'
    <2> SUFFICES ASSUME NEW d \in Call PROVE KindFits(d)' /\ NothingBefore(d)'
      BY DEF CallsFit
    <2>1. KindFits(d) /\ NothingBefore(d)
      BY DEF IInv, CallsFit
    <2>2. CASE d # c
      BY <2>1, <2>2, CallFrame
    <2>3. CASE d = c
      <3>1. KindFits(c)'
        BY <1>2 DEF KindFits
      <3>2. Posted(c)' /\ native'[c] # "idle"
        BY <1>2 DEF Posted
      <3> QED BY <2>3, <3>1, <3>2 DEF NothingBefore
    <2> QED BY <2>2, <2>3
  <1>4. WebQueue'
    <2>1. \A d \in Call : web[d] = "none" => web'[d] = "none"
      OBVIOUS
    <2> QED BY <2>1, WebQueueFrame DEF IInv, Typed
  <1>5. Uploads'
    <2> SUFFICES ASSUME NEW d \in Call, kind[d] = "send" PROVE UploadKept(d)'
      BY DEF Uploads
    <2>1. UploadKept(d) /\ d # c /\ (Posted(d)' => Posted(d))
      BY <1>2 DEF IInv, Uploads, Posted
    <2> QED BY <2>1, UploadFrame
  <1>6. Downloads'
    <2> SUFFICES ASSUME NEW d \in Call, kind[d] = "receive", d # c PROVE DownloadKept(d)'
      BY DEF Downloads
    <2>1. DownloadKept(d)
      BY DEF IInv, Downloads
    <2>2. native'[d] = "resolved" => StreamOver(toNative', d)
      BY <2>1 DEF DownloadKept
    <2> QED BY <2>1, <2>2, DownloadFrame
  <1>7. OthersRead'
    BY <1>2 DEF IInv, OthersRead
  <1> QED BY <1>1, <1>3, <1>4, <1>5, <1>6, <1>7 DEF IInv

(* streamSend() reads a chunk. *)
LEMMA ReadChunkPreserves ==
  ASSUME IInv, NEW c \in Call, ReadChunk(c)
  PROVE  IInv'
  <1>1. /\ web[c] = "streaming" /\ read[c] < Stored /\ read' = [read EXCEPT ![c] = @ + 1]
        /\ UNCHANGED <<page, started, kind, native, web, gen, value, lost, unheard, toWeb>>
    BY DEF ReadChunk, missing
  <1>2. /\ read \in [Call -> 0 .. Stored] /\ buffer \in [Call -> Seq(Nat)] /\ web \in [Call -> WebState]
        /\ toNative \in Seq(ToNativeMsg) /\ NativeQueue
    BY DEF IInv, Typed
  <1>3. DownloadKept(c) /\ native[c] # "resolved"
    <2>1. KindFits(c) /\ kind[c] = "receive"
      BY <1>1, ThereIsPosted DEF KindFits
    <2> QED BY <1>1, <2>1 DEF KindFits, IInv, Downloads
  <1>4. /\ read[c] \in Nat /\ read'[c] = read[c] + 1 /\ read[c] + 1 \in Nat
        /\ read' \in [Call -> 0 .. Stored] /\ \A d \in Call : d # c => read'[d] = read[d]
    <2>1. read[c] + 1 \in 0 .. Stored
      BY <1>1, <1>2
    <2> QED BY <1>1, <1>2, <2>1
  <1>5. /\ buffer[c] \in Seq(Nat) /\ Len(buffer[c]) \in Nat /\ Len(buffer[c]) <= read[c]
        /\ DOMAIN buffer[c] = 1 .. Len(buffer[c]) /\ Len(buffer[c]) <= 3
        /\ PostedChunks(c) = read[c] - Len(buffer[c])
    <2>1. buffer[c] \in Seq(Nat) /\ Len(buffer[c]) \in Nat /\ DOMAIN buffer[c] = 1 .. Len(buffer[c])
      BY <1>2, LenProperties
    <2> QED BY <1>1, <1>3, <2>1 DEF DownloadKept, PostedChunks
  <1>6. Arrived(c)' = Arrived(c)
    BY <1>1 DEF Arrived, Numbers, Elements
  <1>7. WebGoesOn
    BY <1>1 DEF WebGoesOn
  <1>8. CASE Len(buffer[c]) < 3
    <2>1. /\ toNative' = toNative /\ buffer' = [buffer EXCEPT ![c] = Append(@, read'[c])]
      BY <1>8 DEF ReadChunk, Batch
    <2>2. Append(buffer[c], read[c] + 1) \in Seq(Nat)
      BY <1>4, <1>5, AppendProperties
    <2>3. /\ buffer' \in [Call -> Seq(Nat)] /\ buffer'[c] = Append(buffer[c], read[c] + 1)
          /\ \A d \in Call : d # c => buffer'[d] = buffer[d]
      BY <1>2, <1>4, <2>1, <2>2
    <2>4. /\ Len(buffer'[c]) = Len(buffer[c]) + 1
          /\ \A p \in 1 .. Len(buffer[c]) : buffer'[c][p] = buffer[c][p]
          /\ buffer'[c][Len(buffer[c]) + 1] = read[c] + 1
      BY <1>4, <1>5, <2>3, AppendProperties
    <2>5. DOMAIN buffer'[c] = 1 .. Len(buffer[c]) + 1
      BY <2>2, <2>3, <2>4, LenProperties
    <2>6. read'[c] - Len(buffer'[c]) = read[c] - Len(buffer[c])
      <3>1. \A x, y \in Nat : (x + 1) - (y + 1) = x - y
        OBVIOUS
      <3>2. (read[c] + 1) - (Len(buffer[c]) + 1) = read[c] - Len(buffer[c])
        BY <1>4, <1>5, <3>1, Zenon
      <3> QED BY <1>4, <2>4, <3>2, Zenon
    <2>7. \A j \in DOMAIN buffer'[c] : buffer'[c][j] = read'[c] - Len(buffer'[c]) + j
      <3> SUFFICES ASSUME NEW j \in 1 .. Len(buffer[c]) + 1
                   PROVE  buffer'[c][j] = read[c] - Len(buffer[c]) + j
        BY <2>5, <2>6
      <3>1. CASE j \in 1 .. Len(buffer[c])
        BY <1>3, <1>5, <2>4, <3>1 DEF DownloadKept
      <3>2. CASE j = Len(buffer[c]) + 1
        BY <1>4, <1>5, <2>4, <3>2
      <3> QED BY <1>5, <3>1, <3>2
    <2>8. PostedChunks(c)' = PostedChunks(c)
      BY <1>1, <1>5, <2>6 DEF PostedChunks
    <2>9. Arriving(c)' = Arriving(c)
      BY <2>1 DEF Arriving, Numbers, ChunksOf
    <2>10. /\ Len(buffer'[c]) <= 3 /\ Len(buffer'[c]) <= read'[c]
           /\ (read'[c] - Len(buffer'[c])) % 3 = 0
      <3>1. (read[c] - Len(buffer[c])) % 3 = 0
        BY <1>3 DEF DownloadKept
      <3>2. Len(buffer[c]) + 1 <= 3 /\ Len(buffer[c]) + 1 <= read[c] + 1
        BY <1>4, <1>5, <1>8
      <3> QED BY <1>4, <2>4, <2>6, <3>1, <3>2
    <2>11. /\ \A s \in Elements(value'[c]) : GoodPiece(s)
           /\ \A i, j \in DOMAIN value'[c] :
                i < j => Below(Elements(value'[c][i]), Elements(value'[c][j]))
      BY <1>1, <1>3 DEF DownloadKept
    <2>12. /\ Below(Arrived(c)', Arriving(c)')
           /\ Arrived(c)' \cup Arriving(c)' = 1 .. PostedChunks(c)'
      BY <1>3, <1>6, <2>8, <2>9 DEF DownloadKept
    <2>13. DownloadKept(c)'
      BY <1>1, <1>3, <2>7, <2>10, <2>11, <2>12 DEF DownloadKept
    <2>14. NativeQueue'
      BY <1>1, <1>2, <1>7, <2>1, NativeQueueFrame
    <2> QED BY <1>1, <1>2, <1>4, <2>1, <2>3, <2>13, <2>14, ReadingFrame
  <1>9. CASE Len(buffer[c]) = 3
    <2>0. buffer[c] # <<>>
      <3>1. Len(<<>>) = 0
        OBVIOUS
      <3> QED BY <1>9, <3>1
    <2>1. PICK m \in ToNativeMsg :
            /\ m = Message(c, "CHUNK", buffer[c])
            /\ m.id = c /\ m.what = "CHUNK" /\ m.data = buffer[c]
      BY <1>1, <1>9, <2>0, HeldPiece DEF Message
    <2>2. toNative' = Append(toNative, m) /\ buffer' = [buffer EXCEPT ![c] = <<read'[c]>>]
      BY <1>9, <2>1 DEF ReadChunk, Batch, Post
    <2>3. /\ buffer' \in [Call -> Seq(Nat)] /\ buffer'[c] = <<read[c] + 1>>
          /\ \A d \in Call : d # c => buffer'[d] = buffer[d]
      BY <1>2, <1>4, <2>2
    <2>4. /\ GoodPiece(buffer[c]) /\ PostedChunks(c) \in Nat
          /\ Elements(buffer[c]) = PostedChunks(c) + 1 .. read[c]
          /\ (PostedChunks(c) + 1 .. read[c]) \cup (1 .. PostedChunks(c)) = 1 .. read[c]
          /\ Below(1 .. PostedChunks(c), Elements(buffer[c]))
          /\ \A p \in DOMAIN toNative :
               toNative[p].id = c /\ toNative[p].what \in Streamed => NativeBefore(toNative[p], m)
      BY <1>1, <1>9, <2>1, <2>0, HeldPiece
    <2>5. /\ toNative' \in Seq(ToNativeMsg)
          /\ ChunksOf(toNative', c) = ChunksOf(toNative, c) \cup {buffer[c]}
          /\ \A d \in Call : d # c => /\ ChunksOf(toNative', d) = ChunksOf(toNative, d)
                                      /\ StreamOver(toNative, d) => StreamOver(toNative', d)
      <3>1. toNative' \in Seq(ToNativeMsg)
        BY <1>2, <2>2, AppendFacts
      <3>2. \A d \in Call :
              /\ ChunksOf(Append(toNative, m), d) = ChunksOf(toNative, d) \cup
                   (IF m.id = d /\ m.what = "CHUNK" THEN {m.data} ELSE {})
              /\ StreamOver(toNative, d) /\ (m.id # d \/ m.what \notin Streamed)
                   => StreamOver(Append(toNative, m), d)
        BY <1>2, ChunksAppend
      <3> QED BY <2>1, <2>2, <3>1, <3>2
    <2>6. NativeQueue'
      <3>1. NativeFits(m)'
        <4>1. kind[c] = "receive"
          BY <1>1, ThereIsPosted DEF KindFits
        <4> QED BY <1>1, <2>1, <2>4, <4>1 DEF NativeFits, GoodPiece
      <3> QED BY <1>1, <1>2, <1>7, <2>1, <2>2, <2>4, <3>1, NativeQueuePost
    <2>7. PostedChunks(c)' = read[c] /\ (read[c] % 3) = 0
      <3>1. Len(buffer'[c]) = 1
        BY <2>3
      <3>2. (read[c] - 3) % 3 = 0 /\ read[c] >= 3
        BY <1>3, <1>5, <1>9 DEF DownloadKept
      <3> QED BY <1>1, <1>4, <3>1, <3>2 DEF PostedChunks
    <2>8. Arriving(c)' = Arriving(c) \cup Elements(buffer[c])
      <3>1. Arriving(c)' = Numbers(ChunksOf(toNative', c))
        BY DEF Arriving, Numbers
      <3> QED BY <2>5, <3>1 DEF Arriving, Numbers
    <2>9. Arrived(c) \subseteq 1 .. PostedChunks(c) /\ Arriving(c) \subseteq 1 .. PostedChunks(c)
          /\ Arrived(c) \cup Arriving(c) = 1 .. PostedChunks(c) /\ Below(Arrived(c), Arriving(c))
      BY <1>3 DEF DownloadKept
    <2>10. Below(Arrived(c)', Arriving(c)') /\ Arrived(c)' \cup Arriving(c)' = 1 .. PostedChunks(c)'
      <3>1. Below(Arrived(c)', Arriving(c)')
        BY <1>6, <2>4, <2>8, <2>9 DEF Below
      <3>2. Arrived(c)' \cup Arriving(c)' = 1 .. read[c]
        BY <1>6, <2>4, <2>8, <2>9
      <3> QED BY <2>7, <3>1, <3>2
    <2>11. /\ Len(buffer'[c]) = 1 /\ DOMAIN buffer'[c] = {1} /\ buffer'[c][1] = read[c] + 1
           /\ read'[c] - Len(buffer'[c]) = read[c]
      <3>1. Len(buffer'[c]) = 1 /\ buffer'[c] \in Seq(Nat) /\ buffer'[c][1] = read[c] + 1
        BY <1>4, <2>3
      <3> QED BY <1>4, <3>1, LenProperties
    <2>12. /\ Len(buffer'[c]) <= 3 /\ Len(buffer'[c]) <= read'[c]
           /\ (read'[c] - Len(buffer'[c])) % 3 = 0
           /\ \A j \in DOMAIN buffer'[c] : buffer'[c][j] = read'[c] - Len(buffer'[c]) + j
      BY <1>4, <2>7, <2>11
    <2>13. /\ \A s \in Elements(value'[c]) : GoodPiece(s)
           /\ \A i, j \in DOMAIN value'[c] :
                i < j => Below(Elements(value'[c][i]), Elements(value'[c][j]))
      BY <1>1, <1>3 DEF DownloadKept
    <2>14. DownloadKept(c)'
      BY <1>1, <1>3, <2>10, <2>12, <2>13 DEF DownloadKept
    <2> QED BY <1>1, <1>2, <1>4, <2>3, <2>5, <2>6, <2>14, ReadingFrame
  <1>10. Len(buffer[c]) < 3 \/ Len(buffer[c]) = 3
    <2>1. \A x \in Nat : x <= 3 => x < 3 \/ x = 3
      OBVIOUS
    <2> QED BY <1>5, <2>1, Zenon
  <1> QED BY <1>8, <1>9, <1>10

(* streamSend() has read all: it posts what it holds, if anything, and the end. *)
LEMMA ReadEndPreserves ==
  ASSUME IInv, NEW c \in Call, ReadEnd(c)
  PROVE  IInv'
  <1>1. /\ web[c] = "streaming" /\ read[c] = Stored /\ web' = [web EXCEPT ![c] = "done"]
        /\ UNCHANGED <<page, started, kind, native, gen, read, buffer, value, lost, unheard, toWeb>>
    BY DEF ReadEnd, At, missing
  <1>2. /\ read \in [Call -> 0 .. Stored] /\ buffer \in [Call -> Seq(Nat)] /\ web \in [Call -> WebState]
        /\ toNative \in Seq(ToNativeMsg) /\ NativeQueue /\ buffer[c] \in Seq(Nat)
    BY DEF IInv, Typed
  <1>3. DownloadKept(c) /\ native[c] # "resolved" /\ kind[c] = "receive"
    <2>1. KindFits(c) /\ kind[c] = "receive"
      BY <1>1, ThereIsPosted DEF KindFits
    <2> QED BY <1>1, <2>1 DEF KindFits, IInv, Downloads
  <1>4. /\ web' \in [Call -> WebState] /\ web'[c] = "done"
        /\ \A d \in Call : d # c => web'[d] = web[d]
    BY <1>1, <1>2 DEF WebState
  <1>5. PICK e \in ToNativeMsg : e = Message(c, "END", {}) /\ e.id = c /\ e.what = "END"
    <2>1. /\ Message(c, "END", {}) \in ToNativeMsg
          /\ Message(c, "END", {}).id = c /\ Message(c, "END", {}).what = "END"
      BY DEF Message, ToNativeMsg, NativeWhat
    <2> QED BY <2>1
  <1>6. /\ Arrived(c) \subseteq 1 .. PostedChunks(c) /\ Arriving(c) \subseteq 1 .. PostedChunks(c)
        /\ Arrived(c) \cup Arriving(c) = 1 .. PostedChunks(c) /\ Below(Arrived(c), Arriving(c))
    BY <1>3 DEF DownloadKept
  <1>7. PICK s \in Seq(ToNativeMsg) :
          /\ toNative' = Append(s, e) /\ NativeOrdered(s)
          /\ \A p \in DOMAIN s : NativeFits(s[p])' /\ (s[p].id = c => s[p].what # "END")
          /\ Numbers(ChunksOf(s, c)) = Arriving(c) \cup Elements(buffer[c])
          /\ \A d \in Call : d # c => /\ ChunksOf(s, d) = ChunksOf(toNative, d)
                                      /\ StreamOver(toNative, d) => StreamOver(s, d)
          /\ Below(Arrived(c), Arriving(c) \cup Elements(buffer[c]))
          /\ Arrived(c) \cup Arriving(c) \cup Elements(buffer[c]) = 1 .. Stored
    <2>1. PICK q \in Seq(ToNativeMsg) : q = toNative
      BY <1>2
    <2>2. ASSUME NEW p \in DOMAIN q
          PROVE  NativeFits(q[p])' /\ (q[p].id = c => q[p].what # "END")
      <3>1. PICK n \in ToNativeMsg : n = q[p]
        BY LenProperties
      <3>2. NativeFits(n) /\ n.id \in Call
        BY <1>2, <2>1, <3>1 DEF NativeQueue, ToNativeMsg
      <3>3. NativeFits(n)'
        BY <1>1, <1>4, <3>2, NativeFitsFrame
      <3>4. n.id = c => n.what # "END"
        BY <1>1, <3>2 DEF NativeFits
      <3> QED BY <3>1, <3>3, <3>4
    <2>3. toNative' = (q \o (IF buffer[c] = <<>> THEN <<>> ELSE <<Message(c, "CHUNK", buffer[c])>>)) \o <<e>>
      BY <1>5, <2>1 DEF ReadEnd
    <2>4. CASE buffer[c] = <<>>
      <3>1. toNative' = Append(q, e)
        <4>1. q \o <<>> = q
          BY ConcatEmptySeq
        <4> QED BY <2>3, <2>4, <4>1, AppendIsConcat
      <3>2. Elements(buffer[c]) = {} /\ PostedChunks(c) = Stored
        BY <1>1, <2>4 DEF Elements, PostedChunks
      <3>3. Numbers(ChunksOf(q, c)) = Arriving(c)
        BY <2>1 DEF Arriving
      <3>4. /\ NativeOrdered(q)
            /\ \A d \in Call : /\ ChunksOf(q, d) = ChunksOf(toNative, d)
                               /\ StreamOver(toNative, d) => StreamOver(q, d)
        BY <1>2, <2>1 DEF NativeQueue
      <3>5. /\ Below(Arrived(c), Arriving(c) \cup Elements(buffer[c]))
            /\ Arrived(c) \cup Arriving(c) \cup Elements(buffer[c]) = 1 .. Stored
            /\ Numbers(ChunksOf(q, c)) = Arriving(c) \cup Elements(buffer[c])
        BY <1>6, <3>2, <3>3
      <3> QED BY <2>2, <3>1, <3>4, <3>5
    <2>5. CASE buffer[c] # <<>>
      <3>1. PICK m \in ToNativeMsg :
              /\ m = Message(c, "CHUNK", buffer[c])
              /\ m.id = c /\ m.what = "CHUNK" /\ m.data = buffer[c]
        BY <1>1, <2>5, HeldPiece DEF Message
      <3>2. /\ GoodPiece(buffer[c]) /\ PostedChunks(c) \in Nat
            /\ Elements(buffer[c]) = PostedChunks(c) + 1 .. read[c]
            /\ (PostedChunks(c) + 1 .. read[c]) \cup (1 .. PostedChunks(c)) = 1 .. read[c]
            /\ Below(1 .. PostedChunks(c), Elements(buffer[c]))
            /\ \A p \in DOMAIN q : q[p].id = c /\ q[p].what \in Streamed => NativeBefore(q[p], m)
        BY <1>1, <2>1, <2>5, <3>1, HeldPiece
      <3>3. PICK s \in Seq(ToNativeMsg) : s = Append(q, m)
        BY AppendProperties
      <3>4. toNative' = Append(s, e)
        <4>1. s = q \o <<m>>
          BY <3>3, AppendIsConcat
        <4>2. toNative' = s \o <<e>>
          BY <2>3, <2>5, <3>1, <4>1
        <4> QED BY <4>2, AppendIsConcat
      <3>5. NativeOrdered(s)
        BY <1>2, <2>1, <3>1, <3>2, <3>3, NativeAppend DEF NativeQueue
      <3>6. ASSUME NEW p \in DOMAIN s
            PROVE  NativeFits(s[p])' /\ (s[p].id = c => s[p].what # "END")
        <4>1. (p \in DOMAIN q /\ s[p] = q[p]) \/ s[p] = m
          BY <3>3, AppendFacts
        <4>2. NativeFits(m)'
          BY <1>1, <1>3, <1>4, <3>1, <3>2 DEF NativeFits, GoodPiece
        <4>3. CASE p \in DOMAIN q /\ s[p] = q[p]
          BY <2>2, <4>3
        <4>4. CASE s[p] = m
          BY <3>1, <4>2, <4>4
        <4> QED BY <4>1, <4>3, <4>4
      <3>7. \A d \in Call :
              /\ ChunksOf(s, d) = ChunksOf(toNative, d) \cup (IF d = c THEN {buffer[c]} ELSE {})
              /\ d # c /\ StreamOver(toNative, d) => StreamOver(s, d)
        <4>1. \A d \in Call :
                /\ ChunksOf(Append(q, m), d) = ChunksOf(q, d) \cup
                     (IF m.id = d /\ m.what = "CHUNK" THEN {m.data} ELSE {})
                /\ StreamOver(q, d) /\ (m.id # d \/ m.what \notin Streamed)
                     => StreamOver(Append(q, m), d)
          BY ChunksAppend
        <4> QED BY <2>1, <3>1, <3>3, <4>1
      <3>8. Numbers(ChunksOf(s, c)) = Arriving(c) \cup Elements(buffer[c])
        BY <3>7 DEF Arriving, Numbers
      <3>9. /\ Below(Arrived(c), Arriving(c) \cup Elements(buffer[c]))
            /\ Arrived(c) \cup Arriving(c) \cup Elements(buffer[c]) = 1 .. Stored
        <4>1. Below(Arrived(c), Elements(buffer[c]))
          BY <1>6, <3>2 DEF Below
        <4>2. Below(Arrived(c), Arriving(c) \cup Elements(buffer[c]))
          BY <1>6, <4>1 DEF Below
        <4>3. (Arrived(c) \cup Arriving(c)) \cup Elements(buffer[c]) = 1 .. Stored
          BY <1>1, <1>6, <3>2
        <4> QED BY <4>2, <4>3
      <3> QED BY <3>4, <3>5, <3>6, <3>7, <3>8, <3>9
    <2> QED BY <2>4, <2>5
  <1>8. /\ toNative' \in Seq(ToNativeMsg) /\ NativeOrdered(toNative')
        /\ \A p \in DOMAIN s : toNative'[p] = s[p]
        /\ \A p \in DOMAIN toNative' : p \in DOMAIN s \/ toNative'[p] = e
    <2>1. \A p \in DOMAIN s : s[p].id = e.id /\ s[p].what \in Streamed => NativeBefore(s[p], e)
      BY <1>5, <1>7 DEF NativeBefore, Rank, Streamed
    <2> QED BY <1>7, <2>1, AppendFacts, NativeAppend
  <1>9. /\ ChunksOf(toNative', c) = ChunksOf(s, c)
        /\ \A d \in Call : d # c => /\ ChunksOf(toNative', d) = ChunksOf(toNative, d)
                                    /\ StreamOver(toNative, d) => StreamOver(toNative', d)
    <2>1. \A d \in Call :
            /\ ChunksOf(Append(s, e), d) = ChunksOf(s, d) \cup
                 (IF e.id = d /\ e.what = "CHUNK" THEN {e.data} ELSE {})
            /\ StreamOver(s, d) /\ (e.id # d \/ e.what \notin Streamed)
                 => StreamOver(Append(s, e), d)
      BY ChunksAppend
    <2> QED BY <1>5, <1>7, <2>1
  <1>10. NativeQueue'
    <2> SUFFICES ASSUME NEW p \in DOMAIN toNative' PROVE NativeFits(toNative[p])'
      BY <1>8 DEF NativeQueue
    <2>1. CASE p \in DOMAIN s
      <3>1. NativeFits(s[p])' /\ toNative'[p] = s[p]
        BY <1>7, <1>8, <2>1
      <3> QED BY <3>1 DEF NativeFits
    <2>2. CASE toNative'[p] = e
      BY <1>1, <1>3, <1>4, <1>5, <2>2 DEF NativeFits
    <2> QED BY <1>8, <2>1, <2>2
  <1>11. DownloadKept(c)'
    <2>1. Arrived(c)' = Arrived(c)
      BY <1>1 DEF Arrived, Numbers, Elements
    <2>2. Arriving(c)' = Arriving(c) \cup Elements(buffer[c])
      <3>1. Arriving(c)' = Numbers(ChunksOf(toNative', c))
        BY DEF Arriving, Numbers
      <3> QED BY <1>7, <1>9, <3>1
    <2>3. PostedChunks(c)' = Stored
      BY <1>4 DEF PostedChunks
    <2>4. Below(Arrived(c)', Arriving(c)') /\ Arrived(c)' \cup Arriving(c)' = 1 .. PostedChunks(c)'
      BY <1>7, <2>1, <2>2, <2>3
    <2>5. /\ Len(buffer'[c]) <= 3 /\ Len(buffer'[c]) <= read'[c]
          /\ (read'[c] - Len(buffer'[c])) % 3 = 0
          /\ \A j \in DOMAIN buffer'[c] : buffer'[c][j] = read'[c] - Len(buffer'[c]) + j
          /\ \A t \in Elements(value'[c]) : GoodPiece(t)
          /\ \A i, j \in DOMAIN value'[c] :
               i < j => Below(Elements(value'[c][i]), Elements(value'[c][j]))
      BY <1>1, <1>3 DEF DownloadKept
    <2> QED BY <1>1, <1>3, <2>4, <2>5 DEF DownloadKept
  <1> QED BY <1>1, <1>2, <1>4, <1>8, <1>9, <1>10, <1>11, ReadingFrame

(* No step breaks the invariant. *)
LEMMA Inductive == IInv /\ [Next]_vars => IInv'
  <1> SUFFICES ASSUME IInv, [Next]_vars PROVE IInv'
    OBVIOUS
  <1>1. CASE PageNext \/ UNCHANGED vars
    BY <1>1, PagePreserves
  <1>2. ASSUME NEW c \in Call, CallOut(c) PROVE IInv'
    BY <1>2, CallOutPreserves
  <1>3. CASE NativeMessage
    BY <1>3, NativeMessagePreserves
  <1>4. CASE WebMessage
    BY <1>4, WebMessagePreserves
  <1>5. CASE WebStep
    <2>1. PICK c \in Call : \/ Answered(c) \/ Connected(c) \/ Pull(c) \/ Uploaded(c)
                            \/ Retrieved(c) \/ ReadChunk(c) \/ ReadEnd(c)
      BY <1>5 DEF WebStep
    <2>2. CASE Answered(c) \/ Uploaded(c)
      BY <2>2, DonePreserves
    <2>3. CASE Pull(c)
      BY <2>3, PullPreserves
    <2>4. CASE Retrieved(c)
      BY <2>4, StreamPreserves
    <2>5. CASE ReadChunk(c)
      BY <2>5, ReadChunkPreserves
    <2>6. CASE ReadEnd(c)
      BY <2>6, ReadEndPreserves
    <2>7. CASE Connected(c)
      BY <2>7, ConnectedPreserves
    <2> QED BY <2>1, <2>2, <2>3, <2>4, <2>5, <2>6, <2>7
  <1>6. ASSUME NEW c \in Call, ClientFails(c) \/ ContentFails(c) PROVE IInv'
    BY <1>6, FailsPreserves, StreamPreserves
  <1> QED BY <1>1, <1>2, <1>3, <1>4, <1>5, <1>6 DEF Next

-----------------------------------------------------------------------------
(* The results. *)

LEMMA Invariant == Spec => []IInv
  BY Initially, Inductive, PTL DEF Spec

(* The types of all variables, the bound of what streamSend() holds back, and
   that a call resolves only when the page has finished with that very call:
   RPC() and receiveFile() in rn-fula. *)
THEOREM TypeCorrect == Spec => []TypeOK
  <1>1. IInv => TypeOK
    <2> SUFFICES ASSUME IInv PROVE TypeOK
      OBVIOUS
    <2>1. /\ page \in {"absent", "loading", "ready"} /\ started \in BOOLEAN
          /\ kind \in [Call -> Kind]
      BY DEF IInv, Typed
    <2>2. ASSUME NEW c \in Call
          PROVE  /\ native[c] \in NativeState /\ web[c] \in WebState
                 /\ gen[c].at \in {"unstarted", "awaiting", "yielded", "ended"}
                 /\ read[c] \in 0 .. Stored
                 /\ native[c] = "resolved" => web[c] = "done"
      BY DEF IInv, Typed, GenState, CallsFit, KindFits
    <2>3. ASSUME NEW c \in Call PROVE Len(buffer[c]) <= 3
      <3>1. CASE kind[c] = "receive"
        BY <3>1 DEF IInv, Downloads, DownloadKept
      <3>2. CASE kind[c] # "receive"
        <4>1. buffer[c] = <<>>
          BY <3>2 DEF IInv, OthersRead
        <4> QED BY <4>1
      <3> QED BY <3>1, <3>2
    <2> QED BY <2>1, <2>2, <2>3 DEF TypeOK, NativeState, WebState
  <1> QED BY <1>1, Invariant, PTL

(* An upload that settles is its file, in order, less exactly what came while
   nobody read: fileReader2(), sendFile() and the generator in the page. *)
THEOREM UploadedUnlessLateHolds == Spec => []UploadedUnlessLate
  <1>1. IInv => UploadedUnlessLate
    <2> SUFFICES ASSUME IInv, NEW c \in Call, kind[c] = "send", native[c] = "resolved"
                 PROVE  /\ InOrder(value[c])
                        /\ Elements(value[c]) \cap lost[c] = {}
                        /\ UNION (Elements(value[c]) \cup lost[c]) = 0 .. Content - 1
      BY DEF UploadedUnlessLate
    <2>1. web[c] = "done" /\ Posted(c) /\ UploadKept(c)
      BY DEF IInv, CallsFit, KindFits, NothingBefore, Uploads
    <2>2. ChunksOf(toWeb, c) = {}
      BY <2>1 DEF UploadKept, Silent, ChunksOf
    <2>3. UNION (Passed(c) \cup ChunksOf(toWeb, c)) = Groups
      BY <2>1 DEF UploadKept
    <2> QED BY <2>1, <2>2, <2>3 DEF UploadKept, Passed, Groups
  <1> QED BY <1>1, Invariant, PTL

(* A download that settles is its file: all chunks, once each, in order, and
   joined three at a time: streamSend() and receiveFile(). *)
THEOREM ReceivedIsStoredHolds == Spec => []ReceivedIsStored
  <1>1. IInv => ReceivedIsStored
    <2> SUFFICES ASSUME IInv, NEW c \in Call, kind[c] = "receive", native[c] = "resolved"
                 PROVE  /\ InOrder([i \in DOMAIN value[c] |-> Elements(value[c][i])])
                        /\ \A i \in DOMAIN value[c] : \A j, k \in DOMAIN value[c][i] :
                             j < k => value[c][i][j] < value[c][i][k]
                        /\ UNION {Elements(value[c][i]) : i \in DOMAIN value[c]} = 1 .. Stored
                        /\ \A i \in 1 .. Len(value[c]) - 1 :
                             value[c][i][Len(value[c][i])] % 3 = 0
      BY DEF ReceivedIsStored
    <2>1. /\ web[c] = "done" /\ DownloadKept(c) /\ StreamOver(toNative, c)
          /\ value[c] \in Seq(Piece)
      BY DEF IInv, Typed, CallsFit, KindFits, Downloads, DownloadKept
    <2>2. Arrived(c) = 1 .. Stored
      <3>1. ChunksOf(toNative, c) = {}
        BY <2>1 DEF StreamOver, Streamed, ChunksOf
      <3>2. Arriving(c) = {} /\ PostedChunks(c) = Stored
        BY <2>1, <3>1 DEF Arriving, Numbers, PostedChunks
      <3> QED BY <2>1, <3>2 DEF DownloadKept
    <2>3. Len(value[c]) \in Nat /\ DOMAIN value[c] = 1 .. Len(value[c])
      BY <2>1, LenProperties
    <2>4. \A i \in DOMAIN value[c] : GoodPiece(value[c][i])
      BY <2>1 DEF DownloadKept, Elements
    <2>5. \A i, j \in DOMAIN value[c] : i < j => Below(Elements(value[c][i]), Elements(value[c][j]))
      BY <2>1 DEF DownloadKept
    <2>6. InOrder([i \in DOMAIN value[c] |-> Elements(value[c][i])])
      BY <2>5 DEF InOrder, Below
    <2>7. \A i \in DOMAIN value[c] : \A j, k \in DOMAIN value[c][i] :
            j < k => value[c][i][j] < value[c][i][k]
      BY <2>4 DEF GoodPiece
    <2>8. UNION {Elements(value[c][i]) : i \in DOMAIN value[c]} = 1 .. Stored
      BY <2>2 DEF Arrived, Numbers, Elements
    <2>9. ASSUME NEW i \in 1 .. Len(value[c]) - 1
          PROVE  value[c][i][Len(value[c][i])] % 3 = 0
      <3>1. i \in DOMAIN value[c] /\ i + 1 \in DOMAIN value[c] /\ i < i + 1
        BY <2>3
      <3>2. PICK s \in Seq(Nat), t \in Seq(Nat) :
              s = value[c][i] /\ t = value[c][i + 1] /\ GoodPiece(s) /\ GoodPiece(t)
        BY <2>4, <3>1 DEF GoodPiece
      <3>3. /\ Len(s) \in DOMAIN s /\ s[Len(s)] \in Nat /\ s[Len(s)] \in Elements(s)
            /\ t[1] \in Elements(t) /\ t[1] \in Nat
        <4>1. \A u \in Seq(Nat) : u # <<>> => /\ Len(u) \in Nat \ {0} /\ DOMAIN u = 1 .. Len(u)
                                              /\ \A p \in DOMAIN u : u[p] \in Nat
          BY EmptySeq, LenProperties
        <4>2. s # <<>> /\ t # <<>>
          BY <3>2 DEF GoodPiece
        <4>3. Len(s) \in DOMAIN s /\ 1 \in DOMAIN t
          BY <4>1, <4>2
        <4> QED BY <4>1, <4>2, <4>3 DEF Elements
      <3>4. s[Len(s)] < t[1]
        BY <2>5, <3>1, <3>2, <3>3 DEF Below
      <3>5. t[1] <= Stored
        BY <2>8, <3>1, <3>2, <3>3
      <3>6. s[Len(s)] % 3 = 0
        BY <3>2, <3>3, <3>4, <3>5 DEF GoodPiece
      <3> QED BY <3>2, <3>6
    <2> QED BY <2>6, <2>7, <2>8, <2>9
  <1> QED BY <1>1, Invariant, PTL

=============================================================================
