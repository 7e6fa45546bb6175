------------------------- MODULE FileTransferProofs -------------------------
(***************************************************************************)
(* Proofs, for a file of any number of chunks and any Meta.                *)
(*                                                                         *)
(* Of an upload: an id a client gets denotes the whole of its file, and    *)
(* nothing but prefixes of it is ever stored.  The invariant follows the   *)
(* frames along the channels: each is numbered as it should be, holds as   *)
(* many frames as the one before it has handed over, and is closed only    *)
(* when the one before it has come to its end.                             *)
(*                                                                         *)
(* Of a whole transfer: what a client receives over a connection that held *)
(* is what was sent, nothing is mixed up on the way, and the process of    *)
(* the box ends for a reason only.  The upload is covered by its own       *)
(* invariant, here with the first half of the partition.  The retrieval    *)
(* has two parts: what the meta request can have led to, and how many      *)
(* chunks are where.                                                       *)
(***************************************************************************)
EXTENDS FileTransfer, Integers, SequenceTheorems, TLAPS

-----------------------------------------------------------------------------
(* The upload *)

(* Channel operations keep the type. *)
LEMMA SendType ==
  ASSUME NEW V, NEW c \in Channel(V), NEW v \in V
  PROVE  Send(c, v) \in Channel(V)
<1>1. Append(c.buf, v) \in Seq(V)
  BY AppendProperties DEF Channel
<1> QED
  BY <1>1 DEF Channel, Send, Chan

(* Receiving keeps the type, and gives a value of it. *)
LEMMA ReceiveType ==
  ASSUME NEW V, NEW c \in Channel(V), c.buf # <<>>
  PROVE  Receive(c) \in Channel(V) /\ Head(c.buf) \in V
<1>1. Head(c.buf) \in V /\ Tail(c.buf) \in Seq(V)
  BY HeadTailProperties DEF Channel
<1>2. Append(c.out, Head(c.buf)) \in Seq(V)
  BY <1>1, AppendProperties DEF Channel
<1> QED
  BY <1>1, <1>2 DEF Channel, Receive, Chan

(* So does cutting a channel off, *)
LEMMA CutType ==
  ASSUME NEW V, NEW c \in Channel(V), NEW k \in 0 .. Len(c.buf), NEW how \in {"closed", "failed"}
  PROVE  Cut(c, k, how) \in Channel(V)
<1>1. c.buf \in Seq(V)
  BY DEF Channel
<1>2. \A i \in 1 .. k : c.buf[i] \in V
  BY <1>1, ElementOfSeq
<1>3. SubSeq(c.buf, 1, k) \in Seq(V)
  BY <1>2, SubSeqProperties
<1> QED
  BY <1>3 DEF Channel, Cut, Chan

(* and everything that changes its flags only. *)
LEMMA FlagType ==
  ASSUME NEW V, NEW c \in Channel(V)
  PROVE  /\ Close(c) \in Channel(V) /\ Fail(c) \in Channel(V)
         /\ End(c) \in Channel(V) /\ Raise(c) \in Channel(V) /\ Leave(c) \in Channel(V)
BY DEF Channel, Close, Fail, End, Raise, Leave, Chan

(* A new channel has every type. *)
LEMMA NewType == ASSUME NEW V PROVE NewChannel \in Channel(V)
BY DEF Channel, NewChannel, Chan

-----------------------------------------------------------------------------
(* A sequence of integers that counts from from + 1. *)
Counts(s, from) == \A i \in 1 .. Len(s) : s[i] = from + i

(* Counting goes on when the next number is appended, *)
LEMMA CountsAppend ==
  ASSUME NEW V \in SUBSET Int, NEW s \in Seq(V), NEW from \in Int, Counts(s, from),
         NEW v \in V, v = from + Len(s) + 1
  PROVE  Counts(Append(s, v), from) /\ Len(Append(s, v)) = Len(s) + 1
<1>1. /\ Len(Append(s, v)) = Len(s) + 1 /\ Append(s, v)[Len(s) + 1] = v
      /\ \A i \in 1 .. Len(s) : Append(s, v)[i] = s[i]
  BY AppendProperties
<1> QED
  BY <1>1 DEF Counts

(* when the first one is taken away, *)
LEMMA CountsTail ==
  ASSUME NEW V \in SUBSET Int, NEW s \in Seq(V), NEW from \in Int, Counts(s, from), s # <<>>
  PROVE  /\ Counts(Tail(s), from + 1) /\ Head(s) = from + 1
         /\ Len(s) >= 1 /\ Len(Tail(s)) = Len(s) - 1
<1>1. /\ Len(Tail(s)) = Len(s) - 1 /\ Len(s) >= 1 /\ Head(s) = s[1]
      /\ \A i \in 1 .. Len(Tail(s)) : Tail(s)[i] = s[i + 1]
  BY HeadTailProperties
<1> QED
  BY <1>1 DEF Counts

(* and in a prefix. *)
LEMMA CountsPrefix ==
  ASSUME NEW V \in SUBSET Int, NEW s \in Seq(V), NEW from \in Int, Counts(s, from),
         NEW k \in 0 .. Len(s)
  PROVE  Counts(SubSeq(s, 1, k), from) /\ Len(SubSeq(s, 1, k)) = k
<1> DEFINE t == SubSeq(s, 1, k)
<1>1. /\ Len(t) = IF 1 <= k THEN k - 1 + 1 ELSE 0
      /\ \A i \in 1 .. k - 1 + 1 : t[i] = s[1 + i - 1]
  <2>1. \A i \in 1 .. k : s[i] \in V
    BY ElementOfSeq
  <2> QED
    BY <2>1, SubSeqProperties
<1> HIDE DEF t
<1>2. Len(t) = k /\ \A i \in 1 .. k : t[i] = s[i]
  BY <1>1
<1>3. Counts(t, from)
  BY <1>2 DEF Counts
<1> QED
  BY <1>2, <1>3 DEF t

-----------------------------------------------------------------------------
(* How many messages were received, and how many are waiting. *)
Got(c)   == Len(c.out)
Waits(c) == Len(c.buf)
Total(c) == Got(c) + Waits(c)

(* A channel that carries base + 1, base + 2, ... in this order. *)
Numbered(c, base) == Counts(c.out, base) /\ Counts(c.buf, base + Got(c))

(* What a type says about the counts and the flags. *)
LEMMA CountTypes ==
  ASSUME NEW V, NEW c \in Channel(V)
  PROVE  /\ c.buf \in Seq(V) /\ c.out \in Seq(V)
         /\ Got(c) \in Nat /\ Waits(c) \in Nat /\ Total(c) \in Nat
         /\ c.buf = <<>> <=> Waits(c) = 0
         /\ c.status \in {"open", "closed", "failed"}
         /\ c.reader \in {"reading", "ended", "raised", "returned"}
<1>1. c.buf \in Seq(V) /\ c.out \in Seq(V)
  BY DEF Channel
<1>2. Got(c) \in Nat /\ Waits(c) \in Nat
  BY <1>1, LenProperties DEF Got, Waits
<1>3. Total(c) \in Nat
  BY <1>2 DEF Total
<1>4. c.buf = <<>> <=> Waits(c) = 0
  BY <1>1, EmptySeq DEF Waits
<1> QED
  BY <1>1, <1>2, <1>3, <1>4 DEF Channel

(* Sending the next number keeps a channel numbered. *)
LEMMA SendNumbered ==
  ASSUME NEW V \in SUBSET Int, NEW c \in Channel(V), NEW base \in Int, NEW v \in V,
         Numbered(c, base), v = base + Total(c) + 1
  PROVE  /\ Numbered(Send(c, v), base)
         /\ Got(Send(c, v)) = Got(c) /\ Waits(Send(c, v)) = Waits(c) + 1
         /\ Total(Send(c, v)) = Total(c) + 1
         /\ Send(c, v).out = c.out
         /\ Send(c, v).status = c.status /\ Send(c, v).reader = c.reader
<1>1. /\ Send(c, v).buf = Append(c.buf, v) /\ Send(c, v).out = c.out
      /\ Send(c, v).status = c.status /\ Send(c, v).reader = c.reader
  BY DEF Send, Chan
<1>2. Got(c) \in Nat /\ Waits(c) \in Nat /\ c.buf \in Seq(V)
  BY CountTypes
<1>3. v = (base + Got(c)) + Waits(c) + 1 /\ base + Got(c) \in Int
  BY <1>2 DEF Total
<1>4. Counts(Append(c.buf, v), base + Got(c)) /\ Waits(Send(c, v)) = Waits(c) + 1
  <2>1. Counts(c.buf, base + Got(c))
    BY DEF Numbered
  <2>2. v = base + Got(c) + Len(c.buf) + 1
    BY <1>3 DEF Waits
  <2>3. /\ Counts(Append(c.buf, v), base + Got(c))
        /\ Len(Append(c.buf, v)) = Len(c.buf) + 1
    BY <1>2, <1>3, <2>1, <2>2, CountsAppend
  <2> QED
    BY <1>1, <2>3 DEF Waits
<1>5. Got(Send(c, v)) = Got(c)
  BY <1>1 DEF Got
<1>6. Numbered(Send(c, v), base)
  BY <1>1, <1>4, <1>5 DEF Numbered
<1>7. Total(Send(c, v)) = Total(c) + 1
  BY <1>2, <1>4, <1>5 DEF Total
<1> QED
  BY <1>1, <1>4, <1>5, <1>6, <1>7

(* Receiving moves the next number from the buffer to what was received. *)
LEMMA ReceiveNumbered ==
  ASSUME NEW V \in SUBSET Int, NEW c \in Channel(V), NEW base \in Int,
         Numbered(c, base), c.buf # <<>>
  PROVE  /\ Numbered(Receive(c), base)
         /\ Got(Receive(c)) = Got(c) + 1 /\ Waits(Receive(c)) = Waits(c) - 1
         /\ Total(Receive(c)) = Total(c)
         /\ Waits(c) >= 1
         /\ Head(c.buf) = base + Got(c) + 1
         /\ Receive(c).status = c.status /\ Receive(c).reader = c.reader
<1>1. /\ Receive(c).buf = Tail(c.buf) /\ Receive(c).out = Append(c.out, Head(c.buf))
      /\ Receive(c).status = c.status /\ Receive(c).reader = c.reader
  BY DEF Receive, Chan
<1>2. /\ Got(c) \in Nat /\ Waits(c) \in Nat /\ base + Got(c) \in Int
      /\ c.buf \in Seq(V) /\ c.out \in Seq(V) /\ Head(c.buf) \in V
  BY CountTypes, ReceiveType
<1>3. /\ Counts(Tail(c.buf), base + Got(c) + 1) /\ Head(c.buf) = base + Got(c) + 1
      /\ Waits(c) >= 1 /\ Waits(Receive(c)) = Waits(c) - 1
  BY <1>1, <1>2, CountsTail DEF Numbered, Waits
<1>4. Counts(Append(c.out, Head(c.buf)), base) /\ Got(Receive(c)) = Got(c) + 1
  <2>1. Head(c.buf) = base + Len(c.out) + 1
    BY <1>3 DEF Got
  <2>2. Counts(c.out, base)
    BY DEF Numbered
  <2>3. Counts(Append(c.out, Head(c.buf)), base) /\ Len(Append(c.out, Head(c.buf))) = Len(c.out) + 1
    BY <1>2, <2>1, <2>2, CountsAppend
  <2> QED
    BY <1>1, <2>3 DEF Got
<1>5. base + Got(Receive(c)) = base + Got(c) + 1
  BY <1>2, <1>4
<1>6. Numbered(Receive(c), base)
  BY <1>1, <1>3, <1>4, <1>5 DEF Numbered
<1>7. Total(Receive(c)) = Total(c)
  BY <1>2, <1>3, <1>4 DEF Total
<1> QED
  BY <1>1, <1>3, <1>4, <1>6, <1>7

(* Cutting what is under way keeps a channel numbered. *)
LEMMA CutNumbered ==
  ASSUME NEW V \in SUBSET Int, NEW c \in Channel(V), NEW base \in Int, Numbered(c, base),
         NEW k \in 0 .. Len(c.buf), NEW how
  PROVE  /\ Numbered(Cut(c, k, how), base)
         /\ Got(Cut(c, k, how)) = Got(c) /\ Total(Cut(c, k, how)) <= Total(c)
         /\ Cut(c, k, how).out = c.out
         /\ Cut(c, k, how).status = how /\ Cut(c, k, how).reader = c.reader
<1>1. /\ Cut(c, k, how).buf = SubSeq(c.buf, 1, k) /\ Cut(c, k, how).out = c.out
      /\ Cut(c, k, how).status = how /\ Cut(c, k, how).reader = c.reader
  BY DEF Cut, Chan
<1>2. /\ Got(c) \in Nat /\ Waits(c) \in Nat /\ base + Got(c) \in Int
      /\ c.buf \in Seq(V) /\ k \in 0 .. Waits(c)
  BY CountTypes DEF Waits
<1>3. Counts(SubSeq(c.buf, 1, k), base + Got(c)) /\ Waits(Cut(c, k, how)) = k
  BY <1>1, <1>2, CountsPrefix DEF Numbered, Waits
<1>4. Got(Cut(c, k, how)) = Got(c)
  BY <1>1 DEF Got
<1>5. Numbered(Cut(c, k, how), base)
  BY <1>1, <1>3, <1>4 DEF Numbered
<1>6. Total(Cut(c, k, how)) <= Total(c)
  BY <1>2, <1>3, <1>4 DEF Total
<1> QED
  BY <1>1, <1>4, <1>5, <1>6

(* Setting a flag changes no message. *)
LEMMA FlagFields ==
  ASSUME NEW V, NEW c \in Channel(V)
  PROVE  /\ Close(c).out = c.out /\ Close(c).buf = c.buf
         /\ Close(c).status = "closed" /\ Close(c).reader = c.reader
         /\ Fail(c).out = c.out /\ Fail(c).buf = c.buf
         /\ Fail(c).status = "failed" /\ Fail(c).reader = c.reader
         /\ End(c).out = c.out /\ End(c).buf = c.buf
         /\ End(c).status = c.status /\ End(c).reader = "ended"
         /\ Raise(c).out = c.out /\ Raise(c).buf = c.buf
         /\ Raise(c).status = c.status /\ Raise(c).reader = "raised"
         /\ Leave(c).out = c.out /\ Leave(c).buf = c.buf
         /\ Leave(c).status = c.status /\ Leave(c).reader = "returned"
BY DEF Channel, Close, Fail, End, Raise, Leave, Chan

-----------------------------------------------------------------------------
(* The inductive invariant, part by part. *)

SourceInv ==
  /\ Numbered(source, -1)
  /\ Total(source) <= N + 1
  /\ stream = "open" /\ source.status = "open" => Total(source) = sent
  /\ stream = "open" /\ source.status = "closed" => Total(source) = N + 1

SecondInv ==
  /\ current = Got(source)
  /\ Numbered(second, 0)
  /\ Total(second) = IF current = 0 THEN 0 ELSE current - 1
  /\ second.status = "closed" => source.reader = "ended"
  /\ source.reader = "ended" => Waits(source) = 0 /\ source.status = "closed"

ContentInv ==
  /\ Numbered(content, 0)
  /\ adder # "none" => Total(content) = Got(second)
  /\ adder = "none" => Total(content) = 0
  /\ handler = "head" => adder = "none" /\ Got(second) = 0 /\ second.reader = "reading"
  /\ second.reader = "ended" => Waits(second) = 0 /\ second.status = "closed"
  /\ content.status = "closed" => second.reader = "ended"

AdderInv ==
  /\ content.reader = "ended" => Waits(content) = 0 /\ content.status = "closed"
  /\ adder \in {"addingManifest", "declared"} =>
       content.reader = "ended" /\ content.out \in stored.contents
  /\ adder = "declared" => content.out \in stored.manifests

(* An id that denotes the whole file. *)
Good(id) == id = File /\ id \in stored.contents /\ id \in stored.manifests

ReplyInv ==
  /\ \A i \in 1 .. Len(reply.out) : Good(reply.out[i])
  /\ \A i \in 1 .. Len(reply.buf) : Good(reply.buf[i])
  /\ client = "resolved" => reply.out # <<>>

IInv == TypeOK /\ SourceInv /\ SecondInv /\ ContentInv /\ AdderInv /\ StoresPrefixes /\ ReplyInv

-----------------------------------------------------------------------------
(* What the types say about the counts. *)
LEMMA Counters ==
  ASSUME TypeOK
  PROVE  /\ Frame \in SUBSET Int /\ N \in Nat
         /\ Got(source) \in Nat /\ Waits(source) \in Nat /\ Total(source) \in Nat
         /\ Got(second) \in Nat /\ Waits(second) \in Nat /\ Total(second) \in Nat
         /\ Got(content) \in Nat /\ Waits(content) \in Nat /\ Total(content) \in Nat
         /\ source.buf = <<>> <=> Waits(source) = 0
         /\ second.buf = <<>> <=> Waits(second) = 0
         /\ content.buf = <<>> <=> Waits(content) = 0
         /\ Total(source) = Got(source) + Waits(source)
         /\ Total(second) = Got(second) + Waits(second)
         /\ Total(content) = Got(content) + Waits(content)
<1>1. source \in Channel(Frame) /\ second \in Channel(Frame) /\ content \in Channel(Frame)
  BY DEF TypeOK
<1>2. Frame \in SUBSET Int /\ N \in Nat
  BY NAssumption DEF Frame
<1> QED
  BY <1>1, <1>2, CountTypes DEF Total

(* A new channel is numbered from anywhere, and empty. *)
LEMMA NewCounts ==
  /\ \A b \in Int : Numbered(NewChannel, b)
  /\ Got(NewChannel) = 0 /\ Waits(NewChannel) = 0 /\ Total(NewChannel) = 0
  /\ NewChannel.out = <<>> /\ NewChannel.buf = <<>>
  /\ NewChannel.status = "open" /\ NewChannel.reader = "reading"
BY DEF Numbered, Counts, Got, Waits, Total, NewChannel, Chan

(* A step of partition()'s loop, case by case. *)
LEMMA LoopCases ==
  ASSUME PartitionLoop
  PROVE  /\ UNCHANGED <<sent, client, stream, reply, subscribed, handler, content, adder, stored>>
         /\ \/ /\ source.buf # <<>> /\ source.reader = "reading"
               /\ source' = Receive(source) /\ current' = current + 1
               /\ \/ /\ current < 1
                     /\ first' = Send(first, Head(source.buf)) /\ second' = second
                  \/ /\ ~(current < 1)
                     /\ first' = IF current = 1 THEN Close(first) ELSE first
                     /\ second' = Send(second, Head(source.buf))
               /\ box' = box
            \/ /\ source.buf = <<>> /\ source.reader = "reading" /\ source.status = "closed"
               /\ source' = End(source)
               /\ first' = Close(first) /\ second' = Close(second)
               /\ current' = current /\ box' = box
            \/ /\ source.buf = <<>> /\ source.reader = "reading" /\ source.status = "failed"
               /\ source' = Raise(source)
               /\ UNCHANGED halves /\ box' = "crashed"
BY DEF PartitionLoop, Partition!Iterate, Partition!IterateBody, Partition!IterateEnd,
       Partition!IterateError, Partition!CanReceive, Partition!Receive, Partition!Send,
       Partition!Close, Partition!CanEnd, Partition!End, Partition!CanRaise, Partition!Raise,
       Partition!Chan, Receive, Send, Close, End, Raise, Chan, halves

-----------------------------------------------------------------------------
(* The invariant holds at first. *)
LEMMA InitEstablishes == Init => IInv
<1> SUFFICES ASSUME Init PROVE IInv
  OBVIOUS
<1> USE NAssumption DEF Init
<1>0. /\ source = NewChannel /\ first = NewChannel /\ second = NewChannel /\ current = 0
      /\ content = NewChannel /\ reply = NewChannel
  BY DEF Partition!Init, Partition!NewChannel, Partition!Chan, NewChannel, Chan
<1>1. TypeOK
  <2>1. NewChannel \in Channel(Frame) /\ NewChannel \in Channel(Seq(Frame))
    BY NewType
  <2>2. sent \in 0 .. N + 1 /\ current \in Nat
    BY <1>0
  <2>3. stored \in [contents : SUBSET Seq(Frame), manifests : SUBSET Seq(Frame)]
    OBVIOUS
  <2> QED
    BY <1>0, <2>1, <2>2, <2>3 DEF TypeOK
<1>2. SourceInv /\ SecondInv /\ ContentInv /\ AdderInv
  BY <1>0, NewCounts DEF SourceInv, SecondInv, ContentInv, AdderInv
<1>3. StoresPrefixes
  BY DEF StoresPrefixes
<1>4. ReplyInv
  BY <1>0, NewCounts DEF ReplyInv
<1> QED
  BY <1>1, <1>2, <1>3, <1>4 DEF IInv

-----------------------------------------------------------------------------
(* The types. *)
LEMMA TypeNext == TypeOK /\ [Next]_vars => TypeOK'
<1> SUFFICES ASSUME TypeOK, [Next]_vars PROVE TypeOK'
  OBVIOUS
<1>0. /\ source \in Channel(Frame) /\ first \in Channel(Frame) /\ second \in Channel(Frame)
      /\ content \in Channel(Frame) /\ reply \in Channel(Seq(Frame))
      /\ current \in Nat /\ N \in Nat /\ content.out \in Seq(Frame)
  BY NAssumption, CountTypes DEF TypeOK
<1>1. CASE ClientYield
  <2>1. CASE sent <= N
    <3>1. sent \in Frame /\ sent' \in 0 .. N + 1
      BY <1>0, <1>1, <2>1 DEF ClientYield, TypeOK, Frame
    <3>2. source' \in Channel(Frame)
      BY <1>0, <1>1, <2>1, <3>1, SendType DEF ClientYield
    <3> QED
      BY <1>1, <3>1, <3>2 DEF ClientYield, TypeOK, halves, boxVars
  <2>2. CASE ~(sent <= N)
    <3>1. source' \in Channel(Frame)
      BY <1>0, <1>1, <2>2, FlagType DEF ClientYield
    <3> QED
      BY <1>1, <2>2, <3>1 DEF ClientYield, TypeOK, halves, boxVars
  <2> QED
    BY <2>1, <2>2
<1>2. CASE ClientReset
  <2>1. source' \in Channel(Frame) /\ reply' \in Channel(Seq(Frame))
    BY <1>0, <1>2, FlagType DEF ClientReset
  <2> QED
    BY <1>2, <2>1 DEF ClientReset, TypeOK, halves, boxVars
<1>3. CASE ClientMessage
  <2>1. reply' \in Channel(Seq(Frame))
    BY <1>0, <1>3, ReceiveType DEF ClientMessage, CanReceive
  <2> QED
    BY <1>3, <2>1 DEF ClientMessage, TypeOK, halves, boxVars
<1>4. CASE ClientSettle
  <2>1. reply' \in Channel(Seq(Frame))
    BY <1>0, <1>4, FlagType DEF ClientSettle
  <2>2. client' \in {"waiting", "resolved", "rejected"}
    BY <1>4 DEF ClientSettle
  <2> QED
    BY <1>4, <2>1, <2>2 DEF ClientSettle, TypeOK, halves, boxVars
<1>5. CASE LoseConnection
  <2>1. source' \in Channel(Frame)
    BY <1>0, <1>5, CutType DEF LoseConnection
  <2>2. reply' \in Channel(Seq(Frame))
    BY <1>0, <1>5, CutType DEF LoseConnection
  <2> QED
    BY <1>5, <2>1, <2>2 DEF LoseConnection, TypeOK, halves, boxVars
<1>6. CASE RegisterFile
  BY <1>6 DEF RegisterFile, TypeOK, halves
<1>7. CASE PartitionLoop
  <2>1. source.buf # <<>> => Receive(source) \in Channel(Frame) /\ Head(source.buf) \in Frame
    BY <1>0, ReceiveType
  <2>2. End(source) \in Channel(Frame) /\ Raise(source) \in Channel(Frame)
    BY <1>0, FlagType
  <2>3. source' \in Channel(Frame)
    BY <1>7, <2>1, <2>2, LoopCases
  <2>4. first' \in Channel(Frame)
    BY <1>0, <1>7, <2>1, LoopCases, SendType, FlagType DEF halves
  <2>5. second' \in Channel(Frame)
    BY <1>0, <1>7, <2>1, LoopCases, SendType, FlagType DEF halves
  <2>6. current' \in Nat
    BY <1>0, <1>7, LoopCases DEF halves
  <2>7. box' \in {"up", "crashed", "off"}
    BY <1>7, LoopCases DEF TypeOK
  <2>8. UNCHANGED <<sent, client, stream, reply, subscribed, handler, content, adder, stored>>
    BY <1>7, LoopCases
  <2> QED
    BY <2>3, <2>4, <2>5, <2>6, <2>7, <2>8 DEF TypeOK
<1>8. CASE HandlerDispatch
  <2>1. first' \in Channel(Frame)
    BY <1>0, <1>8, ReceiveType, FlagType DEF HandlerDispatch, CanReceive
  <2> QED
    BY <1>8, <2>1 DEF HandlerDispatch, TypeOK
<1>9. CASE HandlerNoRequest
  <2>1. first' \in Channel(Frame)
    BY <1>0, <1>9, FlagType DEF HandlerNoRequest
  <2> QED
    BY <1>9, <2>1 DEF HandlerNoRequest, HandlerRejects, TypeOK
<1>10. CASE SaveMessage
  <2>1. second' \in Channel(Frame) /\ Head(second.buf) \in Frame
    BY <1>0, <1>10, ReceiveType DEF SaveMessage, CanReceive
  <2>2. content' \in Channel(Frame)
    BY <1>0, <1>10, <2>1, SendType DEF SaveMessage
  <2> QED
    BY <1>10, <2>1, <2>2 DEF SaveMessage, TypeOK
<1>11. CASE SaveComplete
  <2>1. second' \in Channel(Frame) /\ content' \in Channel(Frame)
    BY <1>0, <1>11, FlagType DEF SaveComplete
  <2> QED
    BY <1>11, <2>1 DEF SaveComplete, TypeOK
<1>12. CASE Respond
  <2>1. reply' \in Channel(Seq(Frame))
    BY <1>0, <1>12, SendType DEF Respond
  <2> QED
    BY <1>12, <2>1 DEF Respond, HandlerRejects, TypeOK, halves
<1>13. CASE CloseStream
  <2>1. reply' \in Channel(Seq(Frame))
    BY <1>0, <1>13, FlagType DEF CloseStream
  <2> QED
    BY <1>13, <2>1 DEF CloseStream, HandlerRejects, TypeOK, halves
<1>14. CASE AddPull
  <2>1. content' \in Channel(Frame)
    BY <1>0, <1>14, ReceiveType DEF AddPull, CanReceive
  <2> QED
    BY <1>14, <2>1 DEF AddPull, TypeOK, halves
<1>15. CASE AddContent
  <2>1. content' \in Channel(Frame)
    BY <1>0, <1>15, FlagType DEF AddContent
  <2>2. stored' \in [contents : SUBSET Seq(Frame), manifests : SUBSET Seq(Frame)]
    BY <1>0, <1>15 DEF AddContent, TypeOK
  <2> QED
    BY <1>15, <2>1, <2>2 DEF AddContent, TypeOK, halves
<1>16. CASE AddManifest
  <2>1. stored' \in [contents : SUBSET Seq(Frame), manifests : SUBSET Seq(Frame)]
    BY <1>0, <1>16 DEF AddManifest, TypeOK
  <2> QED
    BY <1>16, <2>1 DEF AddManifest, TypeOK, halves
<1>17. CASE AddFails
  <2>1. content' \in Channel(Frame)
    BY <1>0, <1>17, FlagType DEF AddFails
  <2> QED
    BY <1>17, <2>1 DEF AddFails, TypeOK, halves
<1>18. CASE PowerLoss
  BY <1>18 DEF PowerLoss, TypeOK, halves
<1>19. CASE UNCHANGED vars
  BY <1>19 DEF vars, halves, boxVars, TypeOK
<1> QED
  BY <1>1, <1>2, <1>3, <1>4, <1>5, <1>6, <1>7, <1>8, <1>9, <1>10, <1>11, <1>12, <1>13,
     <1>14, <1>15, <1>16, <1>17, <1>18, <1>19 DEF Next, Client, Handler, Adder

-----------------------------------------------------------------------------
(* Numbering is a matter of the messages alone. *)
LEMMA SameMessages ==
  ASSUME NEW c, NEW d, c.out = d.out, c.buf = d.buf, NEW base
  PROVE  /\ Numbered(c, base) <=> Numbered(d, base)
         /\ Got(c) = Got(d) /\ Waits(c) = Waits(d) /\ Total(c) = Total(d)
BY DEF Numbered, Got, Waits, Total

(* Every step keeps what is said of the frames from the client, *)
LEMMA SourceNext == IInv /\ [Next]_vars => SourceInv'
<1> SUFFICES ASSUME IInv, [Next]_vars PROVE SourceInv'
  OBVIOUS
<1>0. /\ TypeOK /\ SourceInv
      /\ source \in Channel(Frame) /\ Frame \in SUBSET Int /\ -1 \in Int /\ N \in Nat
      /\ sent \in 0 .. N + 1
  BY Counters DEF IInv, TypeOK
<1>1. CASE ClientYield
  <2>1. Total(source) = sent
    BY <1>0, <1>1 DEF ClientYield, SourceInv
  <2>2. CASE sent <= N
    <3>1. source' = Send(source, sent) /\ sent' = sent + 1 /\ stream' = stream
      BY <1>1, <2>2 DEF ClientYield
    <3>2. sent \in Frame /\ sent = -1 + Total(source) + 1 /\ Numbered(source, -1)
      BY <1>0, <2>1, <2>2 DEF Frame, SourceInv
    <3>3. /\ Numbered(source', -1) /\ Total(source') = Total(source) + 1
          /\ source'.status = source.status
      BY <1>0, <3>1, <3>2, SendNumbered
    <3>4. source'.status = "open"
      BY <1>1, <3>3 DEF ClientYield
    <3> QED
      BY <1>0, <2>1, <2>2, <3>1, <3>3, <3>4 DEF SourceInv
  <2>3. CASE ~(sent <= N)
    <3>1. source' = Close(source) /\ sent' = sent /\ stream' = stream
      BY <1>1, <2>3 DEF ClientYield
    <3>2. Numbered(source', -1) /\ Total(source') = Total(source) /\ source'.status = "closed"
      BY <1>0, <3>1, FlagFields, SameMessages DEF SourceInv
    <3> QED
      BY <1>0, <2>1, <2>3, <3>1, <3>2 DEF SourceInv
  <2> QED
    BY <2>2, <2>3
<1>2. CASE ClientReset
  <2>1. source' = Fail(source) /\ stream' = "dead"
    BY <1>2 DEF ClientReset
  <2>2. Numbered(source', -1) /\ Total(source') = Total(source)
    BY <1>0, <2>1, FlagFields, SameMessages DEF SourceInv
  <2> QED
    BY <1>0, <2>1, <2>2 DEF SourceInv
<1>3. CASE LoseConnection
  <2>1. PICK k \in 0 .. Len(source.buf), how \in {"closed", "failed"} :
          source' = IF source.reader = "reading" THEN Cut(source, k, how) ELSE source
    BY <1>3 DEF LoseConnection
  <2>2. /\ Numbered(Cut(source, k, how), -1) /\ Total(Cut(source, k, how)) <= Total(source)
        /\ Cut(source, k, how) \in Channel(Frame)
    BY <1>0, <2>1, CutNumbered, CutType DEF SourceInv
  <2>3. Total(source) \in Nat /\ Total(Cut(source, k, how)) \in Nat
    BY <1>0, <2>2, CountTypes
  <2>4. Numbered(source', -1) /\ Total(source') <= N + 1
    BY <1>0, <2>1, <2>2, <2>3 DEF SourceInv
  <2>5. stream' = "dead"
    BY <1>3 DEF LoseConnection
  <2> QED
    BY <2>4, <2>5 DEF SourceInv
<1>4. CASE PartitionLoop
  <2>1. sent' = sent /\ stream' = stream
    BY <1>4, LoopCases
  <2>2. CASE source.buf # <<>> /\ source' = Receive(source)
    <3>1. Numbered(source', -1) /\ Total(source') = Total(source) /\ source'.status = source.status
      BY <1>0, <2>2, ReceiveNumbered DEF SourceInv
    <3> QED
      BY <1>0, <2>1, <3>1 DEF SourceInv
  <2>3. CASE source' \in {End(source), Raise(source)}
    <3>1. Numbered(source', -1) /\ Total(source') = Total(source) /\ source'.status = source.status
      BY <1>0, <2>3, FlagFields, SameMessages DEF SourceInv
    <3> QED
      BY <1>0, <2>1, <3>1 DEF SourceInv
  <2> QED
    BY <1>4, <2>2, <2>3, LoopCases
<1>5. ASSUME UNCHANGED <<source, stream, sent>> PROVE SourceInv'
  BY <1>0, <1>5 DEF SourceInv
<1>6. CASE UNCHANGED vars
  BY <1>5, <1>6 DEF vars
<1>7. CASE ClientMessage \/ ClientSettle
  BY <1>5, <1>7 DEF ClientMessage, ClientSettle
<1>8. CASE RegisterFile \/ Handler
  BY <1>5, <1>8 DEF RegisterFile, Handler, HandlerDispatch, HandlerNoRequest, SaveMessage,
                    SaveComplete, Respond, CloseStream
<1>9. CASE Adder \/ AddFails \/ PowerLoss
  BY <1>5, <1>9 DEF Adder, AddPull, AddContent, AddManifest, AddFails, PowerLoss
<1> QED
  BY <1>1, <1>2, <1>3, <1>4, <1>6, <1>7, <1>8, <1>9 DEF Next, Client

(* of the second half of the partition, *)
LEMMA SecondNext == IInv /\ [Next]_vars => SecondInv'
<1> SUFFICES ASSUME IInv, [Next]_vars PROVE SecondInv'
  OBVIOUS
<1>0. /\ TypeOK /\ SourceInv /\ SecondInv
      /\ source \in Channel(Frame) /\ second \in Channel(Frame)
      /\ Frame \in SUBSET Int /\ -1 \in Int /\ 0 \in Int /\ N \in Nat /\ current \in Nat
  BY Counters DEF IInv, TypeOK
<1>1. source.status # "closed" => source.reader # "ended" /\ second.status # "closed"
  BY <1>0 DEF SecondInv
<1>2. CASE ClientYield
  <2>1. UNCHANGED <<current, second>>
    BY <1>2 DEF ClientYield, halves
  <2>2. Send(source, sent).out = source.out /\ Send(source, sent).reader = source.reader
    BY DEF Send, Chan
  <2>3. source'.out = source.out /\ source'.reader = source.reader
    BY <1>0, <1>2, <2>2, FlagFields DEF ClientYield
  <2>4. source.reader # "ended" /\ second.status # "closed"
    BY <1>1, <1>2 DEF ClientYield
  <2>5. Got(source') = Got(source)
    BY <2>3 DEF Got
  <2> QED
    BY <1>0, <2>1, <2>3, <2>4, <2>5 DEF SecondInv
<1>3. CASE ClientReset
  <2>1. UNCHANGED <<current, second>> /\ source' = Fail(source) /\ source.status = "open"
    BY <1>3 DEF ClientReset, halves
  <2>2. source'.out = source.out /\ source'.reader = source.reader
    BY <1>0, <2>1, FlagFields
  <2>3. Got(source') = Got(source)
    BY <2>2 DEF Got
  <2> QED
    BY <1>0, <1>1, <2>1, <2>2, <2>3 DEF SecondInv
<1>4. CASE LoseConnection
  <2>1. UNCHANGED <<current, second>>
    BY <1>4 DEF LoseConnection, halves
  <2>2. CASE source.reader = "reading"
    <3>1. PICK k \in 0 .. Len(source.buf), how \in {"closed", "failed"} :
            source' = Cut(source, k, how)
      BY <1>4, <2>2 DEF LoseConnection
    <3>2. Got(source') = Got(source) /\ source'.reader = source.reader
      BY <1>0, <3>1, CutNumbered DEF SourceInv
    <3> QED
      BY <1>0, <2>1, <2>2, <3>2 DEF SecondInv
  <2>3. CASE source.reader # "reading"
    <3>1. source' = source
      BY <1>4, <2>3 DEF LoseConnection
    <3> QED
      BY <1>0, <2>1, <3>1 DEF SecondInv
  <2> QED
    BY <2>2, <2>3
<1>5. CASE PartitionLoop
  <2>1. CASE /\ source.buf # <<>> /\ source.reader = "reading"
             /\ source' = Receive(source) /\ current' = current + 1
    <3>1. /\ Got(source') = Got(source) + 1 /\ Head(source.buf) = -1 + Got(source) + 1
          /\ source'.reader = "reading" /\ Head(source.buf) \in Frame
      BY <1>0, <2>1, ReceiveNumbered, ReceiveType DEF SourceInv
    <3>2. current = Got(source) /\ Head(source.buf) = current /\ second.status # "closed"
      BY <1>0, <2>1, <3>1 DEF SecondInv
    <3>3. CASE current < 1 /\ second' = second
      <4>1. current = 0 /\ Total(second) = 0 /\ Numbered(second, 0)
        BY <1>0, <3>3 DEF SecondInv
      <4> QED
        BY <2>1, <3>1, <3>2, <3>3, <4>1 DEF SecondInv
    <3>4. CASE ~(current < 1) /\ second' = Send(second, Head(source.buf))
      <4>1. current >= 1 /\ Total(second) = current - 1 /\ Numbered(second, 0)
        BY <1>0, <3>4 DEF SecondInv
      <4>2. /\ Numbered(second', 0) /\ Total(second') = Total(second) + 1
            /\ second'.status = second.status
        <5>1. Head(source.buf) = 0 + Total(second) + 1
          BY <1>0, <3>2, <4>1
        <5> QED
          BY <1>0, <3>1, <3>4, <4>1, <5>1, SendNumbered
      <4> QED
        BY <1>0, <2>1, <3>1, <3>2, <4>1, <4>2 DEF SecondInv
    <3> QED
      BY <1>5, <2>1, <3>2, <3>3, <3>4, LoopCases
  <2>2. CASE /\ source.buf = <<>> /\ source.status = "closed" /\ source' = End(source)
             /\ second' = Close(second) /\ current' = current
    <3>1. /\ Got(source') = Got(source) /\ Waits(source') = Waits(source)
          /\ source'.status = "closed" /\ source'.reader = "ended"
      BY <1>0, <2>2, FlagFields, SameMessages
    <3>2. Numbered(second', 0) /\ Total(second') = Total(second)
      BY <1>0, <2>2, FlagFields, SameMessages DEF SecondInv
    <3>3. Waits(source) = 0
      BY <1>0, <2>2, CountTypes
    <3> QED
      BY <1>0, <2>2, <3>1, <3>2, <3>3 DEF SecondInv
  <2>3. CASE source.reader = "reading" /\ source' = Raise(source) /\ UNCHANGED halves
    <3>1. Got(source') = Got(source) /\ source'.reader = "raised"
      BY <1>0, <2>3, FlagFields, SameMessages
    <3> QED
      BY <1>0, <2>3, <3>1 DEF SecondInv, halves
  <2> QED
    BY <1>5, <2>1, <2>2, <2>3, LoopCases
<1>6. CASE SaveMessage
  <2>1. second.buf # <<>> /\ second' = Receive(second) /\ UNCHANGED <<source, current>>
    BY <1>6 DEF SaveMessage, CanReceive
  <2>2. Numbered(second', 0) /\ Total(second') = Total(second) /\ second'.status = second.status
    BY <1>0, <2>1, ReceiveNumbered DEF SecondInv
  <2> QED
    BY <1>0, <2>1, <2>2 DEF SecondInv
<1>7. CASE SaveComplete
  <2>1. second' = End(second) /\ UNCHANGED <<source, current>>
    BY <1>7 DEF SaveComplete
  <2>2. Numbered(second', 0) /\ Total(second') = Total(second) /\ second'.status = second.status
    BY <1>0, <2>1, FlagFields, SameMessages DEF SecondInv
  <2> QED
    BY <1>0, <2>1, <2>2 DEF SecondInv
<1>8. ASSUME UNCHANGED <<source, current, second>> PROVE SecondInv'
  BY <1>0, <1>8 DEF SecondInv
<1>9. CASE UNCHANGED vars
  BY <1>8, <1>9 DEF vars, halves
<1>10. CASE ClientMessage \/ ClientSettle \/ RegisterFile
  BY <1>8, <1>10 DEF ClientMessage, ClientSettle, RegisterFile, halves
<1>11. CASE HandlerDispatch \/ HandlerNoRequest \/ Respond \/ CloseStream
  BY <1>8, <1>11 DEF HandlerDispatch, HandlerNoRequest, Respond, CloseStream, halves
<1>12. CASE Adder \/ AddFails \/ PowerLoss
  BY <1>8, <1>12 DEF Adder, AddPull, AddContent, AddManifest, AddFails, PowerLoss, halves
<1> QED
  BY <1>2, <1>3, <1>4, <1>5, <1>6, <1>7, <1>9, <1>10, <1>11, <1>12 DEF Next, Client, Handler

(* of the content of save(), *)
LEMMA ContentNext == IInv /\ [Next]_vars => ContentInv'
<1> SUFFICES ASSUME IInv, [Next]_vars PROVE ContentInv'
  OBVIOUS
<1>0. /\ TypeOK /\ SecondInv /\ ContentInv
      /\ second \in Channel(Frame) /\ content \in Channel(Frame)
      /\ Frame \in SUBSET Int /\ 0 \in Int
      /\ Got(second) \in Nat /\ Total(content) \in Nat
  BY Counters DEF IInv, TypeOK
<1>1. CASE PartitionLoop
  <2>1. UNCHANGED <<handler, content, adder>>
    BY <1>1, LoopCases
  <2>2. CASE source.reader = "reading" /\ second' = Send(second, Head(source.buf))
    <3>1. second'.out = second.out /\ second'.reader = second.reader
      BY <2>2 DEF Send, Chan
    <3>2. second.reader # "ended"
      BY <1>0, <2>2 DEF SecondInv, ContentInv
    <3>3. Got(second') = Got(second)
      BY <3>1 DEF Got
    <3> QED
      BY <1>0, <2>1, <3>1, <3>2, <3>3 DEF ContentInv
  <2>3. CASE second' = Close(second)
    <3>1. /\ Got(second') = Got(second) /\ Waits(second') = Waits(second)
          /\ second'.status = "closed" /\ second'.reader = second.reader
      BY <1>0, <2>3, FlagFields, SameMessages
    <3> QED
      BY <1>0, <2>1, <3>1 DEF ContentInv
  <2>4. CASE second' = second
    BY <1>0, <2>1, <2>4 DEF ContentInv
  <2> QED
    BY <1>1, <2>2, <2>3, <2>4, LoopCases DEF halves
<1>2. CASE HandlerDispatch
  <2>1. UNCHANGED <<second, content>> /\ handler = "head" /\ handler' = "saving"
    BY <1>2 DEF HandlerDispatch
  <2>2. Total(content) = 0 /\ Got(second) = 0
    BY <1>0, <2>1 DEF ContentInv
  <2> QED
    BY <1>0, <2>1, <2>2 DEF ContentInv
<1>3. CASE HandlerNoRequest
  <2>1. UNCHANGED <<second, content, adder>> /\ handler' = "rejected"
    BY <1>3 DEF HandlerNoRequest, HandlerRejects
  <2> QED
    BY <1>0, <2>1 DEF ContentInv
<1>4. CASE SaveMessage
  <2>1. /\ second.buf # <<>> /\ second.reader = "reading" /\ second' = Receive(second)
        /\ UNCHANGED <<handler, adder>> /\ handler = "saving"
    BY <1>4 DEF SaveMessage, CanReceive
  <2>2. /\ Got(second') = Got(second) + 1 /\ Head(second.buf) = 0 + Got(second) + 1
        /\ second'.reader = "reading" /\ Head(second.buf) \in Frame
    BY <1>0, <2>1, ReceiveNumbered, ReceiveType DEF SecondInv
  <2>3. CASE adder # "none"
    <3>1. content' = Send(content, Head(second.buf))
      BY <1>4, <2>3 DEF SaveMessage, Observed
    <3>2. Numbered(content, 0) /\ Head(second.buf) = 0 + Total(content) + 1
      BY <1>0, <2>2, <2>3 DEF ContentInv
    <3>3. /\ Numbered(content', 0) /\ Total(content') = Total(content) + 1
          /\ content'.status = content.status
      BY <1>0, <2>2, <3>1, <3>2, SendNumbered
    <3> QED
      BY <1>0, <2>1, <2>2, <2>3, <3>3 DEF ContentInv
  <2>4. CASE adder = "none"
    <3>1. content' = content
      BY <1>4, <2>4 DEF SaveMessage, Observed
    <3> QED
      BY <1>0, <2>1, <2>2, <2>4, <3>1 DEF ContentInv
  <2> QED
    BY <2>3, <2>4
<1>5. CASE SaveComplete
  <2>1. /\ second.buf = <<>> /\ second.status = "closed" /\ second' = End(second)
        /\ UNCHANGED adder /\ handler' = "awaitingId" /\ content' \in {Close(content), content}
    BY <1>5 DEF SaveComplete, CanEnd
  <2>2. /\ Got(second') = Got(second) /\ Waits(second') = 0
        /\ second'.status = "closed" /\ second'.reader = "ended"
    <3>1. Waits(second) = 0
      BY <1>0, <2>1, CountTypes
    <3> QED
      BY <1>0, <2>1, <3>1, FlagFields, SameMessages
  <2>3. Numbered(content', 0) /\ Total(content') = Total(content)
    BY <1>0, <2>1, FlagFields, SameMessages DEF ContentInv
  <2> QED
    BY <1>0, <2>1, <2>2, <2>3 DEF ContentInv
<1>6. CASE Respond \/ CloseStream
  <2>1. UNCHANGED <<second, content, adder>> /\ handler # "head" /\ handler' # "head"
    BY <1>6 DEF Respond, CloseStream, HandlerRejects, halves
  <2> QED
    BY <1>0, <2>1 DEF ContentInv
<1>7. CASE AddPull
  <2>1. content.buf # <<>> /\ content' = Receive(content) /\ UNCHANGED <<second, handler, adder>>
    BY <1>7 DEF AddPull, CanReceive, halves
  <2>2. /\ Numbered(content', 0) /\ Total(content') = Total(content)
        /\ content'.status = content.status
    BY <1>0, <2>1, ReceiveNumbered DEF ContentInv
  <2> QED
    BY <1>0, <2>1, <2>2 DEF ContentInv
<1>8. CASE AddContent \/ AddManifest \/ AddFails
  <2>1. /\ UNCHANGED <<second, handler>> /\ adder # "none" /\ adder' # "none"
        /\ content' \in {End(content), Leave(content), content}
    BY <1>8 DEF AddContent, AddManifest, AddFails, halves
  <2>2. /\ Numbered(content', 0) /\ Total(content') = Total(content)
        /\ content'.status = content.status
    BY <1>0, <2>1, FlagFields, SameMessages DEF ContentInv
  <2> QED
    BY <1>0, <2>1, <2>2 DEF ContentInv
<1>9. ASSUME UNCHANGED <<handler, content, adder, second>> PROVE ContentInv'
  BY <1>0, <1>9 DEF ContentInv
<1>10. CASE Client \/ ClientReset \/ LoseConnection
  BY <1>9, <1>10 DEF Client, ClientYield, ClientMessage, ClientSettle, ClientReset,
                     LoseConnection, boxVars, halves
<1>11. CASE RegisterFile \/ PowerLoss \/ UNCHANGED vars
  BY <1>9, <1>11 DEF RegisterFile, PowerLoss, vars, boxVars, halves
<1> QED
  BY <1>1, <1>2, <1>3, <1>4, <1>5, <1>6, <1>7, <1>8, <1>10, <1>11 DEF Next, Handler, Adder

(* of what was stored of it, *)
LEMMA AdderNext == IInv /\ [Next]_vars => AdderInv'
<1> SUFFICES ASSUME IInv, [Next]_vars PROVE AdderInv'
  OBVIOUS
<1>0. /\ TypeOK /\ ContentInv /\ AdderInv /\ content \in Channel(Frame)
  BY DEF IInv, TypeOK
<1>1. CASE HandlerDispatch
  <2>1. UNCHANGED <<content, stored>> /\ adder' \in {"adding", "none"}
    BY <1>1 DEF HandlerDispatch
  <2> QED
    BY <1>0, <2>1 DEF AdderInv
<1>2. CASE SaveMessage \/ SaveComplete
  <2>1. UNCHANGED <<adder, stored>> /\ second.reader = "reading"
    BY <1>2 DEF SaveMessage, SaveComplete, CanReceive, CanEnd
  <2>2. content.reader # "ended"
    BY <1>0, <2>1 DEF ContentInv, AdderInv
  <2>3. Send(content, Head(second.buf)).reader = content.reader
    BY DEF Send, Chan
  <2>4. content'.reader = content.reader
    BY <1>0, <1>2, <2>3, FlagFields DEF SaveMessage, SaveComplete
  <2> QED
    BY <1>0, <2>1, <2>2, <2>4 DEF AdderInv
<1>3. CASE AddPull
  <2>1. content.reader = "reading" /\ UNCHANGED <<adder, stored>> /\ adder = "adding"
    BY <1>3 DEF AddPull, CanReceive
  <2>2. content'.reader = "reading"
    BY <1>3, <2>1 DEF AddPull, Receive, Chan
  <2> QED
    BY <1>0, <2>1, <2>2 DEF AdderInv
<1>4. CASE AddContent
  <2>1. /\ content.buf = <<>> /\ content.status = "closed" /\ content' = End(content)
        /\ adder' = "addingManifest" /\ stored'.contents = stored.contents \cup {content.out}
    BY <1>4 DEF AddContent, CanEnd
  <2>2. Waits(content) = 0
    BY <1>0, <2>1, CountTypes
  <2>3. /\ Waits(content') = 0 /\ content'.out = content.out
        /\ content'.status = "closed" /\ content'.reader = "ended"
    BY <1>0, <2>1, <2>2, FlagFields, SameMessages
  <2> QED
    BY <2>1, <2>3 DEF AdderInv
<1>5. CASE AddManifest
  <2>1. /\ UNCHANGED content /\ adder = "addingManifest" /\ adder' = "declared"
        /\ stored'.contents = stored.contents
        /\ stored'.manifests = stored.manifests \cup {content.out}
    BY <1>5 DEF AddManifest
  <2> QED
    BY <1>0, <2>1 DEF AdderInv
<1>6. CASE AddFails
  <2>1. /\ UNCHANGED stored /\ adder' = "failed"
        /\ content' = IF adder = "adding" THEN Leave(content) ELSE content
    BY <1>6 DEF AddFails
  <2>2. content' = content \/ content'.reader = "returned"
    BY <1>0, <2>1, FlagFields
  <2> QED
    BY <1>0, <2>1, <2>2 DEF AdderInv
<1>7. ASSUME UNCHANGED <<content, adder, stored>> PROVE AdderInv'
  BY <1>0, <1>7 DEF AdderInv
<1>8. CASE Client \/ ClientReset \/ LoseConnection
  BY <1>7, <1>8 DEF Client, ClientYield, ClientMessage, ClientSettle, ClientReset,
                    LoseConnection, boxVars
<1>9. CASE RegisterFile \/ PartitionLoop \/ PowerLoss \/ UNCHANGED vars
  BY <1>7, <1>9, LoopCases DEF RegisterFile, PowerLoss, vars, boxVars
<1>10. CASE HandlerNoRequest \/ Respond \/ CloseStream
  BY <1>7, <1>10 DEF HandlerNoRequest, Respond, CloseStream
<1> QED
  BY <1>1, <1>2, <1>3, <1>4, <1>5, <1>6, <1>8, <1>9, <1>10 DEF Next, Handler, Adder

-----------------------------------------------------------------------------
(* What the add was given never exceeds the file. *)
LEMMA ContentIsPrefix ==
  ASSUME IInv
  PROVE  Len(content.out) <= N /\ \A i \in 1 .. Len(content.out) : content.out[i] = i
<1>1. /\ Got(content) <= Total(content) /\ Got(content) \in Nat /\ Total(content) \in Nat
      /\ Got(second) \in Nat /\ Got(second) <= Total(second) /\ Total(second) \in Nat
      /\ Got(source) \in Nat /\ Got(source) <= Total(source) /\ Total(source) \in Nat
      /\ N \in Nat
  BY Counters DEF IInv
<1>2. Total(content) <= Got(second)
  BY <1>1 DEF IInv, ContentInv
<1>3. Total(second) <= N
  BY <1>1 DEF IInv, SecondInv, SourceInv
<1>4. Got(content) <= N
  BY <1>1, <1>2, <1>3
<1>5. \A i \in 1 .. Len(content.out) : content.out[i] = 0 + i
  BY DEF IInv, ContentInv, Numbered, Counts
<1>6. Len(content.out) \in Nat
  BY <1>1 DEF Got
<1> QED
  BY <1>4, <1>5, <1>6 DEF Got

(* that prefixes only are stored, *)
LEMMA PrefixNext == IInv /\ [Next]_vars => StoresPrefixes'
<1> SUFFICES ASSUME IInv, [Next]_vars PROVE StoresPrefixes'
  OBVIOUS
<1>1. CASE AddContent
  <2>1. stored' = [contents |-> stored.contents \cup {content.out}, manifests |-> stored.manifests]
    BY <1>1 DEF AddContent
  <2> QED
    BY <2>1, ContentIsPrefix DEF IInv, StoresPrefixes
<1>2. CASE AddManifest
  <2>1. stored' = [contents |-> stored.contents, manifests |-> stored.manifests \cup {content.out}]
    BY <1>2 DEF AddManifest
  <2> QED
    BY <2>1, ContentIsPrefix DEF IInv, StoresPrefixes
<1>3. ASSUME UNCHANGED stored PROVE StoresPrefixes'
  BY <1>3 DEF IInv, StoresPrefixes
<1>4. CASE Client \/ ClientReset \/ LoseConnection \/ RegisterFile \/ PartitionLoop
  BY <1>3, <1>4, LoopCases DEF Client, ClientYield, ClientMessage, ClientSettle, ClientReset,
                               LoseConnection, RegisterFile, boxVars
<1>5. CASE Handler
  BY <1>3, <1>5 DEF Handler, HandlerDispatch, HandlerNoRequest, SaveMessage, SaveComplete,
                    Respond, CloseStream
<1>6. CASE AddPull \/ AddFails \/ PowerLoss \/ UNCHANGED vars
  BY <1>3, <1>6 DEF AddPull, AddFails, PowerLoss, vars, boxVars
<1> QED
  BY <1>1, <1>2, <1>4, <1>5, <1>6 DEF Next, Adder

-----------------------------------------------------------------------------
(* On a stream that is still open, a declared id is that of the whole file:
   every channel of the chain was read to its end. *)
LEMMA DeclaredIsGood ==
  ASSUME IInv, stream = "open", adder = "declared"
  PROVE  Good(content.out)
<1>1. content.reader = "ended" /\ Waits(content) = 0 /\ content.status = "closed"
  BY DEF IInv, AdderInv
<1>2. second.reader = "ended" /\ Waits(second) = 0 /\ second.status = "closed"
  BY <1>1 DEF IInv, ContentInv
<1>3. source.reader = "ended" /\ Waits(source) = 0 /\ source.status = "closed"
  BY <1>2 DEF IInv, SecondInv
<1>4. /\ Total(source) = Got(source) + Waits(source) /\ Got(source) \in Nat
      /\ Total(second) = Got(second) + Waits(second) /\ Got(second) \in Nat
      /\ Total(content) = Got(content) + Waits(content) /\ Got(content) \in Nat
      /\ N \in Nat
  BY Counters DEF IInv
<1>5. Got(source) = N + 1
  BY <1>3, <1>4 DEF IInv, SourceInv
<1>6. Got(second) = N
  BY <1>2, <1>4, <1>5 DEF IInv, SecondInv
<1>7. Got(content) = N
  BY <1>1, <1>4, <1>6 DEF IInv, ContentInv
<1>8. Len(content.out) = N /\ \A i \in 1 .. N : content.out[i] = i
  BY <1>7, ContentIsPrefix DEF Got
<1>9. content.out = File
  <2>1. content.out \in Seq(Frame)
    BY CountTypes DEF IInv, TypeOK
  <2>2. content.out = [i \in 1 .. N |-> content.out[i]]
    BY <1>8, <2>1, SeqDef
  <2> QED
    BY <1>8, <2>2 DEF File, Chunk
<1>10. content.out \in stored.contents /\ content.out \in stored.manifests
  BY DEF IInv, AdderInv
<1> QED
  BY <1>9, <1>10 DEF Good

(* What was good stays good: nothing is ever removed from IPFS. *)
LEMMA GoodStays ==
  ASSUME IInv, [Next]_vars, NEW id, Good(id)
  PROVE  Good(id)'
<1>1. CASE AddContent \/ AddManifest
  BY <1>1 DEF AddContent, AddManifest, Good, File, Chunk
<1>2. ASSUME UNCHANGED stored PROVE Good(id)'
  BY <1>2 DEF Good, File, Chunk
<1>3. CASE Client \/ ClientReset \/ LoseConnection \/ RegisterFile \/ PartitionLoop
  BY <1>2, <1>3, LoopCases DEF Client, ClientYield, ClientMessage, ClientSettle, ClientReset,
                               LoseConnection, RegisterFile, boxVars
<1>4. CASE Handler
  BY <1>2, <1>4 DEF Handler, HandlerDispatch, HandlerNoRequest, SaveMessage, SaveComplete,
                    Respond, CloseStream
<1>5. CASE AddPull \/ AddFails \/ PowerLoss \/ UNCHANGED vars
  BY <1>2, <1>5 DEF AddPull, AddFails, PowerLoss, vars, boxVars
<1> QED
  BY <1>1, <1>3, <1>4, <1>5 DEF Next, Adder

(* and of the ids on their way back. *)
LEMMA ReplyNext == IInv /\ [Next]_vars => ReplyInv'
<1> SUFFICES ASSUME IInv, [Next]_vars PROVE ReplyInv'
  OBVIOUS
<1> DEFINE Fine(id) == id = File /\ id \in stored'.contents /\ id \in stored'.manifests
<1>0. /\ ReplyInv /\ reply \in Channel(Seq(Frame))
      /\ reply.buf \in Seq(Seq(Frame)) /\ reply.out \in Seq(Seq(Frame))
  BY CountTypes DEF IInv, TypeOK
<1>1. \A id : Good(id) => Fine(id)
  BY GoodStays DEF Good, File, Chunk
<1>2. /\ \A i \in 1 .. Len(reply.out) : Fine(reply.out[i])
      /\ \A i \in 1 .. Len(reply.buf) : Fine(reply.buf[i])
      /\ client = "resolved" => reply.out # <<>>
  BY <1>0, <1>1 DEF ReplyInv
<1>3. SUFFICES /\ \A i \in 1 .. Len(reply'.out) : Fine(reply'.out[i])
               /\ \A i \in 1 .. Len(reply'.buf) : Fine(reply'.buf[i])
               /\ client' = "resolved" => reply'.out # <<>>
  BY DEF ReplyInv, Good, File, Chunk
<1> HIDE DEF Fine
<1>4. ASSUME reply'.out = reply.out, reply'.buf = reply.buf, UNCHANGED client
      PROVE  /\ \A i \in 1 .. Len(reply'.out) : Fine(reply'.out[i])
             /\ \A i \in 1 .. Len(reply'.buf) : Fine(reply'.buf[i])
             /\ client' = "resolved" => reply'.out # <<>>
  BY <1>2, <1>4
<1>5. CASE ClientReset \/ CloseStream
  <2>1. reply' \in {Fail(reply), Close(reply), reply} /\ UNCHANGED client
    BY <1>5 DEF ClientReset, CloseStream
  <2> QED
    BY <1>0, <1>4, <2>1, FlagFields
<1>6. CASE ClientMessage
  <2>1. /\ reply.buf # <<>> /\ UNCHANGED client
        /\ reply'.buf = Tail(reply.buf) /\ reply'.out = Append(reply.out, Head(reply.buf))
    BY <1>6 DEF ClientMessage, CanReceive, Receive, Chan
  <2>2. /\ Head(reply.buf) \in Seq(Frame) /\ Head(reply.buf) = reply.buf[1]
        /\ Len(reply.buf) \in Nat /\ Len(reply.buf) >= 1 /\ Len(Tail(reply.buf)) = Len(reply.buf) - 1
        /\ \A i \in 1 .. Len(Tail(reply.buf)) : Tail(reply.buf)[i] = reply.buf[i + 1]
    BY <1>0, <2>1, HeadTailProperties, LenProperties
  <2>3. /\ Len(reply'.out) = Len(reply.out) + 1 /\ Len(reply.out) \in Nat
        /\ reply'.out[Len(reply.out) + 1] = Head(reply.buf)
        /\ \A i \in 1 .. Len(reply.out) : reply'.out[i] = reply.out[i]
    BY <1>0, <2>1, <2>2, AppendProperties, LenProperties
  <2>4. Fine(reply.buf[1])
    BY <1>2, <2>2
  <2>5. \A i \in 1 .. Len(reply'.out) : Fine(reply'.out[i])
    BY <1>2, <2>2, <2>3, <2>4
  <2>6. \A i \in 1 .. Len(reply'.buf) : Fine(reply'.buf[i])
    BY <1>2, <2>1, <2>2
  <2>7. reply'.out # <<>>
    BY <2>3
  <2> QED
    BY <2>5, <2>6, <2>7
<1>7. CASE ClientSettle
  <2>1. /\ reply' \in {End(reply), Raise(reply)}
        /\ client' = "resolved" => reply.out # <<>>
    BY <1>7 DEF ClientSettle
  <2>2. reply'.out = reply.out /\ reply'.buf = reply.buf
    BY <1>0, <2>1, FlagFields
  <2> QED
    BY <1>2, <2>1, <2>2
<1>8. CASE LoseConnection
  <2>1. CASE UNCHANGED reply
    BY <1>4, <1>8, <2>1 DEF LoseConnection
  <2>2. CASE ~UNCHANGED reply
    <3>1. PICK k \in 0 .. Len(reply.buf), how \in {"closed", "failed"} : reply' = Cut(reply, k, how)
      BY <1>8, <2>2 DEF LoseConnection
    <3>2. reply'.out = reply.out /\ reply'.buf = SubSeq(reply.buf, 1, k) /\ UNCHANGED client
      BY <1>8, <3>1 DEF LoseConnection, Cut, Chan
    <3>3. \A i \in 1 .. Len(reply'.buf) : reply'.buf[i] = reply.buf[i] /\ i \in 1 .. Len(reply.buf)
      <4>1. \A i \in 1 .. k : reply.buf[i] \in Seq(Frame)
        BY <1>0, ElementOfSeq
      <4>2. /\ Len(SubSeq(reply.buf, 1, k)) = IF 1 <= k THEN k - 1 + 1 ELSE 0
            /\ \A i \in 1 .. k - 1 + 1 : SubSeq(reply.buf, 1, k)[i] = reply.buf[1 + i - 1]
        BY <4>1, SubSeqProperties
      <4>3. Len(reply.buf) \in Nat
        BY <1>0, LenProperties
      <4> QED
        BY <3>2, <4>2, <4>3
    <3> QED
      BY <1>2, <3>2, <3>3
  <2> QED
    BY <2>1, <2>2
<1>9. CASE Respond
  <2>1. CASE stream = "open"
    <3>1. reply' = Send(reply, content.out) /\ adder = "declared" /\ UNCHANGED client
      BY <1>9, <2>1 DEF Respond
    <3>2. Fine(content.out) /\ content.out \in Seq(Frame)
      BY <1>1, <2>1, <3>1, DeclaredIsGood, CountTypes DEF IInv, TypeOK
    <3>3. reply'.out = reply.out /\ reply'.buf = Append(reply.buf, content.out)
      BY <3>1 DEF Send, Chan
    <3>4. /\ Len(reply'.buf) = Len(reply.buf) + 1 /\ Len(reply.buf) \in Nat
          /\ reply'.buf[Len(reply.buf) + 1] = content.out
          /\ \A i \in 1 .. Len(reply.buf) : reply'.buf[i] = reply.buf[i]
      BY <1>0, <3>2, <3>3, AppendProperties, LenProperties
    <3> QED
      BY <1>2, <3>1, <3>2, <3>3, <3>4
  <2>2. CASE stream # "open"
    BY <1>4, <1>9, <2>2 DEF Respond
  <2> QED
    BY <2>1, <2>2
<1>10. CASE UNCHANGED <<reply, client>>
  BY <1>4, <1>10
<1>11. CASE ClientYield \/ RegisterFile \/ PartitionLoop \/ PowerLoss \/ UNCHANGED vars
  BY <1>10, <1>11, LoopCases DEF ClientYield, RegisterFile, PowerLoss, vars
<1>12. CASE HandlerDispatch \/ HandlerNoRequest \/ SaveMessage \/ SaveComplete
  BY <1>10, <1>12 DEF HandlerDispatch, HandlerNoRequest, SaveMessage, SaveComplete
<1>13. CASE Adder \/ AddFails
  BY <1>10, <1>13 DEF Adder, AddPull, AddContent, AddManifest, AddFails
<1> QED
  BY <1>5, <1>6, <1>7, <1>8, <1>9, <1>11, <1>12, <1>13 DEF Next, Client, Handler

-----------------------------------------------------------------------------
(* Every step keeps the invariant, *)
LEMMA StepKeeps == IInv /\ [Next]_vars => IInv'
BY TypeNext, SourceNext, SecondNext, ContentNext, AdderNext, PrefixNext, ReplyNext DEF IInv

(* so it holds in every state. *)
THEOREM Invariance == SafeSpec => []IInv
BY InitEstablishes, StepKeeps, PTL DEF SafeSpec

(* Every variable keeps its type, whatever the number of chunks. *)
THEOREM TypeCorrect == SafeSpec => []TypeOK
<1>1. IInv => TypeOK
  BY DEF IInv
<1> QED
  BY Invariance, <1>1, PTL

(* An id a client gets denotes its whole file, with no chunk missing or out of
   order, and both content and manifest are stored by then: for a file of any
   number of chunks, whatever is lost, reset or powered off. *)
THEOREM IdDenotesFileHolds == SafeSpec => []IdDenotesFile
<1>1. IInv => IdDenotesFile
  <2>1. SUFFICES ASSUME IInv, client = "resolved" PROVE Good(Id)
    BY DEF IdDenotesFile, Good
  <2>2. reply.out \in Seq(Seq(Frame)) /\ reply.out # <<>>
    BY <2>1, CountTypes DEF IInv, TypeOK, ReplyInv
  <2>3. Len(reply.out) \in 1 .. Len(reply.out)
    BY <2>2, EmptySeq, LenProperties
  <2> QED
    BY <2>1, <2>3 DEF IInv, ReplyInv, Id
<1> QED
  BY Invariance, <1>1, PTL

(* Whatever IPFS stores of an upload is a prefix of the file; the Request is
   never part of it. *)
THEOREM StoresPrefixesHolds == SafeSpec => []StoresPrefixes
<1>1. IInv => StoresPrefixes
  BY DEF IInv
<1> QED
  BY Invariance, <1>1, PTL

-----------------------------------------------------------------------------
(* The whole transfer: the inductive invariant. *)

(* The upload: the first half of the partition has the Request, when it is
   there, and ends when it must. *)
FirstInv ==
  /\ Numbered(first, -1)
  /\ Total(first) = IF current = 0 THEN 0 ELSE 1
  /\ handler = "head" => Got(first) = 0
  /\ first.status = "closed" <=> Total(second) > 0 \/ source.reader = "ended"
  /\ second.status = "closed" <=> source.reader = "ended"

(* What follows from something that was stored, or lost. *)
CauseInv ==
  /\ source.status = "failed" => stream = "dead"
  /\ stored.contents # {} => adder # "none"
  /\ stored.manifests # {} => adder = "declared"
  /\ client = "resolved" => reply.reader = "ended"
  /\ client = "rejected" => reply.reader \in {"ended", "raised"}
  /\ adder # "none" => subscribed \/ restarted

UploadInv == IInv /\ FirstInv /\ CauseInv

(* The retrieval: its two streams. *)
MetaReply      == rreply["meta"]
ContentReply   == rreply["content"]
MetaHandler    == rhandler["meta"]
ContentHandler == rhandler["content"]

AllEmpty(s) == \A i \in 1 .. Len(s) : s[i] = R!Empty

(* An answer EMPTY to the meta request is the only message of its stream, and
   the content is asked for only after another answer. *)
MetaInv ==
  /\ rclient = "meta" => ContentHandler = "closed"
  /\ ContentHandler = "closed" => rclient \in {"meta", "rejected"}
  /\ Total(MetaReply) > 0 \/ ContentHandler # "closed" => MetaHandler \in {"closing", "done", "rejected"}
  /\ MetaHandler = "empty" => "meta" \in failed
  /\ "meta" \in failed =>
       /\ ContentHandler = "closed"
       /\ MetaHandler \in {"empty", "closing", "done", "rejected"}
       /\ rclient = "meta" => Got(MetaReply) = 0 /\ AllEmpty(MetaReply.buf)

(* The chunks that were read have all been sent, in order, as long as nothing
   is lost; or the stream has EMPTY alone. *)
ChunksInv ==
  /\ ContentHandler \in {"closed", "requested", "retrieving"} => read = 0
  /\ ContentHandler = "empty" => "content" \in failed
  /\ "content" \in failed =>
       /\ ContentHandler \in {"empty", "closing", "done", "rejected"}
       /\ Total(ContentReply) <= 1 /\ AllEmpty(ContentReply.out) /\ AllEmpty(ContentReply.buf)
       /\ ContentHandler = "empty" => Total(ContentReply) = 0
  /\ "content" \notin failed =>
       /\ Numbered(ContentReply, 0) /\ Total(ContentReply) <= read
       /\ rconnected => Total(ContentReply) = read
       /\ rconnected /\ ContentHandler \in {"closing", "done"} => read = N

(* The stream of the content ends with its handler. *)
EndInv ==
  /\ rconnected /\ ContentReply.status = "closed" => ContentHandler = "done"
  /\ rclient = "resolved" /\ rconnected => Waits(ContentReply) = 0 /\ ContentReply.status = "closed"

RetrievalInv == R!TypeOK /\ MetaInv /\ ChunksInv /\ EndInv

(* The Meta, from the request to the answer. *)
MessagesInv ==
  /\ meta \in Metas /\ request = RequestFor(meta)
  /\ adder = "declared" => manifest = ManifestOf(request, Cid)
  /\ rclient \in {"content", "resolved"} => found = AnswerTo(ManifestOf(request, Cid))

JointInv ==
  /\ rclient = "resolved" => client = "resolved"
  /\ restarted \in BOOLEAN
  /\ CrashHasCause

TransferIInv == UploadInv /\ RetrievalInv /\ MessagesInv /\ JointInv

-----------------------------------------------------------------------------
(* The upload. *)

(* What the types say about the first half. *)
LEMMA FirstCounts ==
  ASSUME TypeOK
  PROVE  /\ first \in Channel(Frame) /\ Frame \in SUBSET Int /\ -1 \in Int /\ current \in Nat
         /\ Got(first) \in Nat /\ Waits(first) \in Nat /\ Total(first) = Got(first) + Waits(first)
         /\ first.buf = <<>> <=> Waits(first) = 0
<1>1. first \in Channel(Frame) /\ current \in Nat
  BY DEF TypeOK
<1> QED
  BY <1>1, Counters, CountTypes DEF Total

(* Each step of the upload keeps what is said of the first half, *)
LEMMA FirstNext == IInv /\ FirstInv /\ [Next]_vars => FirstInv'
<1> SUFFICES ASSUME IInv, FirstInv, [Next]_vars PROVE FirstInv'
  OBVIOUS
<1>0. /\ TypeOK /\ SourceInv /\ SecondInv
      /\ source \in Channel(Frame) /\ second \in Channel(Frame) /\ first \in Channel(Frame)
      /\ Frame \in SUBSET Int /\ -1 \in Int /\ 0 \in Int /\ current \in Nat
      /\ Got(source) \in Nat /\ Total(second) \in Nat
  BY Counters, FirstCounts DEF IInv, TypeOK
<1>1. ASSUME UNCHANGED <<first, current, handler>>,
             Total(second') = Total(second), second'.status = second.status,
             source'.reader = source.reader
      PROVE  FirstInv'
  BY <1>1 DEF FirstInv
<1>2. CASE PartitionLoop
  <2>1. UNCHANGED handler
    BY <1>2, LoopCases
  <2>2. CASE /\ source.buf # <<>> /\ source.reader = "reading"
             /\ source' = Receive(source) /\ current' = current + 1
    <3>1. Head(source.buf) = current /\ source'.reader = "reading" /\ Head(source.buf) \in Frame
      <4>1. Head(source.buf) = -1 + Got(source) + 1 /\ Head(source.buf) \in Frame
        BY <1>0, <2>2, ReceiveNumbered, ReceiveType DEF SourceInv
      <4>2. Receive(source).reader = source.reader
        BY DEF Receive, Chan
      <4> QED
        BY <1>0, <2>2, <4>1, <4>2 DEF SecondInv
    <3>2. CASE current < 1 /\ first' = Send(first, Head(source.buf)) /\ second' = second
      <4>1. current = 0 /\ Total(first) = 0 /\ Numbered(first, -1)
        BY <1>0, <3>2 DEF FirstInv
      <4>2. /\ Numbered(first', -1) /\ Got(first') = Got(first) /\ Total(first') = 1
            /\ first'.status = first.status
        <5>1. Head(source.buf) = -1 + Total(first) + 1
          BY <3>1, <4>1
        <5> QED
          BY <1>0, <3>1, <3>2, <4>1, <5>1, SendNumbered
      <4> QED
        BY <1>0, <2>1, <2>2, <3>1, <3>2, <4>1, <4>2 DEF FirstInv
    <3>3. CASE /\ ~(current < 1) /\ first' = IF current = 1 THEN Close(first) ELSE first
               /\ second' = Send(second, Head(source.buf))
      <4>1. /\ Numbered(first', -1) /\ Total(first') = Total(first) /\ Got(first') = Got(first)
            /\ current = 1 => first'.status = "closed"
            /\ current # 1 => first'.status = first.status
        BY <1>0, <3>3, FlagFields, SameMessages DEF FirstInv
      <4>2. Total(second) = current - 1 /\ Numbered(second, 0)
        BY <1>0, <3>3 DEF SecondInv
      <4>3. Total(second') = current /\ second'.status = second.status
        <5>1. Head(source.buf) = 0 + Total(second) + 1
          BY <1>0, <3>1, <4>2
        <5> QED
          BY <1>0, <3>1, <3>3, <4>2, <5>1, SendNumbered
      <4>4. first'.status = "closed"
        BY <1>0, <3>3, <4>1, <4>2 DEF FirstInv
      <4>5. current # 0 /\ current + 1 # 0 /\ current > 0 /\ Total(first) = 1
        BY <1>0, <3>3 DEF FirstInv
      <4>6. second.status # "closed"
        BY <2>2 DEF FirstInv
      <4> QED
        BY <2>1, <2>2, <3>1, <4>1, <4>3, <4>4, <4>5, <4>6 DEF FirstInv
    <3> QED
      BY <1>2, <2>2, <3>2, <3>3, LoopCases
  <2>3. CASE /\ source' = End(source) /\ current' = current
             /\ first' = Close(first) /\ second' = Close(second)
    <3>1. /\ Numbered(first', -1) /\ Total(first') = Total(first) /\ Got(first') = Got(first)
          /\ first'.status = "closed" /\ second'.status = "closed" /\ source'.reader = "ended"
      BY <1>0, <2>3, FlagFields, SameMessages DEF FirstInv
    <3> QED
      BY <2>1, <2>3, <3>1 DEF FirstInv
  <2>4. CASE source.reader = "reading" /\ source' = Raise(source) /\ UNCHANGED halves
    <3>1. source'.reader = "raised"
      BY <1>0, <2>4, FlagFields
    <3> QED
      BY <2>1, <2>4, <3>1 DEF FirstInv, halves
  <2> QED
    BY <1>2, <2>2, <2>3, <2>4, LoopCases
<1>3. CASE HandlerDispatch
  <2>1. /\ first.buf # <<>> /\ first' = Leave(Receive(first))
        /\ handler' # "head" /\ UNCHANGED <<source, current, second>>
    BY <1>3 DEF HandlerDispatch, CanReceive
  <2>2. /\ Numbered(Receive(first), -1) /\ Total(Receive(first)) = Total(first)
        /\ Receive(first).status = first.status /\ Receive(first) \in Channel(Frame)
    BY <1>0, <2>1, ReceiveNumbered, ReceiveType DEF FirstInv
  <2>3. /\ Numbered(first', -1) /\ Total(first') = Total(first) /\ first'.status = first.status
    BY <2>1, <2>2, FlagFields, SameMessages
  <2> QED
    BY <2>1, <2>3 DEF FirstInv
<1>4. CASE HandlerNoRequest
  <2>1. first' = End(first) /\ handler' # "head" /\ UNCHANGED <<source, current, second>>
    BY <1>4 DEF HandlerNoRequest, HandlerRejects
  <2>2. /\ Numbered(first', -1) /\ Total(first') = Total(first) /\ first'.status = first.status
    BY <1>0, <2>1, FlagFields, SameMessages DEF FirstInv
  <2> QED
    BY <2>1, <2>2 DEF FirstInv
<1>5. CASE SaveMessage
  <2>1. /\ second.buf # <<>> /\ second' = Receive(second)
        /\ UNCHANGED <<source, current, first, handler>>
    BY <1>5 DEF SaveMessage, CanReceive
  <2>2. Total(second') = Total(second) /\ second'.status = second.status
    BY <1>0, <2>1, ReceiveNumbered DEF SecondInv
  <2> QED
    BY <1>1, <2>1, <2>2
<1>6. CASE SaveComplete
  <2>1. /\ second' = End(second) /\ handler = "saving" /\ handler' = "awaitingId"
        /\ UNCHANGED <<source, current, first>>
    BY <1>6 DEF SaveComplete
  <2>2. Total(second') = Total(second) /\ second'.status = second.status
    BY <1>0, <2>1, FlagFields, SameMessages
  <2> QED
    BY <2>1, <2>2 DEF FirstInv
<1>7. CASE Respond \/ CloseStream
  <2>1. handler # "head" /\ handler' # "head" /\ UNCHANGED <<source, current, first, second>>
    BY <1>7 DEF Respond, CloseStream, HandlerRejects, halves
  <2> QED
    BY <2>1 DEF FirstInv
<1>8. CASE ClientYield \/ ClientReset \/ LoseConnection
  <2>1. UNCHANGED <<current, first, second, handler>>
    BY <1>8 DEF ClientYield, ClientReset, LoseConnection, halves, boxVars
  <2>2. source'.reader = source.reader
    BY <1>8 DEF ClientYield, ClientReset, LoseConnection, Send, Close, Fail, Cut, Chan
  <2> QED
    BY <1>1, <2>1, <2>2
<1>9. CASE ClientMessage \/ ClientSettle \/ RegisterFile \/ Adder \/ AddFails \/ PowerLoss \/ UNCHANGED vars
  <2>1. UNCHANGED <<source, current, first, second, handler>>
    BY <1>9 DEF ClientMessage, ClientSettle, RegisterFile, Adder, AddPull, AddContent, AddManifest,
                AddFails, PowerLoss, vars, halves, boxVars
  <2> QED
    BY <1>1, <2>1
<1> QED
  BY <1>2, <1>3, <1>4, <1>5, <1>6, <1>7, <1>8, <1>9 DEF Next, Client, Handler

(* and what follows from something that was stored or lost. *)
LEMMA CauseNext == IInv /\ CauseInv /\ [Next]_vars /\ UNCHANGED restarted => CauseInv'
<1> SUFFICES ASSUME IInv, CauseInv, [Next]_vars, UNCHANGED restarted PROVE CauseInv'
  OBVIOUS
<1>0. /\ handler = "head" => adder = "none"
      /\ source \in Channel(Frame) /\ reply \in Channel(Seq(Frame)) /\ subscribed \in BOOLEAN
  BY DEF IInv, ContentInv, TypeOK
<1>1. ASSUME UNCHANGED <<stream, adder, stored, client, subscribed>>,
             source'.status = source.status,
             reply'.reader = reply.reader
      PROVE  CauseInv'
  BY <1>1 DEF CauseInv
<1>2. CASE ClientYield
  <2>1. UNCHANGED <<stream, adder, stored, client, reply, subscribed>>
    BY <1>2 DEF ClientYield, boxVars
  <2>2. source'.status # "failed"
    BY <1>2 DEF ClientYield, Send, Close, Chan
  <2> QED
    BY <2>1, <2>2 DEF CauseInv
<1>3. CASE ClientReset \/ LoseConnection
  <2>1. stream' = "dead" /\ UNCHANGED <<adder, stored, client, subscribed>>
    BY <1>3 DEF ClientReset, LoseConnection, boxVars
  <2>2. reply'.reader = reply.reader
    BY <1>3 DEF ClientReset, LoseConnection, Fail, Cut, Chan
  <2> QED
    BY <2>1, <2>2 DEF CauseInv
<1>4. CASE ClientMessage
  <2>1. UNCHANGED <<stream, adder, stored, client, source, subscribed>>
    BY <1>4 DEF ClientMessage, boxVars
  <2>2. reply'.reader = reply.reader
    BY <1>4 DEF ClientMessage, Receive, Chan
  <2> QED
    BY <1>1, <2>1, <2>2
<1>5. CASE ClientSettle
  <2>1. UNCHANGED <<stream, adder, stored, source, subscribed>>
    BY <1>5 DEF ClientSettle, boxVars
  <2>2. /\ client' = "resolved" => reply'.reader = "ended"
        /\ client' = "rejected" => reply'.reader \in {"ended", "raised"}
    BY <1>5 DEF ClientSettle, End, Raise, Chan
  <2> QED
    BY <2>1, <2>2 DEF CauseInv
<1>6. CASE RegisterFile
  BY <1>6 DEF RegisterFile, CauseInv
<1>7. CASE PartitionLoop
  <2>1. source'.status = source.status
    BY <1>7, LoopCases DEF Receive, End, Raise, Chan
  <2> QED
    BY <1>1, <1>7, <2>1, LoopCases
<1>8. CASE HandlerDispatch
  <2>1. /\ handler = "head" /\ UNCHANGED <<stream, client, source, reply, stored, subscribed>>
        /\ adder' = IF subscribed THEN "adding" ELSE "none"
    BY <1>8 DEF HandlerDispatch
  <2>2. adder = "none" /\ stored.contents = {} /\ stored.manifests = {}
    BY <1>0, <2>1 DEF CauseInv
  <2> QED
    BY <2>1, <2>2 DEF CauseInv
<1>9. CASE HandlerNoRequest \/ SaveMessage \/ SaveComplete
  <2>1. UNCHANGED <<stream, adder, stored, client, source, reply, subscribed>>
    BY <1>9 DEF HandlerNoRequest, SaveMessage, SaveComplete
  <2> QED
    BY <1>1, <2>1
<1>10. CASE Respond \/ CloseStream
  <2>1. UNCHANGED <<stream, adder, stored, client, source, subscribed>>
    BY <1>10 DEF Respond, CloseStream
  <2>2. reply'.reader = reply.reader
    BY <1>10 DEF Respond, CloseStream, Send, Close, Chan
  <2> QED
    BY <1>1, <2>1, <2>2
<1>11. CASE AddPull \/ PowerLoss \/ UNCHANGED vars
  <2>1. UNCHANGED <<stream, adder, stored, client, source, reply, subscribed>>
    BY <1>11 DEF AddPull, PowerLoss, vars, boxVars
  <2> QED
    BY <1>1, <2>1
<1>12. CASE AddContent
  <2>1. /\ adder = "adding" /\ adder' = "addingManifest" /\ stored'.manifests = stored.manifests
        /\ UNCHANGED <<stream, client, source, reply, subscribed>>
    BY <1>12 DEF AddContent
  <2> QED
    BY <2>1 DEF CauseInv
<1>13. CASE AddManifest
  <2>1. /\ adder = "addingManifest" /\ adder' = "declared"
        /\ UNCHANGED <<stream, client, source, reply, subscribed>>
    BY <1>13 DEF AddManifest
  <2> QED
    BY <2>1 DEF CauseInv
<1>14. CASE AddFails
  <2>1. /\ adder \in {"adding", "addingManifest"} /\ adder' = "failed"
        /\ UNCHANGED <<stream, client, source, reply, subscribed, stored>>
    BY <1>14 DEF AddFails
  <2> QED
    BY <2>1 DEF CauseInv
<1> QED
  BY <1>2, <1>3, <1>4, <1>5, <1>6, <1>7, <1>8, <1>9, <1>10, <1>11, <1>12, <1>13, <1>14
     DEF Next, Client, Handler, Adder

LEMMA UploadNext == UploadInv /\ [Next]_vars /\ UNCHANGED restarted => UploadInv'
BY StepKeeps, FirstNext, CauseNext DEF UploadInv

(* A client that has its id was answered about a file that is all stored. *)
LEMMA ResolvedIsStored ==
  ASSUME UploadInv, client = "resolved"
  PROVE  Good(Id) /\ adder = "declared" /\ (subscribed \/ restarted)
<1>1. reply.out \in Seq(Seq(Frame)) /\ reply.out # <<>>
  BY CountTypes DEF UploadInv, IInv, TypeOK, ReplyInv
<1>2. Len(reply.out) \in 1 .. Len(reply.out)
  BY <1>1, EmptySeq, LenProperties
<1>3. Good(Id)
  BY <1>2 DEF UploadInv, IInv, ReplyInv, Id
<1> QED
  BY <1>3 DEF UploadInv, CauseInv, Good

(* What the rest of the system does to the box only does not concern it. *)
LEMMA BoxAlone ==
  ASSUME UploadInv, UNCHANGED upload, box' \in {"up", "crashed", "off"}, subscribed' \in BOOLEAN,
         adder # "none" => subscribed' \/ restarted'
  PROVE  UploadInv'
<1> USE DEF upload, halves
<1>1. TypeOK'
  BY DEF UploadInv, IInv, TypeOK
<1>2. SourceInv' /\ SecondInv' /\ ContentInv' /\ AdderInv'
  BY DEF UploadInv, IInv, SourceInv, SecondInv, ContentInv, AdderInv
<1>3. StoresPrefixes' /\ ReplyInv'
  BY DEF UploadInv, IInv, StoresPrefixes, ReplyInv, Good, File, Chunk
<1>4. FirstInv' /\ CauseInv'
  BY DEF UploadInv, FirstInv, CauseInv
<1> QED
  BY <1>1, <1>2, <1>3, <1>4 DEF UploadInv, IInv

(* The process of the box ends in an upload only when its stream is gone. *)
LEMMA UploadCrash ==
  ASSUME UploadInv, [Next]_vars, box # "crashed", box' = "crashed"
  PROVE  stream' = "dead"
<1>0. /\ TypeOK /\ FirstInv /\ CauseInv /\ SecondInv /\ SourceInv
      /\ Got(source) \in Nat /\ Total(source) = Got(source) + Waits(source) /\ N \in Nat
      /\ Got(second) \in Nat /\ Waits(second) \in Nat
  BY Counters DEF UploadInv, IInv
<1>1. CASE PartitionLoop
  BY <1>0, <1>1, LoopCases DEF CauseInv
<1>2. CASE HandlerNoRequest
  <2>1. /\ handler = "head" /\ first.buf = <<>> /\ first.status = "closed" /\ UNCHANGED stream
    BY <1>2 DEF HandlerNoRequest, CanEnd
  <2>2. Total(first) = 0
    BY <1>0, <2>1, FirstCounts DEF FirstInv
  <2>3. current = 0 /\ source.reader = "ended"
    BY <1>0, <2>1, <2>2 DEF FirstInv, SecondInv
  <2>4. Total(source) = 0 /\ source.status = "closed"
    BY <1>0, <2>3 DEF SecondInv
  <2>5. stream # "open"
    BY <1>0, <2>4 DEF SourceInv
  <2> QED
    BY <1>0, <2>1, <2>5 DEF TypeOK
<1>3. CASE Respond \/ CloseStream
  BY <1>3 DEF Respond, CloseStream, HandlerRejects
<1>4. CASE Client \/ ClientReset \/ LoseConnection \/ UNCHANGED vars
  BY <1>4 DEF Client, ClientYield, ClientMessage, ClientSettle, ClientReset, LoseConnection,
              vars, boxVars
<1>5. CASE RegisterFile \/ HandlerDispatch \/ SaveMessage \/ SaveComplete
  BY <1>5 DEF RegisterFile, HandlerDispatch, SaveMessage, SaveComplete
<1>6. CASE Adder \/ AddFails \/ PowerLoss
  BY <1>6 DEF Adder, AddPull, AddContent, AddManifest, AddFails, PowerLoss
<1> QED
  BY <1>1, <1>2, <1>3, <1>4, <1>5, <1>6 DEF Next, Handler

(* A stream that is gone is gone for good. *)
LEMMA StreamStays == [Next]_vars /\ stream = "dead" => stream' = "dead"
BY LoopCases DEF Next, Client, ClientYield, ClientMessage, ClientSettle, ClientReset, LoseConnection,
       RegisterFile, Handler, HandlerDispatch, HandlerNoRequest, SaveMessage, SaveComplete, Respond,
       CloseStream, Adder, AddPull, AddContent, AddManifest, AddFails, PowerLoss, vars, boxVars

(* What was passed through a numbered channel is numbered. *)
LEMMA PassedNumbered ==
  ASSUME NEW V \in SUBSET Int, NEW c \in Channel(V), NEW base \in Int, Numbered(c, base)
  PROVE  /\ Passed(c) \in Seq(V) /\ Len(Passed(c)) = Total(c)
         /\ \A i \in 1 .. Total(c) : Passed(c)[i] = base + i
<1>1. c.out \in Seq(V) /\ c.buf \in Seq(V) /\ Got(c) \in Nat /\ Waits(c) \in Nat
  BY CountTypes
<1>2. /\ c.out \o c.buf \in Seq(V) /\ Len(c.out \o c.buf) = Len(c.out) + Len(c.buf)
      /\ \A i \in 1 .. Len(c.out) + Len(c.buf) :
           (c.out \o c.buf)[i] = IF i <= Len(c.out) THEN c.out[i] ELSE c.buf[i - Len(c.out)]
  BY <1>1, ConcatProperties
<1>3. /\ \A i \in 1 .. Got(c) : c.out[i] = base + i
      /\ \A i \in 1 .. Waits(c) : c.buf[i] = base + Got(c) + i
  BY DEF Numbered, Counts, Got, Waits
<1>4. ASSUME NEW i \in 1 .. Got(c) + Waits(c)
      PROVE  (c.out \o c.buf)[i] = base + i
  <2>1. CASE i <= Got(c)
    BY <1>1, <1>2, <1>3, <1>4, <2>1 DEF Got, Waits
  <2>2. CASE ~(i <= Got(c))
    <3>1. i - Got(c) \in 1 .. Waits(c)
      BY <1>1, <1>4, <2>2
    <3>2. c.buf[i - Got(c)] = base + Got(c) + (i - Got(c))
      BY <1>3, <3>1
    <3>3. (c.out \o c.buf)[i] = c.buf[i - Got(c)]
      BY <1>2, <1>4, <2>2 DEF Got, Waits
    <3> QED
      BY <1>1, <3>2, <3>3
  <2> QED
    BY <2>1, <2>2
<1> QED
  BY <1>2, <1>4 DEF Passed, Total, Got, Waits

(* The halves of the partition are right, at every moment of the upload. *)
LEMMA PartitionIsRight ==
  ASSUME UploadInv
  PROVE  Partition!SplitsAtIndex /\ Partition!EndsAreTrue
<1>0. /\ TypeOK /\ FirstInv /\ SecondInv /\ SourceInv
      /\ Numbered(first, -1) /\ Numbered(second, 0) /\ Counts(source.out, -1)
      /\ first \in Channel(Frame) /\ second \in Channel(Frame) /\ source.out \in Seq(Frame)
      /\ Frame \in SUBSET Int /\ -1 \in Int /\ 0 \in Int /\ current \in Nat
      /\ Total(second) \in Nat
  <2>1. TypeOK /\ FirstInv /\ SecondInv /\ SourceInv
    BY DEF UploadInv, IInv
  <2>2. Numbered(first, -1) /\ Numbered(second, 0) /\ Numbered(source, -1)
    BY <2>1 DEF FirstInv, SecondInv, SourceInv
  <2>3. Counts(source.out, -1)
    BY <2>2 DEF Numbered
  <2>4. source \in Channel(Frame) /\ second \in Channel(Frame)
    BY <2>1 DEF TypeOK
  <2> QED
    BY <2>1, <2>2, <2>3, <2>4, Counters, FirstCounts, CountTypes
<1>1. /\ Passed(first) \in Seq(Frame) /\ Len(Passed(first)) = Total(first)
      /\ \A i \in 1 .. Total(first) : Passed(first)[i] = -1 + i
  BY <1>0, PassedNumbered
<1>2. /\ Passed(second) \in Seq(Frame) /\ Len(Passed(second)) = Total(second)
      /\ \A i \in 1 .. Total(second) : Passed(second)[i] = 0 + i
  BY <1>0, PassedNumbered
<1>3. Len(source.out) = current /\ \A i \in 1 .. current : source.out[i] = -1 + i
  BY <1>0 DEF SecondInv, Counts, Got
<1>4. /\ Total(first) = IF current = 0 THEN 0 ELSE 1
      /\ Total(second) = IF current = 0 THEN 0 ELSE current - 1
  BY <1>0 DEF FirstInv, SecondInv
<1>5. Passed(first) \o Passed(second) = source.out
  <2> DEFINE p == Passed(first)
             q == Passed(second)
  <2>1. p \in Seq(Frame) /\ q \in Seq(Frame)
    BY <1>1, <1>2
  <2> HIDE DEF p, q
  <2>2. /\ p \o q \in Seq(Frame) /\ Len(p \o q) = Len(p) + Len(q)
        /\ \A i \in 1 .. Len(p) + Len(q) :
             (p \o q)[i] = IF i <= Len(p) THEN p[i] ELSE q[i - Len(p)]
    BY <2>1, ConcatProperties
  <2>3. Len(p) + Len(q) = current
    BY <1>0, <1>1, <1>2, <1>4 DEF p, q
  <2>4. ASSUME NEW i \in 1 .. current PROVE (p \o q)[i] = -1 + i
    <3>1. current # 0 /\ Len(p) = 1 /\ Len(q) = current - 1
      BY <1>0, <1>1, <1>2, <1>4, <2>4 DEF p, q
    <3>2. CASE i = 1
      BY <1>1, <1>4, <2>2, <2>3, <2>4, <3>1, <3>2 DEF p
    <3>3. CASE i # 1
      <4>1. i - 1 \in 1 .. current - 1 /\ ~(i <= Len(p))
        BY <1>0, <2>4, <3>1, <3>3
      <4>2. q[i - 1] = 0 + (i - 1)
        BY <1>2, <1>4, <3>1, <4>1 DEF q
      <4>3. (p \o q)[i] = q[i - 1]
        BY <2>2, <2>3, <2>4, <3>1, <4>1
      <4> QED
        BY <4>2, <4>3
    <3> QED
      BY <3>2, <3>3
  <2>5. /\ Len(p \o q) = Len(source.out)
        /\ \A i \in 1 .. Len(p \o q) : (p \o q)[i] = source.out[i]
    BY <1>3, <2>2, <2>3, <2>4
  <2>6. p \o q = source.out
    BY <1>0, <2>2, <2>5, SeqEqual
  <2> QED
    BY <2>6 DEF p, q
<1>6. Passed(second) # <<>> <=> Total(second) > 0
  BY <1>0, <1>2, EmptySeq
<1>7. /\ Partition!Passed(first) = Passed(first)
      /\ Partition!Passed(second) = Passed(second)
  BY DEF Passed, Partition!Passed
<1>8. Partition!SplitsAtIndex
  BY <1>0, <1>1, <1>4, <1>5, <1>6, <1>7 DEF Partition!SplitsAtIndex
<1>9. Partition!EndsAreTrue
  BY <1>0, <1>6, <1>7 DEF Partition!EndsAreTrue, FirstInv
<1> QED
  BY <1>8, <1>9

-----------------------------------------------------------------------------
(* The retrieval. *)

(* The instance has the same channels. *)
LEMMA SameChannels ==
  /\ \A V : R!Channel(V) = Channel(V)
  /\ R!NewChannel = NewChannel
  /\ \A c, v : R!Send(c, v) = Send(c, v)
  /\ \A c, k, how : R!Cut(c, k, how) = Cut(c, k, how)
  /\ \A c : /\ R!Receive(c) = Receive(c)
            /\ R!Close(c) = Close(c) /\ R!Fail(c) = Fail(c)
            /\ R!End(c) = End(c) /\ R!Raise(c) = Raise(c) /\ R!Leave(c) = Leave(c)
            /\ R!CanReceive(c) <=> CanReceive(c)
            /\ (R!CanEnd(c) <=> CanEnd(c)) /\ (R!CanRaise(c) <=> CanRaise(c))
<1>1. \A V : R!Channel(V) = Channel(V)
  BY DEF R!Channel, Channel
<1>2. R!NewChannel = NewChannel
  BY DEF R!NewChannel, NewChannel, R!Chan, Chan
<1>3. \A c, v : R!Send(c, v) = Send(c, v)
  BY DEF R!Send, Send, R!Chan, Chan
<1>4. \A c, k, how : R!Cut(c, k, how) = Cut(c, k, how)
  BY DEF R!Cut, Cut, R!Chan, Chan
<1>5. ASSUME NEW c
      PROVE  /\ R!Receive(c) = Receive(c)
             /\ R!Close(c) = Close(c) /\ R!Fail(c) = Fail(c)
             /\ R!End(c) = End(c) /\ R!Raise(c) = Raise(c) /\ R!Leave(c) = Leave(c)
  BY DEF R!Receive, Receive, R!Close, Close, R!Fail, Fail, R!End, End, R!Raise, Raise,
         R!Leave, Leave, R!Chan, Chan
<1>6. ASSUME NEW c
      PROVE  /\ R!CanReceive(c) <=> CanReceive(c)
             /\ (R!CanEnd(c) <=> CanEnd(c)) /\ (R!CanRaise(c) <=> CanRaise(c))
  BY DEF R!CanReceive, CanReceive, R!CanEnd, CanEnd, R!CanRaise, CanRaise
<1> QED
  BY <1>1, <1>2, <1>3, <1>4, <1>5, <1>6

(* What the types say about the two streams. *)
LEMMA RetrievalTypes ==
  ASSUME R!TypeOK
  PROVE  /\ R!Message \in SUBSET Int /\ N \in Nat /\ read \in 0 .. N
         /\ 0 \in R!Message /\ N + 1 \in R!Message /\ \A i \in 1 .. N : i \in R!Message
         /\ MetaReply \in Channel(R!Message) /\ ContentReply \in Channel(R!Message)
         /\ Got(MetaReply) \in Nat /\ Waits(MetaReply) \in Nat
         /\ Total(MetaReply) = Got(MetaReply) + Waits(MetaReply)
         /\ Got(ContentReply) \in Nat /\ Waits(ContentReply) \in Nat
         /\ Total(ContentReply) = Got(ContentReply) + Waits(ContentReply)
         /\ MetaReply.buf = <<>> <=> Waits(MetaReply) = 0
         /\ ContentReply.buf = <<>> <=> Waits(ContentReply) = 0
<1>1. MetaReply \in Channel(R!Message) /\ ContentReply \in Channel(R!Message)
  BY SameChannels DEF R!TypeOK, R!Stream, MetaReply, ContentReply
<1>2. /\ R!Message \in SUBSET Int /\ N \in Nat /\ read \in 0 .. N
      /\ 0 \in R!Message /\ N + 1 \in R!Message /\ \A i \in 1 .. N : i \in R!Message
  BY NAssumption DEF R!Message, R!TypeOK
<1> QED
  BY <1>1, <1>2, CountTypes DEF Total

(* The step of the retrieval, as the two streams see it. *)
RetrievalStep == R!Client \/ R!LoseConnection \/ R!Handler \/ R!CatContentFails

Streams  == <<MetaReply, ContentReply>>
Handlers == <<MetaHandler, ContentHandler>>

(* Everything keeps its type. *)
LEMMA RetrievalTypeNext == R!TypeOK /\ RetrievalStep => R!TypeOK'
<1> SUFFICES ASSUME R!TypeOK, RetrievalStep PROVE R!TypeOK'
  OBVIOUS
<1> USE DEF R!Stream
<1>0. /\ rreply["meta"] \in Channel(R!Message) /\ rreply["content"] \in Channel(R!Message)
      /\ rreply \in [R!Stream -> Channel(R!Message)]
      /\ 0 \in R!Message /\ N + 1 \in R!Message /\ \A i \in 1 .. N : i \in R!Message
      /\ read \in 0 .. N /\ N \in Nat
  BY RetrievalTypes, SameChannels DEF R!TypeOK, MetaReply, ContentReply
<1>1. ASSUME rreply' \in [R!Stream -> Channel(R!Message)],
             rclient' \in R!Stream \cup {"resolved", "rejected"},
             rhandler' \in [R!Stream -> {"closed", "requested", "retrieving", "responding",
                                         "empty", "closing", "done", "rejected", "unregistered"}],
             rconnected' \in BOOLEAN, subscribed' = subscribed, box' \in {"up", "crashed", "off"},
             read' \in 0 .. N, failed' \in SUBSET (R!Stream \cup {"chunk"})
      PROVE  R!TypeOK'
  BY <1>1, SameChannels DEF R!TypeOK, R!Message
<1>2. CASE R!MetaMessage
  <2>1. /\ Receive(rreply["meta"]) \in Channel(R!Message)
        /\ Leave(Receive(rreply["meta"])) \in Channel(R!Message)
    BY <1>0, <1>2, SameChannels, ReceiveType, FlagType DEF R!MetaMessage, CanReceive
  <2>2. rreply' \in [R!Stream -> Channel(R!Message)]
    BY <1>0, <1>2, <2>1, SameChannels DEF R!MetaMessage
  <2> QED
    BY <1>0, <1>1, <1>2, <2>2 DEF R!MetaMessage, R!TypeOK
<1>3. CASE R!MetaEnd
  <2>1. rreply' \in [R!Stream -> Channel(R!Message)]
    BY <1>0, <1>3, SameChannels, FlagType DEF R!MetaEnd
  <2> QED
    BY <1>0, <1>1, <1>3, <2>1 DEF R!MetaEnd, R!TypeOK
<1>4. CASE R!ContentMessage
  <2>1. Receive(rreply["content"]) \in Channel(R!Message)
    BY <1>0, <1>4, SameChannels, ReceiveType DEF R!ContentMessage, CanReceive
  <2>2. rreply' \in [R!Stream -> Channel(R!Message)]
    BY <1>0, <1>4, <2>1, SameChannels DEF R!ContentMessage
  <2> QED
    BY <1>0, <1>1, <1>4, <2>2 DEF R!ContentMessage, R!TypeOK
<1>5. CASE R!ContentEnd
  <2>1. rreply' \in [R!Stream -> Channel(R!Message)]
    BY <1>0, <1>5, SameChannels, FlagType DEF R!ContentEnd
  <2> QED
    BY <1>0, <1>1, <1>5, <2>1 DEF R!ContentEnd, R!TypeOK
<1>6. CASE R!StreamError
  <2>1. rreply' \in [R!Stream -> Channel(R!Message)]
    BY <1>0, <1>6, SameChannels, FlagType DEF R!StreamError
  <2> QED
    BY <1>0, <1>1, <1>6, <2>1 DEF R!StreamError, R!TypeOK
<1>7. CASE R!LoseConnection
  <2>1. PICK how \in {"closed", "failed"},
             k \in 0 .. Len(rreply["meta"].buf), l \in 0 .. Len(rreply["content"].buf) :
               rreply' = [meta    |-> Cut(rreply["meta"], k, how),
                          content |-> Cut(rreply["content"], l, how)]
    BY <1>7, SameChannels DEF R!LoseConnection
  <2>2. /\ Cut(rreply["meta"], k, how) \in Channel(R!Message)
        /\ Cut(rreply["content"], l, how) \in Channel(R!Message)
    BY <1>0, CutType
  <2>3. rreply' \in [R!Stream -> Channel(R!Message)]
    BY <2>1, <2>2
  <2> QED
    BY <1>0, <1>1, <1>7, <2>3 DEF R!LoseConnection, R!TypeOK
<1>8. ASSUME NEW s \in R!Stream, R!Dispatch(s) \/ R!CatManifest(s) \/ R!WriteLost(s) PROVE R!TypeOK'
  BY <1>0, <1>1, <1>8 DEF R!Dispatch, R!CatManifest, R!WriteLost, R!HandlerRejects, R!Goes, R!TypeOK
<1>9. ASSUME NEW s \in R!Stream, R!RespondEmpty(s) PROVE R!TypeOK'
  <2>1. rreply' \in [R!Stream -> Channel(R!Message)]
    BY <1>0, <1>9, SameChannels, SendType DEF R!RespondEmpty, R!Write, R!Empty
  <2> QED
    BY <1>0, <1>1, <1>9, <2>1 DEF R!RespondEmpty, R!Write, R!Goes, R!TypeOK
<1>10. ASSUME NEW s \in R!Stream, R!CloseStream(s) PROVE R!TypeOK'
  <2>1. rreply' \in [R!Stream -> Channel(R!Message)]
    BY <1>0, <1>10, SameChannels, FlagType DEF R!CloseStream
  <2> QED
    BY <1>0, <1>1, <1>10, <2>1 DEF R!CloseStream, R!Goes, R!TypeOK
<1>11. CASE R!RespondMeta
  <2>1. rreply' \in [R!Stream -> Channel(R!Message)]
    BY <1>0, <1>11, SameChannels, SendType DEF R!RespondMeta, R!Write, R!Meta
  <2> QED
    BY <1>0, <1>1, <1>11, <2>1 DEF R!RespondMeta, R!Write, R!Goes, R!TypeOK
<1>12. CASE R!RespondChunk
  <2>1. read + 1 \in 1 .. N
    BY <1>0, <1>12 DEF R!RespondChunk
  <2>2. rreply' \in [R!Stream -> Channel(R!Message)]
    BY <1>0, <1>12, <2>1, SameChannels, SendType DEF R!RespondChunk, R!Write
  <2> QED
    BY <1>0, <1>1, <1>12, <2>1, <2>2 DEF R!RespondChunk, R!Write, R!Goes, R!TypeOK
<1>13. CASE R!RespondEnd
  BY <1>0, <1>1, <1>13 DEF R!RespondEnd, R!Goes, R!TypeOK
<1>14. CASE R!CatContentFails
  <2>1. rreply' \in [R!Stream -> Channel(R!Message)]
    BY <1>0, <1>14, SameChannels, FlagType DEF R!CatContentFails
  <2> QED
    BY <1>0, <1>1, <1>14, <2>1 DEF R!CatContentFails, R!HandlerRejects, R!TypeOK
<1> QED
  BY <1>2, <1>3, <1>4, <1>5, <1>6, <1>7, <1>8, <1>9, <1>10, <1>11, <1>12, <1>13, <1>14
     DEF RetrievalStep, R!Client, R!Handler

(* Cutting off what is under way leaves nothing new. *)
LEMMA CutLess ==
  ASSUME NEW V, NEW c \in Channel(V), NEW k \in 0 .. Len(c.buf), NEW how \in {"closed", "failed"}
  PROVE  /\ Cut(c, k, how).out = c.out /\ Cut(c, k, how).status = how
         /\ Got(Cut(c, k, how)) = Got(c) /\ Waits(Cut(c, k, how)) = k
         /\ Total(Cut(c, k, how)) \in Nat /\ Total(Cut(c, k, how)) <= Total(c)
         /\ AllEmpty(c.buf) => AllEmpty(Cut(c, k, how).buf)
<1>1. /\ Cut(c, k, how).buf = SubSeq(c.buf, 1, k) /\ Cut(c, k, how).out = c.out
      /\ Cut(c, k, how).status = how
  BY DEF Cut, Chan
<1>2. \A i \in 1 .. k : c.buf[i] \in V
  BY CountTypes, ElementOfSeq
<1>3. /\ Len(SubSeq(c.buf, 1, k)) = IF 1 <= k THEN k - 1 + 1 ELSE 0
      /\ \A i \in 1 .. k - 1 + 1 : SubSeq(c.buf, 1, k)[i] = c.buf[1 + i - 1]
  BY <1>2, SubSeqProperties
<1>4. Len(c.buf) \in Nat /\ Got(c) \in Nat /\ Waits(c) = Len(c.buf)
  BY CountTypes DEF Waits
<1>5. Waits(Cut(c, k, how)) = k
  BY <1>1, <1>3 DEF Waits
<1>6. AllEmpty(c.buf) => AllEmpty(SubSeq(c.buf, 1, k))
  BY <1>3, <1>4 DEF AllEmpty
<1>7. Got(Cut(c, k, how)) = Got(c)
  BY <1>1 DEF Got
<1> QED
  BY <1>1, <1>4, <1>5, <1>6, <1>7 DEF Total

(* Receiving counts. *)
LEMMA ReceiveCounts ==
  ASSUME NEW V, NEW c \in Channel(V), c.buf # <<>>
  PROVE  /\ Got(Receive(c)) = Got(c) + 1 /\ Waits(Receive(c)) = Waits(c) - 1
         /\ Total(Receive(c)) = Total(c) /\ Waits(c) > 0
         /\ Receive(c).status = c.status
         /\ Head(c.buf) = c.buf[1]
         /\ AllEmpty(c.buf) => AllEmpty(Receive(c).buf)
         /\ AllEmpty(c.out) /\ AllEmpty(c.buf) => AllEmpty(Receive(c).out)
<1>1. /\ Receive(c).buf = Tail(c.buf) /\ Receive(c).out = Append(c.out, Head(c.buf))
      /\ Receive(c).status = c.status
  BY DEF Receive, Chan
<1>2. /\ c.buf \in Seq(V) /\ c.out \in Seq(V) /\ Got(c) \in Nat /\ Waits(c) \in Nat
      /\ Head(c.buf) \in V /\ Waits(c) # 0
  BY CountTypes, ReceiveType
<1>3. /\ Len(Tail(c.buf)) = Len(c.buf) - 1 /\ Head(c.buf) = c.buf[1]
      /\ \A i \in 1 .. Len(Tail(c.buf)) : Tail(c.buf)[i] = c.buf[i + 1]
  BY <1>2, HeadTailProperties
<1>4. /\ Len(Append(c.out, Head(c.buf))) = Len(c.out) + 1
      /\ Append(c.out, Head(c.buf))[Len(c.out) + 1] = Head(c.buf)
      /\ \A i \in 1 .. Len(c.out) : Append(c.out, Head(c.buf))[i] = c.out[i]
  BY <1>2, AppendProperties
<1>5. Got(Receive(c)) = Got(c) + 1 /\ Waits(Receive(c)) = Waits(c) - 1
  BY <1>1, <1>3, <1>4 DEF Got, Waits
<1>6. AllEmpty(c.buf) => AllEmpty(Tail(c.buf)) /\ Head(c.buf) = R!Empty
  BY <1>2, <1>3 DEF AllEmpty, Waits
<1>7. AllEmpty(c.out) /\ AllEmpty(c.buf) => AllEmpty(Append(c.out, Head(c.buf)))
  BY <1>2, <1>4, <1>6 DEF AllEmpty, Got
<1> QED
  BY <1>1, <1>2, <1>3, <1>5, <1>6, <1>7 DEF Total

(* Sending counts. *)
LEMMA SendCounts ==
  ASSUME NEW V, NEW c \in Channel(V), NEW v \in V
  PROVE  /\ Send(c, v).out = c.out /\ Send(c, v).status = c.status
         /\ Got(Send(c, v)) = Got(c) /\ Waits(Send(c, v)) = Waits(c) + 1
         /\ Total(Send(c, v)) = Total(c) + 1
         /\ AllEmpty(c.buf) /\ v = R!Empty => AllEmpty(Send(c, v).buf)
<1>1. /\ Send(c, v).buf = Append(c.buf, v) /\ Send(c, v).out = c.out
      /\ Send(c, v).status = c.status
  BY DEF Send, Chan
<1>2. c.buf \in Seq(V) /\ Got(c) \in Nat /\ Waits(c) \in Nat
  BY CountTypes
<1>3. /\ Len(Append(c.buf, v)) = Len(c.buf) + 1
      /\ Append(c.buf, v)[Len(c.buf) + 1] = v
      /\ \A i \in 1 .. Len(c.buf) : Append(c.buf, v)[i] = c.buf[i]
  BY <1>2, AppendProperties
<1>4. AllEmpty(c.buf) /\ v = R!Empty => AllEmpty(Append(c.buf, v))
  BY <1>2, <1>3 DEF AllEmpty, Waits
<1>5. Got(Send(c, v)) = Got(c) /\ Waits(Send(c, v)) = Waits(c) + 1
  BY <1>1, <1>3 DEF Got, Waits
<1> QED
  BY <1>1, <1>2, <1>4, <1>5 DEF Total

(* Each step of the retrieval keeps what is said of its streams. *)
LEMMA RetrievalNext ==
  ASSUME RetrievalInv, RetrievalStep
  PROVE  MetaInv' /\ ChunksInv' /\ EndInv'
<1> USE DEF R!Stream
<1>0. /\ R!TypeOK /\ MetaInv /\ ChunksInv /\ EndInv
      /\ rhandler \in [R!Stream -> {"closed", "requested", "retrieving", "responding",
                                    "empty", "closing", "done", "rejected", "unregistered"}]
      /\ DOMAIN rreply = R!Stream /\ rconnected \in BOOLEAN
      /\ R!Message \in SUBSET Int /\ 0 \in Int /\ N \in Nat /\ read \in 0 .. N
      /\ MetaReply \in Channel(R!Message) /\ ContentReply \in Channel(R!Message)
      /\ Got(MetaReply) \in Nat /\ Waits(MetaReply) \in Nat
      /\ Total(MetaReply) = Got(MetaReply) + Waits(MetaReply)
      /\ Got(ContentReply) \in Nat /\ Waits(ContentReply) \in Nat
      /\ Total(ContentReply) = Got(ContentReply) + Waits(ContentReply)
  BY RetrievalTypes DEF RetrievalInv, R!TypeOK
<1>1. ASSUME UNCHANGED <<rclient, rconnected, MetaReply, ContentHandler, read>>,
             UNCHANGED <<ContentReply, failed>>,
             MetaHandler' # "empty",
             MetaHandler \in {"requested", "retrieving"} \/ MetaHandler' \in {"done", "rejected"}
      PROVE  MetaInv' /\ ChunksInv' /\ EndInv'
  <2>1. MetaInv'
    BY <1>0, <1>1 DEF MetaInv
  <2>2. ChunksInv' /\ EndInv'
    BY <1>0, <1>1 DEF ChunksInv, EndInv
  <2> QED
    BY <2>1, <2>2
<1>2. CASE R!MetaMessage
  <2>1. /\ rclient = "meta" /\ MetaReply.buf # <<>>
        /\ \/ /\ Head(MetaReply.buf) = R!Empty /\ rclient' = "rejected"
              /\ MetaReply' = Leave(Receive(MetaReply))
           \/ /\ Head(MetaReply.buf) # R!Empty /\ rclient' = "meta"
              /\ MetaReply' = Receive(MetaReply)
        /\ UNCHANGED <<rconnected, MetaHandler, ContentHandler, ContentReply, read, failed>>
    BY <1>0, <1>2, SameChannels
       DEF R!MetaMessage, CanReceive, MetaReply, ContentReply, MetaHandler, ContentHandler
  <2>2. /\ Total(Receive(MetaReply)) = Total(MetaReply) /\ Waits(MetaReply) > 0
        /\ Head(MetaReply.buf) = MetaReply.buf[1]
        /\ Receive(MetaReply) \in Channel(R!Message)
    BY <1>0, <2>1, ReceiveCounts, ReceiveType
  <2>3. Total(MetaReply') = Total(MetaReply)
    BY <2>1, <2>2, FlagFields, SameMessages
  <2>4. "meta" \in failed => Head(MetaReply.buf) = R!Empty
    BY <1>0, <2>1, <2>2 DEF MetaInv, AllEmpty, Waits
  <2>5. MetaInv'
    BY <1>0, <2>1, <2>3, <2>4 DEF MetaInv
  <2>6. ChunksInv' /\ EndInv'
    BY <1>0, <2>1 DEF ChunksInv, EndInv, MetaInv
  <2> QED
    BY <2>5, <2>6
<1>3. CASE R!MetaEnd
  <2>1. /\ rclient = "meta" /\ MetaReply.buf = <<>> /\ MetaReply' = End(MetaReply)
        /\ \/ MetaReply.out # <<>> /\ rclient' = "content" /\ ContentHandler' = "requested"
           \/ rclient' = "rejected" /\ ContentHandler' = ContentHandler
        /\ UNCHANGED <<rconnected, MetaHandler, ContentReply, read, failed>>
    BY <1>0, <1>3, SameChannels
       DEF R!MetaEnd, CanEnd, MetaReply, ContentReply, MetaHandler, ContentHandler
  <2>2. /\ Total(MetaReply') = Total(MetaReply) /\ Got(MetaReply') = Got(MetaReply)
        /\ MetaReply'.buf = MetaReply.buf
    BY <1>0, <2>1, FlagFields, SameMessages
  <2>3. MetaReply.out # <<>> => Got(MetaReply) > 0
    BY <1>0, CountTypes, EmptySeq DEF Got
  <2>4. ContentHandler = "closed" /\ read = 0
    BY <1>0, <2>1 DEF MetaInv, ChunksInv
  <2>5. MetaInv'
    BY <1>0, <2>1, <2>2, <2>3, <2>4 DEF MetaInv
  <2>6. ChunksInv' /\ EndInv'
    BY <1>0, <2>1, <2>4 DEF ChunksInv, EndInv
  <2> QED
    BY <2>5, <2>6
<1>4. CASE R!ContentMessage
  <2>1. /\ rclient = "content" /\ ContentReply.buf # <<>> /\ ContentReply' = Receive(ContentReply)
        /\ UNCHANGED <<rclient, rconnected, MetaHandler, ContentHandler, MetaReply, read, failed>>
    BY <1>0, <1>4, SameChannels
       DEF R!ContentMessage, CanReceive, MetaReply, ContentReply, MetaHandler, ContentHandler
  <2>2. /\ Total(ContentReply') = Total(ContentReply) /\ ContentReply'.status = ContentReply.status
        /\ AllEmpty(ContentReply.buf) => AllEmpty(ContentReply'.buf)
        /\ AllEmpty(ContentReply.out) /\ AllEmpty(ContentReply.buf) => AllEmpty(ContentReply'.out)
    BY <1>0, <2>1, ReceiveCounts
  <2>3. Numbered(ContentReply, 0) => Numbered(ContentReply', 0)
    BY <1>0, <2>1, ReceiveNumbered
  <2>4. MetaInv' /\ EndInv'
    BY <1>0, <2>1, <2>2 DEF MetaInv, EndInv
  <2>5. ChunksInv'
    BY <1>0, <2>1, <2>2, <2>3 DEF ChunksInv
  <2> QED
    BY <2>4, <2>5
<1>5. CASE R!ContentEnd \/ R!StreamError
  <2>1. /\ MetaReply' \in {MetaReply, Raise(MetaReply)}
        /\ ContentReply' \in {ContentReply, End(ContentReply), Raise(ContentReply)}
        /\ \/ rclient' = "rejected" /\ rclient \in {"meta", "content"}
           \/ /\ rclient' = "resolved" /\ rclient = "content"
              /\ ContentReply.buf = <<>> /\ ContentReply.status = "closed"
        /\ UNCHANGED <<rconnected, MetaHandler, ContentHandler, read, failed>>
    BY <1>0, <1>5, SameChannels
       DEF R!ContentEnd, R!StreamError, CanEnd, MetaReply, ContentReply, MetaHandler, ContentHandler
  <2>2. /\ Total(MetaReply') = Total(MetaReply)
        /\ ContentReply'.buf = ContentReply.buf /\ ContentReply'.out = ContentReply.out
        /\ ContentReply'.status = ContentReply.status
    BY <1>0, <2>1, FlagFields, SameMessages
  <2>3. /\ Total(ContentReply') = Total(ContentReply) /\ Waits(ContentReply') = Waits(ContentReply)
        /\ Numbered(ContentReply, 0) => Numbered(ContentReply', 0)
    BY <2>2, SameMessages
  <2>4. ContentReply.buf = <<>> => Waits(ContentReply) = 0
    BY <1>0, RetrievalTypes
  <2>5. MetaInv'
    BY <1>0, <2>1, <2>2 DEF MetaInv
  <2>6. ChunksInv'
    BY <1>0, <2>1, <2>2, <2>3 DEF ChunksInv
  <2>7. EndInv'
    BY <1>0, <2>1, <2>2, <2>3, <2>4 DEF EndInv
  <2> QED
    BY <2>5, <2>6, <2>7
<1>6. CASE R!LoseConnection
  <2>1. PICK how \in {"closed", "failed"},
             k \in 0 .. Len(MetaReply.buf), l \in 0 .. Len(ContentReply.buf) :
               rreply' = [meta    |-> Cut(MetaReply, k, how),
                          content |-> Cut(ContentReply, l, how)]
    BY <1>6, SameChannels DEF R!LoseConnection, MetaReply, ContentReply
  <2>2. /\ MetaReply' = Cut(MetaReply, k, how) /\ ContentReply' = Cut(ContentReply, l, how)
    BY <2>1 DEF MetaReply, ContentReply
  <2>3. /\ ~rconnected' /\ UNCHANGED <<rclient, MetaHandler, ContentHandler, read, failed>>
    BY <1>6 DEF R!LoseConnection, MetaHandler, ContentHandler
  <2>4. /\ Got(MetaReply') = Got(MetaReply) /\ Total(MetaReply') <= Total(MetaReply)
        /\ Total(MetaReply') \in Nat
        /\ AllEmpty(MetaReply.buf) => AllEmpty(MetaReply'.buf)
    BY <1>0, <2>2, CutLess
  <2>5. /\ Total(ContentReply') <= Total(ContentReply) /\ Total(ContentReply') \in Nat
        /\ ContentReply'.out = ContentReply.out
        /\ AllEmpty(ContentReply.buf) => AllEmpty(ContentReply'.buf)
    BY <1>0, <2>2, CutLess
  <2>6. Numbered(ContentReply, 0) => Numbered(ContentReply', 0)
    BY <1>0, <2>2, CutNumbered
  <2>7. MetaInv'
    BY <1>0, <2>3, <2>4 DEF MetaInv
  <2>8. ChunksInv'
    BY <1>0, <2>3, <2>5, <2>6 DEF ChunksInv
  <2> QED
    BY <2>3, <2>7, <2>8 DEF EndInv
<1>7. ASSUME NEW s \in R!Stream, R!Dispatch(s) PROVE MetaInv' /\ ChunksInv' /\ EndInv'
  <2>1. /\ UNCHANGED <<rclient, rconnected, MetaReply, ContentReply, read, failed>>
        /\ rhandler[s] = "requested" /\ rhandler'[s] \in {"retrieving", "unregistered"}
        /\ \A t \in R!Stream : t # s => rhandler'[t] = rhandler[t]
    BY <1>0, <1>7 DEF R!Dispatch, R!HandlerRejects, R!Goes, MetaReply, ContentReply
  <2>2. CASE s = "meta"
    BY <1>1, <2>1, <2>2 DEF MetaHandler, ContentHandler
  <2>3. CASE s = "content"
    <3>1. /\ MetaHandler' = MetaHandler /\ ContentHandler = "requested"
          /\ ContentHandler' \in {"retrieving", "unregistered"}
      BY <2>1, <2>3 DEF MetaHandler, ContentHandler
    <3>2. MetaInv'
      BY <1>0, <2>1, <3>1 DEF MetaInv
    <3>3. ChunksInv' /\ EndInv'
      BY <1>0, <2>1, <3>1 DEF ChunksInv, EndInv
    <3> QED
      BY <3>2, <3>3
  <2> QED
    BY <2>2, <2>3
<1>8. ASSUME NEW s \in R!Stream, R!CatManifest(s) PROVE MetaInv' /\ ChunksInv' /\ EndInv'
  <2>1. /\ UNCHANGED <<rclient, rconnected, MetaReply, ContentReply, read>>
        /\ rhandler[s] = "retrieving"
        /\ \/ rhandler'[s] = "responding" /\ failed' = failed
           \/ rhandler'[s] = "empty" /\ failed' = failed \cup {s}
        /\ \A t \in R!Stream : t # s => rhandler'[t] = rhandler[t]
    BY <1>0, <1>8 DEF R!CatManifest, R!Goes, MetaReply, ContentReply
  <2>2. CASE s = "meta"
    <3>1. /\ ContentHandler' = ContentHandler /\ MetaHandler = "retrieving"
          /\ \/ MetaHandler' = "responding" /\ failed' = failed
             \/ MetaHandler' = "empty" /\ failed' = failed \cup {"meta"}
      BY <2>1, <2>2 DEF MetaHandler, ContentHandler
    <3>2. Total(MetaReply) = 0 /\ ContentHandler = "closed" /\ "meta" \notin failed
      BY <1>0, <3>1 DEF MetaInv
    <3>3. Got(MetaReply) = 0 /\ AllEmpty(MetaReply.buf)
      BY <1>0, <3>2 DEF AllEmpty, Waits
    <3>4. MetaInv'
      BY <1>0, <2>1, <3>1, <3>2, <3>3 DEF MetaInv
    <3>5. ChunksInv' /\ EndInv'
      BY <1>0, <2>1, <3>1 DEF ChunksInv, EndInv
    <3> QED
      BY <3>4, <3>5
  <2>3. CASE s = "content"
    <3>1. /\ MetaHandler' = MetaHandler /\ ContentHandler = "retrieving"
          /\ \/ ContentHandler' = "responding" /\ failed' = failed
             \/ ContentHandler' = "empty" /\ failed' = failed \cup {"content"}
      BY <2>1, <2>3 DEF MetaHandler, ContentHandler
    <3>2. read = 0 /\ "content" \notin failed /\ Total(ContentReply) = 0
      BY <1>0, <3>1 DEF ChunksInv
    <3>3. AllEmpty(ContentReply.out) /\ AllEmpty(ContentReply.buf)
      <4>1. Got(ContentReply) = 0 /\ Waits(ContentReply) = 0
        BY <1>0, <3>2
      <4> QED
        BY <4>1 DEF AllEmpty, Got, Waits
    <3>4. MetaInv'
      BY <1>0, <2>1, <3>1 DEF MetaInv
    <3>5. ChunksInv'
      BY <1>0, <2>1, <3>1, <3>2, <3>3 DEF ChunksInv
    <3>6. EndInv'
      BY <1>0, <2>1, <3>1 DEF EndInv
    <3> QED
      BY <3>4, <3>5, <3>6
  <2> QED
    BY <2>2, <2>3
<1>9. ASSUME NEW s \in R!Stream, R!WriteLost(s) PROVE MetaInv' /\ ChunksInv' /\ EndInv'
  <2>1. /\ UNCHANGED <<rclient, rconnected, MetaReply, ContentReply, read, failed>>
        /\ ~rconnected /\ rhandler[s] \in {"responding", "empty", "closing"}
        /\ rhandler'[s] \in {"done", "rejected"}
        /\ \A t \in R!Stream : t # s => rhandler'[t] = rhandler[t]
    BY <1>0, <1>9 DEF R!WriteLost, R!HandlerRejects, R!Goes, MetaReply, ContentReply
  <2>2. CASE s = "meta"
    BY <1>1, <2>1, <2>2 DEF MetaHandler, ContentHandler
  <2>3. CASE s = "content"
    <3>1. /\ MetaHandler' = MetaHandler /\ ContentHandler \in {"responding", "empty", "closing"}
          /\ ContentHandler' \in {"done", "rejected"}
      BY <2>1, <2>3 DEF MetaHandler, ContentHandler
    <3>2. MetaInv'
      BY <1>0, <2>1, <3>1 DEF MetaInv
    <3>3. ChunksInv' /\ EndInv'
      BY <1>0, <2>1, <3>1 DEF ChunksInv, EndInv
    <3> QED
      BY <3>2, <3>3
  <2> QED
    BY <2>2, <2>3
<1>10. ASSUME NEW s \in R!Stream, R!RespondEmpty(s) PROVE MetaInv' /\ ChunksInv' /\ EndInv'
  <2>1. /\ UNCHANGED <<rclient, rconnected, read, failed>>
        /\ rhandler[s] = "empty" /\ rhandler'[s] = "closing"
        /\ rreply'[s] = Send(rreply[s], R!Empty)
        /\ \A t \in R!Stream : t # s => rhandler'[t] = rhandler[t] /\ rreply'[t] = rreply[t]
    BY <1>0, <1>10, SameChannels DEF R!RespondEmpty, R!Write, R!Goes
  <2>2. R!Empty \in R!Message
    BY RetrievalTypes, <1>0 DEF R!Empty
  <2>3. CASE s = "meta"
    <3>1. /\ ContentHandler' = ContentHandler /\ ContentReply' = ContentReply
          /\ MetaHandler = "empty" /\ MetaHandler' = "closing"
          /\ MetaReply' = Send(MetaReply, R!Empty)
      BY <2>1, <2>3 DEF MetaHandler, ContentHandler, MetaReply, ContentReply
    <3>2. /\ Got(MetaReply') = Got(MetaReply)
          /\ AllEmpty(MetaReply.buf) => AllEmpty(MetaReply'.buf)
      BY <1>0, <2>2, <3>1, SendCounts
    <3>3. MetaInv'
      BY <1>0, <2>1, <3>1, <3>2 DEF MetaInv
    <3>4. ChunksInv' /\ EndInv'
      BY <1>0, <2>1, <3>1 DEF ChunksInv, EndInv
    <3> QED
      BY <3>3, <3>4
  <2>4. CASE s = "content"
    <3>1. /\ MetaHandler' = MetaHandler /\ MetaReply' = MetaReply
          /\ ContentHandler = "empty" /\ ContentHandler' = "closing"
          /\ ContentReply' = Send(ContentReply, R!Empty)
      BY <2>1, <2>4 DEF MetaHandler, ContentHandler, MetaReply, ContentReply
    <3>2. "content" \in failed /\ Total(ContentReply) = 0
      BY <1>0, <3>1 DEF ChunksInv
    <3>3. /\ ContentReply'.out = ContentReply.out /\ ContentReply'.status = ContentReply.status
          /\ AllEmpty(ContentReply.buf) => AllEmpty(ContentReply'.buf)
          /\ Total(ContentReply') = 1
      BY <1>0, <2>2, <3>1, <3>2, SendCounts
    <3>4. MetaInv'
      BY <1>0, <2>1, <3>1 DEF MetaInv
    <3>5. ChunksInv'
      BY <1>0, <2>1, <3>1, <3>2, <3>3 DEF ChunksInv
    <3>6. EndInv'
      BY <1>0, <2>1, <3>1, <3>3 DEF EndInv
    <3> QED
      BY <3>4, <3>5, <3>6
  <2> QED
    BY <2>3, <2>4
<1>11. ASSUME NEW s \in R!Stream, R!CloseStream(s) PROVE MetaInv' /\ ChunksInv' /\ EndInv'
  <2>1. /\ UNCHANGED <<rclient, rconnected, read, failed>>
        /\ rhandler[s] = "closing" /\ rhandler'[s] = "done" /\ rreply'[s] = Close(rreply[s])
        /\ \A t \in R!Stream : t # s => rhandler'[t] = rhandler[t] /\ rreply'[t] = rreply[t]
    BY <1>0, <1>11, SameChannels DEF R!CloseStream, R!Goes
  <2>2. CASE s = "meta"
    <3>1. /\ ContentHandler' = ContentHandler /\ ContentReply' = ContentReply
          /\ MetaHandler' = "done" /\ MetaHandler = "closing" /\ MetaReply' = Close(MetaReply)
      BY <2>1, <2>2 DEF MetaHandler, ContentHandler, MetaReply, ContentReply
    <3>2. /\ Got(MetaReply') = Got(MetaReply) /\ MetaReply'.buf = MetaReply.buf
      BY <1>0, <3>1, FlagFields DEF Got
    <3>3. MetaInv'
      BY <1>0, <2>1, <3>1, <3>2 DEF MetaInv
    <3>4. ChunksInv' /\ EndInv'
      BY <1>0, <2>1, <3>1 DEF ChunksInv, EndInv
    <3> QED
      BY <3>3, <3>4
  <2>3. CASE s = "content"
    <3>1. /\ MetaHandler' = MetaHandler /\ MetaReply' = MetaReply
          /\ ContentHandler = "closing" /\ ContentHandler' = "done"
          /\ ContentReply' = Close(ContentReply)
      BY <2>1, <2>3 DEF MetaHandler, ContentHandler, MetaReply, ContentReply
    <3>2. /\ ContentReply'.out = ContentReply.out /\ ContentReply'.buf = ContentReply.buf
          /\ ContentReply'.status = "closed"
      BY <1>0, <3>1, FlagFields
    <3>3. /\ Total(ContentReply') = Total(ContentReply) /\ Waits(ContentReply') = Waits(ContentReply)
          /\ Numbered(ContentReply, 0) => Numbered(ContentReply', 0)
      BY <3>2, SameMessages
    <3>4. MetaInv'
      BY <1>0, <2>1, <3>1 DEF MetaInv
    <3>5. ChunksInv'
      BY <1>0, <2>1, <3>1, <3>2, <3>3 DEF ChunksInv
    <3>6. EndInv'
      BY <1>0, <2>1, <3>1, <3>2, <3>3 DEF EndInv
    <3> QED
      BY <3>4, <3>5, <3>6
  <2> QED
    BY <2>2, <2>3
<1>12. CASE R!RespondMeta
  <2>1. /\ MetaHandler = "responding" /\ MetaHandler' = "closing"
        /\ UNCHANGED <<rclient, rconnected, ContentHandler, ContentReply, read, failed>>
    BY <1>0, <1>12, SameChannels
       DEF R!RespondMeta, R!Write, R!Goes, MetaHandler, ContentHandler, MetaReply, ContentReply
  <2>2. MetaInv'
    BY <1>0, <2>1 DEF MetaInv
  <2>3. ChunksInv' /\ EndInv'
    BY <1>0, <2>1 DEF ChunksInv, EndInv
  <2> QED
    BY <2>2, <2>3
<1>13. CASE R!RespondChunk
  <2>1. /\ ContentHandler = "responding" /\ read < N /\ read' = read + 1 /\ rconnected
        /\ ContentReply' = Send(ContentReply, read + 1)
        /\ UNCHANGED <<rclient, rconnected, MetaHandler, ContentHandler, MetaReply, failed>>
    BY <1>0, <1>13, SameChannels
       DEF R!RespondChunk, R!Write, R!Goes, MetaHandler, ContentHandler, MetaReply, ContentReply
  <2>2. "content" \notin failed /\ Numbered(ContentReply, 0) /\ Total(ContentReply) = read
    BY <1>0, <2>1 DEF ChunksInv
  <2>3. read + 1 \in R!Message /\ read + 1 = 0 + Total(ContentReply) + 1
    BY <1>0, <2>1, <2>2, RetrievalTypes
  <2>4. /\ Numbered(ContentReply', 0) /\ Total(ContentReply') = read + 1
        /\ ContentReply'.status = ContentReply.status
    BY <1>0, <2>1, <2>2, <2>3, SendNumbered
  <2>5. MetaInv'
    BY <1>0, <2>1 DEF MetaInv
  <2>6. ChunksInv'
    BY <1>0, <2>1, <2>2, <2>4 DEF ChunksInv
  <2>7. EndInv'
    BY <1>0, <2>1, <2>4 DEF EndInv
  <2> QED
    BY <2>5, <2>6, <2>7
<1>14. CASE R!RespondEnd
  <2>1. /\ ContentHandler = "responding" /\ read = N /\ ContentHandler' = "closing"
        /\ UNCHANGED <<rclient, rconnected, MetaHandler, MetaReply, ContentReply, read, failed>>
    BY <1>0, <1>14 DEF R!RespondEnd, R!Goes, MetaHandler, ContentHandler, MetaReply, ContentReply
  <2>2. MetaInv'
    BY <1>0, <2>1 DEF MetaInv
  <2>3. ChunksInv' /\ EndInv'
    BY <1>0, <2>1 DEF ChunksInv, EndInv
  <2> QED
    BY <2>2, <2>3
<1>15. CASE R!CatContentFails
  <2>1. /\ ContentHandler = "responding" /\ ContentHandler' = "rejected"
        /\ failed' = failed \cup {"chunk"} /\ ContentReply' = Fail(ContentReply)
        /\ UNCHANGED <<rclient, rconnected, MetaHandler, MetaReply, read>>
    BY <1>0, <1>15, SameChannels
       DEF R!CatContentFails, R!HandlerRejects, MetaHandler, ContentHandler, MetaReply, ContentReply
  <2>2. /\ ContentReply'.out = ContentReply.out /\ ContentReply'.buf = ContentReply.buf
        /\ ContentReply'.status = "failed"
    BY <1>0, <2>1, FlagFields
  <2>3. /\ Total(ContentReply') = Total(ContentReply)
        /\ Numbered(ContentReply, 0) => Numbered(ContentReply', 0)
    BY <2>2, SameMessages
  <2>4. MetaInv'
    BY <1>0, <2>1 DEF MetaInv
  <2>5. ChunksInv'
    BY <1>0, <2>1, <2>2, <2>3 DEF ChunksInv
  <2>6. EndInv'
    BY <1>0, <2>1, <2>2 DEF EndInv
  <2> QED
    BY <2>4, <2>5, <2>6
<1> QED
  BY <1>2, <1>3, <1>4, <1>5, <1>6, <1>7, <1>8, <1>9, <1>10, <1>11, <1>12, <1>13, <1>14, <1>15
     DEF RetrievalStep, R!Client, R!Handler

(* What it does to the rest: nothing but to the box, which it ends for a reason, *)
LEMMA RetrievalCrash ==
  ASSUME RetrievalInv, RetrievalStep
  PROVE  /\ UNCHANGED subscribed
         /\ box' # box => \/ ~rconnected \/ ~rconnected' \/ "chunk" \in failed'
                          \/ ~subscribed /\ \E s \in R!Stream : rhandler'[s] = "unregistered"
<1>0. /\ rhandler \in [R!Stream -> {"closed", "requested", "retrieving", "responding",
                                    "empty", "closing", "done", "rejected", "unregistered"}]
      /\ subscribed \in BOOLEAN
  BY DEF RetrievalInv, R!TypeOK
<1>1. CASE R!Client \/ R!LoseConnection
  BY <1>1 DEF R!Client, R!MetaMessage, R!MetaEnd, R!ContentMessage, R!ContentEnd, R!StreamError,
              R!LoseConnection
<1>2. ASSUME NEW s \in R!Stream,
             R!Dispatch(s) \/ R!CatManifest(s) \/ R!RespondEmpty(s) \/ R!CloseStream(s) \/ R!WriteLost(s)
      PROVE  /\ UNCHANGED subscribed
             /\ box' # box => \/ ~rconnected
                              \/ ~subscribed /\ \E t \in R!Stream : rhandler'[t] = "unregistered"
  BY <1>0, <1>2 DEF R!Dispatch, R!CatManifest, R!RespondEmpty, R!CloseStream, R!WriteLost,
                    R!HandlerRejects, R!Goes, R!Write
<1>3. CASE R!RespondMeta \/ R!RespondChunk \/ R!RespondEnd \/ R!CatContentFails
  BY <1>3 DEF R!RespondMeta, R!RespondChunk, R!RespondEnd, R!CatContentFails, R!HandlerRejects,
              R!Goes, R!Write
<1> QED
  BY <1>1, <1>2, <1>3 DEF RetrievalStep, R!Handler

(* and no reason ever goes away. *)
LEMMA ReasonsStay ==
  ASSUME RetrievalInv, RetrievalStep
  PROVE  /\ ~rconnected => ~rconnected'
         /\ failed \subseteq failed'
         /\ \A s \in R!Stream : rhandler[s] = "unregistered" => rhandler'[s] = "unregistered"
         /\ rclient' = "resolved" => rclient \in {"content", "resolved"}
         /\ rclient' = "content" => rclient \in {"meta", "content"}
<1> USE DEF R!Stream
<1>0. /\ rhandler \in [R!Stream -> {"closed", "requested", "retrieving", "responding",
                                    "empty", "closing", "done", "rejected", "unregistered"}]
      /\ rclient = "meta" => rhandler["content"] = "closed"
  BY DEF RetrievalInv, R!TypeOK, MetaInv, ContentHandler
<1>1. CASE R!Client \/ R!LoseConnection
  BY <1>0, <1>1 DEF R!Client, R!MetaMessage, R!MetaEnd, R!ContentMessage, R!ContentEnd, R!StreamError,
                    R!LoseConnection
<1>2. ASSUME NEW s \in R!Stream,
             R!Dispatch(s) \/ R!CatManifest(s) \/ R!RespondEmpty(s) \/ R!CloseStream(s) \/ R!WriteLost(s)
      PROVE  /\ UNCHANGED <<rclient, rconnected>> /\ failed \subseteq failed'
             /\ \A t \in R!Stream : rhandler[t] = "unregistered" => rhandler'[t] = "unregistered"
  BY <1>0, <1>2 DEF R!Dispatch, R!CatManifest, R!RespondEmpty, R!CloseStream, R!WriteLost,
                    R!HandlerRejects, R!Goes, R!Write
<1>3. CASE R!RespondMeta \/ R!RespondChunk \/ R!RespondEnd \/ R!CatContentFails
  BY <1>0, <1>3 DEF R!RespondMeta, R!RespondChunk, R!RespondEnd, R!CatContentFails, R!HandlerRejects,
                    R!Goes, R!Write
<1> QED
  BY <1>0, <1>1, <1>2, <1>3 DEF RetrievalStep, R!Handler

-----------------------------------------------------------------------------
(* The transfer. *)

(* The invariant holds at first. *)
LEMMA TransferStarts == TransferInit => TransferIInv
<1> SUFFICES ASSUME TransferInit PROVE TransferIInv
  OBVIOUS
<1>0. Init /\ R!Init /\ restarted = FALSE /\ meta \in Metas /\ request = RequestFor(meta)
  BY DEF TransferInit
<1>1. UploadInv
  <2>1. IInv
    BY <1>0, InitEstablishes
  <2>2. /\ source = NewChannel /\ first = NewChannel /\ second = NewChannel /\ current = 0
        /\ reply = NewChannel
    BY <1>0 DEF Init, Partition!Init, Partition!NewChannel, Partition!Chan, NewChannel, Chan
  <2>3. FirstInv
    BY <2>2, NewCounts DEF FirstInv
  <2>4. CauseInv
    BY <1>0, <2>2, NewCounts DEF CauseInv, Init
  <2> QED
    BY <2>1, <2>3, <2>4 DEF UploadInv
<1>2. /\ rclient = "meta" /\ rconnected = TRUE /\ box = "up" /\ subscribed = FALSE
      /\ rhandler = [s \in R!Stream |-> IF s = "meta" THEN "requested" ELSE "closed"]
      /\ rreply = [s \in R!Stream |-> NewChannel] /\ read = 0 /\ failed = {}
  BY <1>0, SameChannels DEF R!Init
<1>3. /\ MetaReply = NewChannel /\ ContentReply = NewChannel
      /\ MetaHandler = "requested" /\ ContentHandler = "closed"
  BY <1>2 DEF MetaReply, ContentReply, MetaHandler, ContentHandler, R!Stream
<1>4. R!TypeOK
  <2>1. NewChannel \in R!Channel(R!Message)
    BY NewType, SameChannels
  <2>2. read \in 0 .. N
    BY <1>2, NAssumption
  <2> QED
    BY <1>2, <2>1, <2>2 DEF R!TypeOK, R!Stream
<1>5. MetaInv /\ ChunksInv /\ EndInv
  BY <1>2, <1>3, NewCounts DEF MetaInv, ChunksInv, EndInv
<1>6. MessagesInv
  BY <1>0, <1>2 DEF MessagesInv, Init
<1>7. JointInv
  BY <1>0, <1>2 DEF JointInv, CrashHasCause
<1> QED
  BY <1>1, <1>4, <1>5, <1>6, <1>7 DEF TransferIInv, RetrievalInv

(* A step of the upload keeps it, *)
LEMMA UploadStepKeeps ==
  ASSUME TransferIInv, [Next]_vars,
         UNCHANGED <<meta, request, found, restarted, retrieval>>,
         manifest' # manifest => manifest' = ManifestOf(request, Cid) /\ adder' = "declared",
         adder' = "declared" /\ adder # "declared" => manifest' = ManifestOf(request, Cid)
  PROVE  TransferIInv'
<1>0. UploadInv /\ RetrievalInv /\ MessagesInv /\ JointInv
  BY DEF TransferIInv
<1>1. UploadInv'
  BY <1>0, UploadNext
<1>2. RetrievalInv'
  <2>1. box' \in {"up", "crashed", "off"} /\ subscribed' \in BOOLEAN
    BY <1>1 DEF UploadInv, IInv, TypeOK
  <2>2. R!TypeOK'
    BY <1>0, <2>1 DEF RetrievalInv, R!TypeOK, retrieval
  <2>3. UNCHANGED <<rclient, rconnected, MetaReply, ContentReply, MetaHandler, ContentHandler, read, failed>>
    BY DEF retrieval, MetaReply, ContentReply, MetaHandler, ContentHandler
  <2>4. MetaInv' /\ ChunksInv' /\ EndInv'
    BY <1>0, <2>3 DEF RetrievalInv, MetaInv, ChunksInv, EndInv
  <2> QED
    BY <2>2, <2>4 DEF RetrievalInv
<1>3. MessagesInv'
  BY <1>0 DEF MessagesInv, retrieval
<1>4. JointInv'
  <2>1. client = "resolved" => client' = "resolved"
    <3>1. client = "resolved" => reply.reader = "ended"
      BY <1>0 DEF UploadInv, CauseInv
    <3> QED
      BY <3>1, LoopCases
         DEF Next, Client, ClientYield, ClientMessage, ClientSettle, CanEnd, CanRaise, ClientReset,
             LoseConnection, RegisterFile, Handler, HandlerDispatch, HandlerNoRequest, SaveMessage,
             SaveComplete, Respond, CloseStream, Adder, AddPull, AddContent, AddManifest, AddFails,
             PowerLoss, vars
  <2>2. CrashHasCause'
    <3>1. SUFFICES ASSUME box' = "crashed"
                   PROVE  \/ stream' = "dead" \/ ~rconnected \/ "chunk" \in failed
                          \/ restarted /\ \E s \in R!Stream : rhandler[s] = "unregistered"
      BY DEF CrashHasCause, retrieval, R!Stream
    <3>2. CASE box = "crashed"
      BY <1>0, <3>2, StreamStays DEF JointInv, CrashHasCause
    <3>3. CASE box # "crashed"
      BY <1>0, <3>1, <3>3, UploadCrash
    <3> QED
      BY <3>2, <3>3
  <2> QED
    BY <1>0, <2>1, <2>2 DEF JointInv, retrieval
<1> QED
  BY <1>1, <1>2, <1>3, <1>4 DEF TransferIInv

(* and so does one of the retrieval. *)
LEMMA RetrievalStepKeeps ==
  ASSUME TransferIInv, Retrieve(RetrievalStep)
  PROVE  TransferIInv'
<1>0. /\ UploadInv /\ RetrievalInv /\ MessagesInv /\ JointInv /\ RetrievalStep
      /\ client = "resolved" /\ UNCHANGED <<file, restarted, upload>>
      /\ found' = IF rclient = "meta" /\ rclient' = "content" THEN AnswerTo(manifest) ELSE found
  BY DEF TransferIInv, Retrieve
<1>1. RetrievalInv'
  BY <1>0, RetrievalNext, RetrievalTypeNext DEF RetrievalInv
<1>2. UNCHANGED subscribed
  BY <1>0, RetrievalCrash
<1>3. adder = "declared" /\ (subscribed \/ restarted)
  BY <1>0, ResolvedIsStored
<1>4. UploadInv'
  <2>1. box' \in {"up", "crashed", "off"} /\ subscribed' \in BOOLEAN
    BY <1>1 DEF RetrievalInv, R!TypeOK
  <2> QED
    BY <1>0, <1>2, <1>3, <2>1, BoxAlone
<1>5. MessagesInv'
  <2>1. rclient' \in {"content", "resolved"} =>
          \/ rclient \in {"content", "resolved"} /\ found' = found
          \/ found' = AnswerTo(manifest)
    BY <1>0, ReasonsStay
  <2> QED
    BY <1>0, <1>3, <2>1 DEF MessagesInv, file, upload
<1>6. CrashHasCause'
  <2>1. SUFFICES ASSUME box' = "crashed"
                 PROVE  \/ stream = "dead" \/ ~rconnected' \/ "chunk" \in failed'
                        \/ restarted /\ \E s \in R!Stream : rhandler'[s] = "unregistered"
    BY <1>0 DEF CrashHasCause, upload, R!Stream
  <2>2. CASE box = "crashed"
    BY <1>0, <2>2, ReasonsStay DEF JointInv, CrashHasCause
  <2>3. CASE box # "crashed"
    BY <1>0, <1>3, <2>1, <2>3, RetrievalCrash, ReasonsStay
  <2> QED
    BY <2>2, <2>3
<1>7. JointInv'
  BY <1>0, <1>6 DEF JointInv, upload
<1> QED
  BY <1>1, <1>4, <1>5, <1>7 DEF TransferIInv

(* The invariant holds in every state. *)
THEOREM TransferInvariance == TransferSafeSpec => []TransferIInv
<1>1. ASSUME TransferIInv, [TransferNext]_transferVars PROVE TransferIInv'
  <2>1. CASE Upload(Next)
    <3>1. /\ Next /\ UNCHANGED <<meta, request, found, restarted, retrieval>>
          /\ manifest' = IF AddManifest THEN ManifestOf(request, Cid) ELSE manifest
      BY <2>1 DEF Upload
    <3>2. AddManifest => adder' = "declared"
      BY DEF AddManifest
    <3>3. adder' = "declared" /\ adder # "declared" => AddManifest
      BY <3>1, LoopCases
         DEF Next, Client, ClientYield, ClientMessage, ClientSettle, ClientReset, LoseConnection,
             RegisterFile, Handler, HandlerDispatch, HandlerNoRequest, SaveMessage, SaveComplete,
             Respond, CloseStream, Adder, AddPull, AddContent, AddFails, PowerLoss, boxVars
    <3>4. /\ [Next]_vars
          /\ manifest' # manifest => manifest' = ManifestOf(request, Cid) /\ adder' = "declared"
          /\ adder' = "declared" /\ adder # "declared" => manifest' = ManifestOf(request, Cid)
      BY <3>1, <3>2, <3>3
    <3> QED
      BY <1>1, <3>1, <3>4, UploadStepKeeps
  <2>2. CASE RegisterAgain \/ UNCHANGED transferVars
    <3>1. /\ [Next]_vars /\ UNCHANGED <<meta, request, found, restarted, retrieval>>
          /\ manifest' = manifest /\ adder' = adder
      BY <2>2 DEF RegisterAgain, RegisterFile, Next, transferVars, vars, boxVars, file
    <3> QED
      BY <1>1, <3>1, UploadStepKeeps
  <2>3. CASE \/ Retrieve(R!Client) \/ Retrieve(R!LoseConnection)
             \/ Retrieve(R!Handler) \/ Retrieve(R!CatContentFails)
    <3>1. Retrieve(RetrievalStep)
      BY <2>3 DEF Retrieve, RetrievalStep
    <3> QED
      BY <1>1, <3>1, RetrievalStepKeeps
  <2>4. CASE Restart
    <3>1. /\ UploadInv /\ RetrievalInv /\ MessagesInv /\ JointInv
          /\ UNCHANGED <<file, found, upload, retrieval>>
          /\ box' = "up" /\ subscribed' = FALSE /\ restarted' = TRUE
      BY <1>1, <2>4 DEF Restart, TransferIInv
    <3>2. UploadInv'
      BY <3>1, BoxAlone
    <3>3. RetrievalInv'
      BY <3>1 DEF RetrievalInv, R!TypeOK, MetaInv, ChunksInv, EndInv, retrieval,
                  MetaReply, ContentReply, MetaHandler, ContentHandler
    <3>4. MessagesInv'
      BY <3>1 DEF MessagesInv, file, upload, retrieval
    <3>5. JointInv'
      BY <3>1 DEF JointInv, CrashHasCause, upload, retrieval
    <3> QED
      BY <3>2, <3>3, <3>4, <3>5 DEF TransferIInv
  <2> QED
    BY <1>1, <2>1, <2>2, <2>3, <2>4 DEF TransferNext
<1> QED
  BY TransferStarts, <1>1, PTL DEF TransferSafeSpec

-----------------------------------------------------------------------------
(* What the invariant says of the halves and of what is on its way, *)
LEMMA InvariantSplits == TransferIInv => TransferInv
<1>1. ASSUME TransferIInv PROVE TransferInv
  <2>0. UploadInv /\ R!TypeOK /\ MetaInv /\ ChunksInv
    BY <1>1 DEF TransferIInv, RetrievalInv
  <2>1. R!ContentIsPrefix
    <3>1. /\ Got(ContentReply) \in Nat /\ Waits(ContentReply) \in Nat
          /\ Total(ContentReply) = Got(ContentReply) + Waits(ContentReply)
          /\ read \in 0 .. N /\ N \in Nat
          /\ R!Content = ContentReply.out /\ ContentReply.out \in Seq(R!Message)
      BY <2>0, RetrievalTypes, CountTypes DEF R!Content, ContentReply
    <3>2. CASE "content" \in failed
      <4>1. Got(ContentReply) <= 1 /\ AllEmpty(ContentReply.out)
        BY <2>0, <3>1, <3>2 DEF ChunksInv
      <4>2. CASE Got(ContentReply) = 0
        BY <3>1, <4>2 DEF R!ContentIsPrefix, Got
      <4>3. CASE Got(ContentReply) = 1
        <5>1. Len(R!Content) = 1 /\ R!Content[1] = R!Empty
          BY <3>1, <4>1, <4>3 DEF Got, AllEmpty
        <5>2. R!Content \in [1 .. 1 -> R!Message]
          BY <3>1, <5>1, LenProperties
        <5>3. R!Content = <<R!Empty>>
          BY <5>1, <5>2
        <5> QED
          BY <5>3 DEF R!ContentIsPrefix
      <4> QED
        BY <3>1, <4>1, <4>2, <4>3
    <3>3. CASE "content" \notin failed
      <4>1. Got(ContentReply) <= N /\ Counts(ContentReply.out, 0)
        BY <2>0, <3>1, <3>3 DEF ChunksInv, Numbered
      <4> QED
        BY <3>1, <4>1 DEF R!ContentIsPrefix, Counts, Got
    <3> QED
      BY <3>2, <3>3
  <2>2. R!NoContentWithoutMeta
    BY <2>0 DEF MetaInv, R!NoContentWithoutMeta, ContentHandler
  <2>3. TypeOK /\ StoresPrefixes /\ restarted \in BOOLEAN
    BY <1>1, <2>0 DEF TransferIInv, UploadInv, IInv, JointInv
  <2>4. IdDenotesFile
    BY <2>0, ResolvedIsStored DEF IdDenotesFile, Good
  <2> QED
    BY <2>0, <2>1, <2>2, <2>3, <2>4, PartitionIsRight DEF TransferInv
<1> QED
  BY <1>1

(* and of what has arrived. *)
LEMMA InvariantReceives == TransferIInv => ReceivedIsSent
<1>1. ASSUME TransferIInv PROVE ReceivedIsSent
  <2>1. SUFFICES ASSUME rclient = "resolved", rconnected, "content" \notin failed
                 PROVE  R!Content = File /\ Id = File
    BY DEF ReceivedIsSent
  <2>2. /\ UploadInv /\ R!TypeOK /\ ChunksInv /\ EndInv /\ client = "resolved"
    BY <1>1, <2>1 DEF TransferIInv, RetrievalInv, JointInv
  <2>3. Id = File
    BY <2>2, ResolvedIsStored DEF Good
  <2>4. Waits(ContentReply) = 0 /\ ContentHandler = "done"
    BY <2>1, <2>2 DEF EndInv
  <2>5. Total(ContentReply) = N /\ Counts(ContentReply.out, 0)
    BY <2>1, <2>2, <2>4 DEF ChunksInv, Numbered
  <2>6. /\ Got(ContentReply) = N /\ ContentReply.out \in Seq(R!Message)
        /\ R!Content = ContentReply.out
    BY <2>2, <2>4, <2>5, RetrievalTypes, CountTypes DEF R!Content, ContentReply
  <2>7. Len(R!Content) = N /\ \A i \in 1 .. N : R!Content[i] = i
    BY <2>5, <2>6 DEF Got, Counts
  <2>8. R!Content = [i \in 1 .. N |-> R!Content[i]]
    BY <2>6, <2>7, SeqDef
  <2> QED
    BY <2>3, <2>7, <2>8 DEF File, Chunk
<1> QED
  BY <1>1

(* Of a file of any size: the halves of the handler's stream are the stream cut
   after the request, and end when no more can come to them; what IPFS stores
   is a prefix of the file; the client has the beginning of the content, or
   EMPTY alone, and asks for it only when the manifest was read. *)
THEOREM TransferInvHolds == TransferSafeSpec => []TransferInv
BY TransferInvariance, InvariantSplits, PTL

(* What a client receives over a connection that held, when IPFS found the
   manifest again, is the file that was sent, however many chunks it has and
   whether or not the box lost power in between. *)
THEOREM ReceivedIsSentHolds == TransferSafeSpec => []ReceivedIsSent
BY TransferInvariance, InvariantReceives, PTL

(* The process of the box ends only by a stream that was lost or reset, by IPFS
   failing in the middle of the content, or by a request that came before the
   box, started again, had registered. *)
THEOREM CrashHasCauseHolds == TransferSafeSpec => []CrashHasCause
<1>1. TransferIInv => CrashHasCause
  BY DEF TransferIInv, JointInv
<1> QED
  BY TransferInvariance, <1>1, PTL

(* What the transfer has to do with the messages: what their encodings lose of
   no Meta, taken from the Request to the answer, arrives.  The manifest is
   there, and that of this Request, whenever it is asked for. *)
THEOREM MetaArrivesHolds ==
  ASSUME \A m \in Metas :
           LET answer == AnswerTo(ManifestOf(RequestFor(m), Cid))
           IN  /\ answer.path = Cid
               /\ \A f \in {"name", "type", "size", "lastModified"} : answer.meta[f] = m[f]
  PROVE  TransferSafeSpec => []MetaArrives
<1>1. TransferIInv => MetaArrives
  BY DEF TransferIInv, MessagesInv, MetaArrives
<1> QED
  BY TransferInvariance, <1>1, PTL

-----------------------------------------------------------------------------
(* The transfer as a store. *)

(* The client sees nothing of a step that changes none of this. *)
LEMMA Unseen ==
  ASSUME UNCHANGED <<Kept, client, Told, Held, Download, Received>>
  PROVE  [Store!Next]_(Store!vars)
BY DEF Store!vars, Store!uploading, Store!downloading

(* Whoever has been told an id is not told another one. *)
LEMMA ToldStays ==
  ASSUME client # "resolved" \/ reply'.out = reply.out, UNCHANGED client
  PROVE  UNCHANGED Told
BY DEF Told, Id

(* Nothing is known to the client, or stored, at first. *)
LEMMA StartsEmpty == TransferInit => Store!Init
<1> SUFFICES ASSUME TransferInit PROVE Store!Init
  OBVIOUS
<1>1. Init /\ R!Init
  BY DEF TransferInit
<1>2. client = "waiting" /\ stored = [contents |-> {}, manifests |-> {}]
  BY <1>1 DEF Init
<1>3. rclient = "meta" /\ rconnected = TRUE /\ failed = {}
  BY <1>1 DEF R!Init
<1>4. Kept = {} /\ Told = <<>> /\ Held = TRUE
  BY <1>2, <1>3 DEF Kept, Told, Held
<1>5. Download = "waiting" /\ Received = <<>>
  BY <1>3 DEF Download, Received, R!Stream
<1> QED
  BY <1>2, <1>4, <1>5 DEF Store!Init

(* The sequences that count from 1, up to N, are the prefixes of the file. *)
LEMMA PartOfFile ==
  ASSUME NEW V, NEW s \in Seq(V), Len(s) <= N, \A i \in 1 .. Len(s) : s[i] = i
  PROVE  s \in Store!Prefixes
<1>1. N \in Nat /\ Len(s) \in 0 .. N
  BY NAssumption, LenProperties
<1>2. File \in Seq(Nat) /\ Len(File) = N /\ \A i \in 1 .. N : File[i] = i
  BY <1>1, SeqDef DEF File, Chunk
<1>3. /\ SubSeq(File, 1, Len(s)) \in Seq(Nat)
      /\ Len(SubSeq(File, 1, Len(s))) = Len(s)
      /\ \A i \in 1 .. Len(s) : SubSeq(File, 1, Len(s))[i] = i
  BY <1>1, <1>2, SubSeqProperties
<1>4. s = [i \in 1 .. Len(s) |-> s[i]]
  BY SeqDef
<1>5. SubSeq(File, 1, Len(s)) = [i \in 1 .. Len(s) |-> SubSeq(File, 1, Len(s))[i]]
  BY <1>3, SeqDef
<1>6. s = SubSeq(File, 1, Len(s))
  BY <1>3, <1>4, <1>5
<1> QED
  BY <1>1, <1>2, <1>6 DEF Store!Prefixes

(* What the box has of the content is a prefix of the file. *)
LEMMA ContentIsPart ==
  ASSUME IInv
  PROVE  content.out \in Store!Prefixes
<1>1. /\ N \in Nat /\ content.out \in Seq(Frame)
      /\ Len(content.out) <= N /\ \A i \in 1 .. Len(content.out) : content.out[i] = i
  BY ContentIsPrefix, CountTypes, Counters DEF IInv, TypeOK
<1> QED
  BY <1>1, PartOfFile

(* Nothing of the retrieval has happened, and nothing of it happens. *)
LEMMA OnlyUpload ==
  ASSUME UNCHANGED retrieval
  PROVE  UNCHANGED <<Held, Download, Received>>
BY DEF retrieval, Held, Download, Received, R!Content

(* A step of the upload stores some of the file, tells its id, gives up, or is
   not seen. *)
LEMMA UploadIsStore ==
  ASSUME UploadInv, [Next]_vars, UNCHANGED retrieval
  PROVE  [Store!Next]_(Store!vars)
<1>0. /\ TypeOK /\ IInv /\ CauseInv /\ AdderInv /\ ReplyInv
      /\ client = "resolved" => reply.reader = "ended"
      /\ client = "rejected" => reply.reader \in {"ended", "raised"}
      /\ UNCHANGED <<Held, Download, Received>>
  BY OnlyUpload DEF UploadInv, IInv, CauseInv
<1>1. ASSUME UNCHANGED <<stored, client>>, client # "resolved" \/ reply'.out = reply.out
      PROVE  [Store!Next]_(Store!vars)
  BY <1>0, <1>1, ToldStays, Unseen DEF Kept
<1>2. CASE ClientSettle
  <2>1. /\ reply.reader = "reading" /\ UNCHANGED stored
        /\ \/ client' = "resolved" /\ reply.out # <<>> /\ reply' = End(reply)
           \/ client' = "rejected"
    BY <1>2 DEF ClientSettle, CanEnd, CanRaise, boxVars
  <2>2. client = "waiting" /\ Told = <<>> /\ Kept' = Kept
    BY <1>0, <2>1 DEF TypeOK, Told, Kept
  <2>3. CASE client' = "rejected"
    BY <1>0, <2>2, <2>3 DEF Told, Store!Next, Store!GiveUp, Store!downloading
  <2>4. CASE client' = "resolved"
    <3>1. reply'.out = reply.out /\ reply.out # <<>>
      BY <2>1, <2>4 DEF End, Chan
    <3>2. reply.out \in Seq(Seq(Frame))
      BY <1>0, CountTypes DEF TypeOK
    <3>3. Len(reply.out) \in 1 .. Len(reply.out)
      BY <3>1, <3>2, EmptySeq, LenProperties
    <3>4. Good(Id) /\ Told' = Id
      BY <1>0, <2>4, <3>1, <3>3 DEF ReplyInv, Id, Told
    <3>5. File \in Kept /\ Told' = File
      BY <3>4 DEF Good, Kept
    <3> QED
      BY <1>0, <2>2, <2>4, <3>5 DEF Store!Next, Store!Tell, Store!downloading
  <2> QED
    BY <2>1, <2>3, <2>4
<1>3. CASE AddContent
  <2>1. /\ adder = "adding" /\ stored'.manifests = stored.manifests
        /\ UNCHANGED <<client, reply>>
    BY <1>3 DEF AddContent
  <2>2. stored.manifests = {}
    BY <1>0, <2>1 DEF CauseInv
  <2>3. Kept = {} /\ Kept' = {}
    BY <2>1, <2>2 DEF Kept
  <2> QED
    BY <1>0, <2>1, <2>3, ToldStays, Unseen
<1>4. CASE AddManifest
  <2>1. /\ adder = "addingManifest" /\ UNCHANGED <<client, reply>>
        /\ stored'.contents = stored.contents
        /\ stored'.manifests = stored.manifests \cup {content.out}
    BY <1>4 DEF AddManifest
  <2>2. stored.manifests = {} /\ content.out \in stored.contents
    BY <1>0, <2>1 DEF CauseInv, AdderInv
  <2>3. Kept = {} /\ Kept' = {content.out}
    BY <2>1, <2>2 DEF Kept
  <2>4. content.out \in Store!Prefixes /\ UNCHANGED Told
    BY <1>0, <2>1, ContentIsPart, ToldStays
  <2> QED
    BY <1>0, <2>1, <2>3, <2>4 DEF Store!Next, Store!Keep, Store!uploading, Store!downloading
<1>5. CASE ClientYield \/ ClientMessage \/ ClientReset \/ LoseConnection
  <2>1. UNCHANGED <<stored, client>>
    BY <1>5 DEF ClientYield, ClientMessage, ClientReset, LoseConnection, boxVars
  <2>2. client # "resolved" \/ reply'.out = reply.out
    BY <1>0, <1>5 DEF ClientYield, ClientMessage, CanReceive, ClientReset, LoseConnection,
                      Fail, Cut, Chan
  <2> QED
    BY <1>1, <2>1, <2>2
<1>6. CASE Respond \/ CloseStream
  <2>1. UNCHANGED <<stored, client>> /\ reply'.out = reply.out
    BY <1>6 DEF Respond, CloseStream, Send, Close, Chan
  <2> QED
    BY <1>1, <2>1
<1>7. CASE \/ RegisterFile \/ PartitionLoop \/ HandlerDispatch \/ HandlerNoRequest
           \/ SaveMessage \/ SaveComplete \/ AddPull \/ AddFails \/ PowerLoss
           \/ UNCHANGED vars
  <2>1. UNCHANGED <<stored, client, reply>>
    BY <1>7, LoopCases DEF RegisterFile, HandlerDispatch, HandlerNoRequest, SaveMessage,
                           SaveComplete, AddPull, AddFails, PowerLoss, vars, boxVars
  <2> QED
    BY <1>1, <2>1
<1> QED
  BY <1>2, <1>3, <1>4, <1>5, <1>6, <1>7 DEF Next, Client, Handler, Adder

(* What is received over a retrieval that nothing disturbed is the file, and
   otherwise a part of it or EMPTY. *)
LEMMA ReceivedIsPart ==
  TransferIInv =>
    (rclient = "resolved" =>
       Received \in IF Held THEN {File} ELSE Store!Prefixes \cup {<<R!Empty>>})
<1> SUFFICES ASSUME TransferIInv, rclient = "resolved"
             PROVE  R!Content \in IF Held THEN {File} ELSE Store!Prefixes \cup {<<R!Empty>>}
  BY DEF Received
<1>1. CASE Held
  <2>1. R!Content = Id /\ Id = File
    BY <1>1, InvariantReceives DEF ReceivedIsSent, Held
  <2> QED
    BY <1>1, <2>1
<1>2. CASE ~Held
  <2>1. R!ContentIsPrefix
    BY InvariantSplits DEF TransferInv
  <2>2. R!Content \in Seq(R!Message)
    BY RetrievalTypes, CountTypes DEF TransferIInv, RetrievalInv, R!Content, ContentReply
  <2>3. R!Content = <<R!Empty>> \/ R!Content \in Store!Prefixes
    BY <2>1, <2>2, PartOfFile DEF R!ContentIsPrefix
  <2> QED
    BY <1>2, <2>3
<1> QED
  BY <1>1, <1>2

LEMMA ReceivedIsPartNext ==
  TransferIInv' =>
    (rclient = "resolved" =>
       Received \in IF Held THEN {File} ELSE Store!Prefixes \cup {<<R!Empty>>})'
BY ReceivedIsPart, PTL

(* A step of the retrieval is a disturbance, or the end of it, or not seen. *)
LEMMA RetrievalIsStore ==
  ASSUME TransferIInv, TransferIInv', Retrieve(RetrievalStep)
  PROVE  [Store!Next]_(Store!vars)
<1> USE DEF R!Stream
<1>0. /\ client = "resolved" /\ UNCHANGED <<client, Kept, Told>>
      /\ rclient \in {"meta", "content", "resolved", "rejected"}
      /\ rreply \in [R!Stream -> R!Channel(R!Message)]
      /\ RetrievalStep
  BY DEF Retrieve, upload, Kept, Told, Id, TransferIInv, RetrievalInv, R!TypeOK
<1>1. ASSUME UNCHANGED <<rclient, Received>>
      PROVE  [Store!Next]_(Store!vars)
  <2>1. UNCHANGED Download
    BY <1>1 DEF Download
  <2>2. Held' => Held
    BY <1>0, ReasonsStay DEF TransferIInv, Held
  <2>3. Held \in BOOLEAN /\ Held' \in BOOLEAN
    BY DEF Held
  <2>4. CASE UNCHANGED Held
    BY <1>0, <1>1, <2>1, <2>4, Unseen
  <2>5. CASE Held /\ Held' = FALSE
    BY <1>0, <1>1, <2>1, <2>5 DEF Store!Next, Store!Disturb, Store!uploading, Store!downloading
  <2> QED
    BY <2>2, <2>3, <2>4, <2>5
<1>2. ASSUME UNCHANGED rclient, rclient # "resolved" \/ rreply'["content"].out = rreply["content"].out
      PROVE  [Store!Next]_(Store!vars)
  BY <1>1, <1>2 DEF Received, R!Content
<1>3. ASSUME rclient \in R!Stream, rclient' = "rejected", UNCHANGED <<rconnected, failed>>
      PROVE  [Store!Next]_(Store!vars)
  <2>1. /\ Download = "waiting" /\ Download' = "rejected"
        /\ UNCHANGED <<Held, Received>>
    BY <1>3 DEF Download, Held, Received
  <2> QED
    BY <1>0, <2>1 DEF Store!Next, Store!FetchFails, Store!uploading
<1>4. CASE R!MetaMessage
  <2>1. /\ rclient = "meta" /\ UNCHANGED <<rconnected, failed>>
        /\ rclient' = "rejected" \/ rclient' = rclient
    BY <1>4 DEF R!MetaMessage
  <2> QED
    BY <1>2, <1>3, <2>1
<1>5. CASE R!MetaEnd
  <2>1. /\ rclient = "meta" /\ UNCHANGED <<rconnected, failed>>
        /\ rclient' = "rejected" \/ rclient' = "content"
    BY <1>5 DEF R!MetaEnd
  <2>2. CASE rclient' = "content"
    BY <1>0, <2>1, <2>2, Unseen DEF Download, Received, Held
  <2> QED
    BY <1>3, <2>1, <2>2
<1>6. CASE R!ContentMessage
  BY <1>2, <1>6 DEF R!ContentMessage
<1>7. CASE R!ContentEnd
  <2>1. rclient = "content" /\ rclient' = "resolved" /\ UNCHANGED <<rconnected, failed>>
    BY <1>7 DEF R!ContentEnd
  <2>2. Download = "waiting" /\ Download' = "resolved" /\ UNCHANGED Held
    BY <2>1 DEF Download, Held
  <2>3. Received' \in IF Held THEN {File} ELSE Store!Prefixes \cup {<<R!Empty>>}
    BY <2>1, <2>2, ReceivedIsPartNext DEF Store!Prefixes, File, Chunk, R!Empty
  <2> QED
    BY <1>0, <2>2, <2>3 DEF Store!Next, Store!Fetch, Store!uploading
<1>8. CASE R!StreamError
  BY <1>3, <1>8 DEF R!StreamError
<1>9. CASE R!LoseConnection
  BY <1>2, <1>9, SameChannels DEF R!LoseConnection, Cut, Chan
<1>10. CASE R!Handler \/ R!CatContentFails
  <2>1. \A c, v : /\ R!Send(c, v).out = c.out /\ R!Close(c).out = c.out
                  /\ R!Fail(c).out = c.out
    BY DEF R!Send, R!Close, R!Fail, R!Chan
  <2>2. ASSUME NEW t \in R!Stream,
               R!Dispatch(t) \/ R!CatManifest(t) \/ R!RespondEmpty(t) \/ R!CloseStream(t)
                 \/ R!WriteLost(t)
        PROVE  UNCHANGED rclient /\ rreply'["content"].out = rreply["content"].out
    BY <1>0, <2>1, <2>2 DEF R!Dispatch, R!CatManifest, R!RespondEmpty, R!CloseStream, R!WriteLost,
                            R!Write
  <2>3. CASE R!RespondMeta \/ R!RespondChunk \/ R!RespondEnd \/ R!CatContentFails
    <3>1. UNCHANGED rclient /\ rreply'["content"].out = rreply["content"].out
      BY <1>0, <2>1, <2>3 DEF R!RespondMeta, R!RespondChunk, R!RespondEnd, R!CatContentFails, R!Write
    <3> QED
      BY <1>2, <3>1
  <2> QED
    BY <1>2, <1>10, <2>2, <2>3 DEF R!Handler
<1> QED
  BY <1>0, <1>4, <1>5, <1>6, <1>7, <1>8, <1>9, <1>10 DEF RetrievalStep, R!Client

(* The transfer of a file of any size is a store of it that keeps the whole file
   or tells nothing of it, and whose fetches are whole unless they were
   disturbed: every step of it, of the client, of the box, of IPFS, of the
   connections or of the power supply, is a step of the store or not seen. *)
THEOREM RefinesStore == TransferSafeSpec => ImplementsStore
<1>1. ASSUME TransferIInv, TransferIInv', [TransferNext]_transferVars
      PROVE  [Store!Next]_(Store!vars)
  <2>1. CASE Upload(Next)
    BY <1>1, <2>1, UploadIsStore DEF Upload, TransferIInv
  <2>2. CASE \/ Retrieve(R!Client) \/ Retrieve(R!LoseConnection)
             \/ Retrieve(R!Handler) \/ Retrieve(R!CatContentFails)
    <3>1. Retrieve(RetrievalStep)
      BY <2>2 DEF Retrieve, RetrievalStep
    <3> QED
      BY <1>1, <3>1, RetrievalIsStore
  <2>3. CASE Restart
    <3>1. UNCHANGED <<client, reply, stored, retrieval>>
      BY <2>3 DEF Restart, upload
    <3>2. UNCHANGED <<Kept, Told, Held, Download, Received>>
      BY <3>1, OnlyUpload, ToldStays DEF Kept
    <3> QED
      BY <3>1, <3>2, Unseen
  <2>4. CASE RegisterAgain \/ UNCHANGED transferVars
    <3>1. UNCHANGED <<client, reply, stored, retrieval>>
      BY <2>4 DEF RegisterAgain, RegisterFile, transferVars, vars, boxVars
    <3>2. UNCHANGED <<Kept, Told, Held, Download, Received>>
      BY <3>1, OnlyUpload, ToldStays DEF Kept
    <3> QED
      BY <3>1, <3>2, Unseen
  <2> QED
    BY <1>1, <2>1, <2>2, <2>3, <2>4 DEF TransferNext
<1> QED
  BY StartsEmpty, TransferInvariance, <1>1, PTL DEF TransferSafeSpec, ImplementsStore, Store!SafeSpec
=============================================================================
