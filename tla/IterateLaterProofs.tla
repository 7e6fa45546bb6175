------------------------- MODULE IterateLaterProofs -------------------------
(***************************************************************************)
(* Proofs about iterateLater(), for every set of values and every number   *)
(* of calls of next(): the iterable delivers in order, and it implements   *)
(* the safety part of AsyncChannel.  (Its liveness is left to TLC.)        *)
(***************************************************************************)
EXTENDS IterateLater, SequenceTheorems, TLAPS

(* The shape of the queue: one deferred per value sent, holding that value,
   then the end the producer asked for, if any, then nextInLine. *)
QueueInv ==
  /\ \A i \in 1 .. Len(sent) : deferreds[i] = sent[i]
  /\ producer \in {"open", "completed"} => Len(deferreds) = Len(sent) + 1
  /\ producer = "errored" => Len(deferreds) = Len(sent) + 2
  /\ producer = "open" => deferreds[Len(sent) + 1] = Pending
  /\ producer = "completed" => deferreds[Len(sent) + 1] = Completed
  /\ producer = "errored" => /\ deferreds[Len(sent) + 1] = Rejected
                             /\ deferreds[Len(sent) + 2] = Pending

(* How far the generator is: it has yielded what it popped, except for the
   promise it is waiting for. *)
GeneratorInv ==
  /\ Len(yielded) <= Len(sent)
  /\ \A i \in 1 .. Len(yielded) : yielded[i] = sent[i]
  /\ pc \in {"suspended", "returned"} => popped = Len(yielded)
  /\ pc \in {"awaiting", "done", "threw"} => popped = Len(yielded) + 1
  /\ pc = "done" => producer = "completed" /\ Len(yielded) = Len(sent)
  /\ pc = "threw" => producer = "errored" /\ Len(yielded) = Len(sent)

IInv == TypeOK /\ QueueInv /\ GeneratorInv

-----------------------------------------------------------------------------
(* The invariant holds at first. *)
LEMMA InitEstablishes == Init => IInv
BY MarkersAssumption DEF Init, IInv, TypeOK, QueueInv, GeneratorInv

(* What lines 8-11 do to the queue: nextInLine gets the value, and a new
   pending deferred takes its place. *)
LEMMA ResolveNextEffect ==
  ASSUME IInv, producer = "open",
         NEW v \in Value \cup {Pending, Completed, Rejected}, resolveNext(v)
  PROVE  /\ deferreds' \in Seq(Value \cup {Pending, Completed, Rejected})
         /\ Len(deferreds') = Len(sent) + 2
         /\ \A i \in 1 .. Len(sent) : deferreds'[i] = sent[i]
         /\ deferreds'[Len(sent) + 1] = v
         /\ deferreds'[Len(sent) + 2] = Pending
<1> DEFINE D == Value \cup {Pending, Completed, Rejected}
           d == [deferreds EXCEPT ![Len(deferreds)] = v]
<1>1. /\ d \in Seq(D) /\ Len(d) = Len(sent) + 1
      /\ \A i \in 1 .. Len(sent) : d[i] = sent[i]
      /\ d[Len(sent) + 1] = v
  BY DEF IInv, TypeOK, QueueInv
<1>2. deferreds' = Append(d, Pending)
  BY DEF resolveNext, Resolved, nextInLine, IInv, TypeOK, QueueInv
<1> HIDE DEF d
<1> QED
  BY <1>1, <1>2, AppendProperties

(* When the generator awaits an end it has yielded every value that was sent,
   and the promise it awaits is the last one, or the last but nextInLine. *)
LEMMA AtTheEnd ==
  ASSUME IInv, pc = "awaiting", deferreds[popped] \in {Completed, Rejected}
  PROVE  /\ Len(yielded) = Len(sent) /\ popped = Len(sent) + 1
         /\ deferreds[popped] = Completed => producer = "completed" /\ popped = Len(deferreds)
         /\ deferreds[popped] = Rejected => producer = "errored"
<1>1. /\ popped = Len(yielded) + 1 /\ Len(yielded) <= Len(sent)
      /\ Len(sent) \in Nat /\ Len(yielded) \in Nat
  BY DEF IInv, TypeOK, GeneratorInv
<1>2. popped \notin 1 .. Len(sent)
  <2> SUFFICES ASSUME popped \in 1 .. Len(sent) PROVE FALSE
    OBVIOUS
  <2>1. deferreds[popped] = sent[popped] /\ sent \in Seq(Value)
    BY DEF IInv, QueueInv, TypeOK
  <2>2. deferreds[popped] \in Value
    BY <2>1, ElementOfSeq
  <2> QED
    BY <2>2, MarkersAssumption
<1>3. popped = Len(sent) + 1 /\ Len(yielded) = Len(sent)
  BY <1>1, <1>2
<1> QED
  BY <1>3, MarkersAssumption DEF IInv, QueueInv, TypeOK

(* Every step keeps the invariant. *)
LEMMA NextPreserves ==
  ASSUME IInv, [Next]_vars
  PROVE  IInv'
<1> USE MarkersAssumption DEF IInv, TypeOK, QueueInv, GeneratorInv
<1>1. ASSUME NEW v \in Value, next(v) PROVE IInv'
  <2>1. /\ sent' \in Seq(Value) /\ Len(sent') = Len(sent) + 1
        /\ \A i \in 1 .. Len(sent) : sent'[i] = sent[i]
        /\ sent'[Len(sent) + 1] = v
    BY <1>1, AppendProperties DEF next
  <2> QED
    BY <1>1, <2>1, ResolveNextEffect DEF next
<1>2. CASE nextRejected
  <2>1. /\ producer = "open" /\ producer' = "errored"
        /\ UNCHANGED <<popped, pc, sent, yielded>>
    BY <1>2 DEF nextRejected
  <2>2. /\ deferreds' \in Seq(Value \cup {Pending, Completed, Rejected})
        /\ Len(deferreds') = Len(sent) + 2
        /\ \A i \in 1 .. Len(sent) : deferreds'[i] = sent[i]
        /\ deferreds'[Len(sent) + 1] = Rejected /\ deferreds'[Len(sent) + 2] = Pending
    <3>1. resolveNext(Rejected) /\ Rejected \in Value \cup {Pending, Completed, Rejected}
      BY <1>2 DEF nextRejected
    <3> QED
      BY <2>1, <3>1, ResolveNextEffect
  <2>3. QueueInv'
    BY <2>1, <2>2
  <2>4. Len(deferreds) = Len(sent) + 1 /\ deferreds' # <<>>
    BY <2>1, <2>2
  <2>5. TypeOK'
    BY <2>1, <2>2, <2>4
  <2>6. GeneratorInv'
    BY <2>1
  <2> QED
    BY <2>3, <2>5, <2>6
<1>3. CASE complete
  BY <1>3 DEF complete, Resolved, nextInLine
<1>4. CASE Pull
  BY <1>4 DEF Pull, Advance
<1>5. CASE Settle
  <2>1. CASE deferreds[popped] = Completed
    <3>1. /\ pc = "awaiting" /\ popped' = popped /\ pc' = "done"
          /\ UNCHANGED <<deferreds, producer, sent, yielded>>
      <4>1. pc = "awaiting" /\ Advance /\ UNCHANGED <<deferreds, producer, sent, yielded>>
        BY <1>5, <2>1 DEF Settle
      <4>2. popped = Len(deferreds)
        BY <2>1, <4>1, AtTheEnd
      <4> QED
        BY <4>1, <4>2 DEF Advance
    <3>2. producer = "completed" /\ Len(yielded) = Len(sent) /\ popped = Len(yielded) + 1
      BY <2>1, <3>1, AtTheEnd
    <3> QED
      BY <3>1, <3>2
  <2>2. CASE deferreds[popped] = Rejected
    <3>1. /\ pc = "awaiting" /\ pc' = "threw"
          /\ UNCHANGED <<deferreds, popped, producer, sent, yielded>>
      BY <1>5, <2>2 DEF Settle
    <3>2. producer = "errored" /\ Len(yielded) = Len(sent) /\ popped = Len(yielded) + 1
      BY <2>2, <3>1, AtTheEnd
    <3> QED
      BY <3>1, <3>2
  <2>3. CASE deferreds[popped] \in Value
    <3>1. /\ yielded' = Append(yielded, deferreds[popped])
          /\ pc = "awaiting" /\ pc' = "suspended"
          /\ UNCHANGED <<popped, deferreds, producer, sent>>
      BY <1>5, <2>3 DEF Settle
    <3>2. popped = Len(yielded) + 1 /\ popped <= Len(sent) /\ deferreds[popped] = sent[popped]
      BY <2>3, <3>1
    <3>3. /\ yielded' \in Seq(Value) /\ Len(yielded') = Len(yielded) + 1
          /\ \A i \in 1 .. Len(yielded) : yielded'[i] = yielded[i]
          /\ yielded'[Len(yielded) + 1] = sent[popped]
      BY <3>1, <3>2, AppendProperties, ElementOfSeq
    <3> QED
      BY <3>1, <3>2, <3>3
  <2> QED
    BY <1>5, <2>1, <2>2, <2>3 DEF Settle
<1>6. CASE Return
  BY <1>6 DEF Return
<1>7. CASE UnhandledRejection
  BY <1>7 DEF UnhandledRejection
<1>8. CASE UNCHANGED vars
  BY <1>8 DEF vars
<1> QED
  BY <1>1, <1>2, <1>3, <1>4, <1>5, <1>6, <1>7, <1>8 DEF Next, Generator

(* The inductive invariant holds in every reachable state. *)
THEOREM Invariance == SafeSpec => []IInv
<1>1. Init => IInv
  BY InitEstablishes
<1>2. IInv /\ [Next]_vars => IInv'
  BY NextPreserves
<1> QED
  BY <1>1, <1>2, PTL DEF SafeSpec

(* Every promise, counter and flag of iterateLater() keeps its type. *)
THEOREM TypeCorrect == SafeSpec => []TypeOK
<1>1. IInv => TypeOK
  BY DEF IInv
<1> QED
  BY <1>1, Invariance, PTL

(* Whatever the order of next(), complete() and the consumer's reads, the
   consumer receives what was sent, in order and without a gap, and it only
   ends once it has received all of it. *)
THEOREM DeliversInOrderHolds == SafeSpec => []DeliversInOrder
<1>1. ASSUME IInv PROVE DeliversInOrder
  <2>1. ASSUME pc \in {"done", "threw"} PROVE yielded = sent
    BY <1>1, <2>1, SeqEqual DEF IInv, TypeOK, GeneratorInv
  <2> QED
    BY <1>1, <2>1 DEF IInv, GeneratorInv, DeliversInOrder
<1> QED
  BY <1>1, Invariance, PTL

-----------------------------------------------------------------------------
(* The refinement. *)

(* A value given to next() goes to the end of what is buffered. *)
LEMMA BufferedAppend ==
  ASSUME NEW s \in Seq(Value), NEW v \in Value, NEW y \in 0 .. Len(s)
  PROVE  SubSeq(Append(s, v), y + 1, Len(s) + 1) = Append(SubSeq(s, y + 1, Len(s)), v)
<1> DEFINE t == SubSeq(Append(s, v), y + 1, Len(s) + 1)
           u == SubSeq(s, y + 1, Len(s))
<1>1. /\ Append(s, v) \in Seq(Value) /\ Len(Append(s, v)) = Len(s) + 1
      /\ \A i \in 1 .. Len(s) : Append(s, v)[i] = s[i]
      /\ Append(s, v)[Len(s) + 1] = v
  BY AppendProperties
<1>2. \A i \in y + 1 .. Len(s) + 1 : Append(s, v)[i] \in Value
  BY <1>1, ElementOfSeq
<1>3. /\ t \in Seq(Value) /\ Len(t) = Len(s) + 1 - y
      /\ \A i \in 1 .. Len(s) + 1 - y : t[i] = Append(s, v)[y + i]
  <2>1. y + 1 \in Int /\ Len(s) + 1 \in Int
    OBVIOUS
  <2> QED
    <3>1. /\ t \in Seq(Value)
          /\ Len(t) = IF y + 1 <= Len(s) + 1 THEN Len(s) + 1 - (y + 1) + 1 ELSE 0
          /\ \A i \in 1 .. Len(s) + 1 - (y + 1) + 1 : t[i] = Append(s, v)[y + 1 + i - 1]
      BY <1>2, <2>1, SubSeqProperties
    <3> HIDE DEF t
    <3> QED
      BY <3>1
<1>4. \A i \in y + 1 .. Len(s) : s[i] \in Value
  BY ElementOfSeq
<1>5. /\ u \in Seq(Value) /\ Len(u) = Len(s) - y
      /\ \A i \in 1 .. Len(s) - y : u[i] = s[y + i]
  <2>1. y + 1 \in Int /\ Len(s) \in Int
    OBVIOUS
  <2> QED
    BY <1>4, <2>1, SubSeqProperties
<1> HIDE DEF t, u
<1>6. /\ Append(u, v) \in Seq(Value) /\ Len(Append(u, v)) = Len(s) + 1 - y
      /\ \A i \in 1 .. Len(s) - y : Append(u, v)[i] = u[i]
      /\ Append(u, v)[Len(s) + 1 - y] = v
  BY <1>5, AppendProperties
<1>7. \A i \in 1 .. Len(s) + 1 - y : t[i] = Append(u, v)[i]
  <2> TAKE i \in 1 .. Len(s) + 1 - y
  <2>1. CASE i = Len(s) + 1 - y
    <3>1. t[i] = Append(s, v)[Len(s) + 1]
      BY <1>3, <2>1
    <3> QED
      BY <1>1, <1>6, <2>1, <3>1
  <2>2. CASE i \in 1 .. Len(s) - y
    <3>1. t[i] = Append(s, v)[y + i] /\ y + i \in 1 .. Len(s)
      BY <1>3, <2>2
    <3> QED
      BY <1>1, <1>5, <1>6, <2>2, <3>1
  <2>3. i = Len(s) + 1 - y \/ i \in 1 .. Len(s) - y
    OBVIOUS
  <2> QED
    BY <2>1, <2>2, <2>3
<1>8. t = Append(u, v)
  BY <1>3, <1>6, <1>7, SeqEqual
<1> QED
  BY <1>8 DEF t, u

(* The buffer is empty exactly when everything was yielded; otherwise its head
   is the next value to be yielded. *)
LEMMA BufferedHead ==
  ASSUME NEW s \in Seq(Value), NEW y \in 0 .. Len(s)
  PROVE  /\ y = Len(s) => SubSeq(s, y + 1, Len(s)) = <<>>
         /\ y < Len(s) => /\ SubSeq(s, y + 1, Len(s)) # <<>>
                          /\ Head(SubSeq(s, y + 1, Len(s))) = s[y + 1]
                          /\ Tail(SubSeq(s, y + 1, Len(s))) = SubSeq(s, y + 2, Len(s))
<1>1. y = Len(s) => SubSeq(s, y + 1, Len(s)) = <<>>
  BY SubSeqEmpty
<1>2. ASSUME y < Len(s)
      PROVE  /\ SubSeq(s, y + 1, Len(s)) # <<>>
             /\ Head(SubSeq(s, y + 1, Len(s))) = s[y + 1]
             /\ Tail(SubSeq(s, y + 1, Len(s))) = SubSeq(s, y + 2, Len(s))
  <2>1. y + 1 \in 1 .. Len(s) /\ Len(s) \in y + 1 .. Len(s) /\ y + 1 + 1 = y + 2
    BY <1>2
  <2>2. \A i \in y + 1 .. Len(s) : s[i] \in Value
    BY ElementOfSeq
  <2>3. Len(SubSeq(s, y + 1, Len(s))) = Len(s) - (y + 1) + 1
    BY <2>1, <2>2, SubSeqProperties
  <2>4. SubSeq(s, y + 1, Len(s)) # <<>>
    <3> DEFINE u == SubSeq(s, y + 1, Len(s))
    <3>1. Len(u) # 0
      BY <1>2, <2>3
    <3> HIDE DEF u
    <3>2. u # <<>>
      BY <3>1
    <3> QED
      BY <3>2 DEF u
  <2> QED
    BY <2>1, <2>4, HeadTailOfSubSeq
<1> QED
  BY <1>1, <1>2

(* The initial state is one of the channel. *)
LEMMA InitRefines == Init => Abstract!Init
<1> SUFFICES ASSUME Init PROVE ChannelView = NewChannel
  BY DEF Abstract!Init, Abstract!NewChannel, NewChannel, Abstract!Chan, Chan
<1>1. Buffered = <<>>
  BY SubSeqEmpty DEF Buffered, Init
<1> QED
  BY <1>1 DEF Init, ChannelView, StatusView, ReaderView, NewChannel, Chan

(* Every step is one of the channel, or a stutter. *)
LEMMA StepRefines ==
  ASSUME IInv, [Next]_vars
  PROVE  [Abstract!Next]_ChannelView
<1> USE DEF IInv, TypeOK, GeneratorInv, Chan, Abstract!Chan
<1>0. Len(yielded) \in 0 .. Len(sent)
  OBVIOUS
<1>1. ASSUME NEW v \in Value, next(v) PROVE Abstract!Next
  <2>1. Buffered' = Append(Buffered, v)
    <3>1. sent' = Append(sent, v) /\ yielded' = yielded
      BY <1>1 DEF next
    <3>2. Len(sent') = Len(sent) + 1
      BY <3>1, AppendProperties
    <3>3. Buffered' = SubSeq(Append(sent, v), Len(yielded) + 1, Len(sent) + 1)
      BY <3>1, <3>2 DEF Buffered
    <3> QED
      BY <1>0, <3>3, BufferedAppend DEF Buffered
  <2>2. /\ StatusView = "open" /\ StatusView' = StatusView
        /\ ReaderView' = ReaderView /\ yielded' = yielded
    BY <1>1 DEF next, StatusView, ReaderView
  <2>3. ChannelView.status = "open" /\ ChannelView' = Send(ChannelView, v)
    BY <2>1, <2>2 DEF ChannelView, Send
  <2> QED
    BY <2>3 DEF Abstract!Next, Abstract!Produce, Abstract!Send, Send
<1>2. CASE nextRejected
  <2>1. ChannelView.status = "open" /\ ChannelView' = Fail(ChannelView)
    <3>1. /\ StatusView = "open" /\ StatusView' = "failed"
          /\ UNCHANGED <<ReaderView, Buffered, yielded>>
      BY <1>2 DEF nextRejected, StatusView, ReaderView, Buffered
    <3> QED
      BY <3>1 DEF ChannelView, Fail
  <2> QED
    BY <2>1 DEF Abstract!Next, Abstract!Produce, Abstract!Fail, Fail
<1>3. CASE complete
  <2>1. CASE producer = "open"
    <3>1. ChannelView.status = "open" /\ ChannelView' = Close(ChannelView)
      <4>1. /\ StatusView = "open" /\ StatusView' = "closed"
            /\ UNCHANGED <<ReaderView, Buffered, yielded>>
        BY <1>3, <2>1 DEF complete, StatusView, ReaderView, Buffered
      <4> QED
        BY <4>1 DEF ChannelView, Close
    <3> QED
      BY <3>1 DEF Abstract!Next, Abstract!Produce, Abstract!Close, Close
  <2>2. CASE producer = "completed"
    BY <1>3, <2>2 DEF complete, ChannelView, StatusView, ReaderView, Buffered
  <2> QED
    BY <1>3, <2>1, <2>2 DEF complete
<1>4. CASE Pull
  <2>1. pc' = "awaiting"
    BY <1>4 DEF Pull, Advance, QueueInv
  <2> QED
    BY <1>4, <2>1 DEF Pull, ChannelView, StatusView, ReaderView, Buffered
<1>5. CASE Settle
  <2>1. CASE deferreds[popped] = Completed
    <3>1. Len(yielded) = Len(sent) /\ producer = "completed" /\ popped = Len(deferreds)
      BY <1>5, <2>1, AtTheEnd DEF Settle
    <3>2. Buffered = <<>>
      BY <1>0, <3>1, BufferedHead DEF Buffered
    <3>3. CanEnd(ChannelView) /\ ChannelView' = End(ChannelView)
      <4>1. /\ StatusView = "closed" /\ ReaderView = "reading" /\ ReaderView' = "ended"
            /\ UNCHANGED <<StatusView, Buffered, yielded>>
        BY <1>5, <2>1, <3>1, MarkersAssumption
        DEF Settle, Advance, StatusView, ReaderView, Buffered
      <4> QED
        BY <3>2, <4>1 DEF ChannelView, CanEnd, End
    <3> QED
      BY <3>3 DEF Abstract!Next, Abstract!Consume, Abstract!CanEnd, Abstract!End, CanEnd, End
  <2>2. CASE deferreds[popped] = Rejected
    <3>1. Len(yielded) = Len(sent) /\ producer = "errored"
      BY <1>5, <2>2, AtTheEnd DEF Settle
    <3>2. Buffered = <<>>
      BY <1>0, <3>1, BufferedHead DEF Buffered
    <3>3. CanRaise(ChannelView) /\ ChannelView' = Raise(ChannelView)
      <4>1. /\ StatusView = "failed" /\ ReaderView = "reading" /\ ReaderView' = "raised"
            /\ UNCHANGED <<StatusView, Buffered, yielded>>
        BY <1>5, <2>2, <3>1, MarkersAssumption DEF Settle, StatusView, ReaderView, Buffered
      <4> QED
        BY <3>2, <4>1 DEF ChannelView, CanRaise, Raise
    <3> QED
      BY <3>3 DEF Abstract!Next, Abstract!Consume, Abstract!CanRaise, Abstract!Raise, CanRaise, Raise
  <2>3. CASE deferreds[popped] \in Value
    <3>1. /\ yielded' = Append(yielded, sent[Len(yielded) + 1])
          /\ Len(yielded) < Len(sent)
          /\ pc = "awaiting" /\ pc' = "suspended" /\ UNCHANGED <<sent, producer>>
      BY <1>5, <2>3, MarkersAssumption DEF Settle, QueueInv
    <3>2. Len(yielded') = Len(yielded) + 1
      BY <3>1, AppendProperties, ElementOfSeq
    <3>3. Buffered # <<>> /\ Head(Buffered) = sent[Len(yielded) + 1] /\ Buffered' = Tail(Buffered)
      <4>1. Buffered' = SubSeq(sent, Len(yielded) + 2, Len(sent))
        BY <3>1, <3>2 DEF Buffered
      <4> QED
        BY <1>0, <3>1, <4>1, BufferedHead DEF Buffered
    <3>4. CanReceive(ChannelView) /\ ChannelView' = Receive(ChannelView)
      <4>1. ReaderView = "reading" /\ UNCHANGED <<StatusView, ReaderView>>
        BY <3>1 DEF StatusView, ReaderView
      <4> QED
        BY <3>1, <3>3, <4>1 DEF ChannelView, CanReceive, Receive
    <3> QED
      BY <3>4 DEF Abstract!Next, Abstract!Consume, Abstract!CanReceive, Abstract!Receive,
                  CanReceive, Receive
  <2> QED
    BY <1>5, <2>1, <2>2, <2>3 DEF Settle
<1>6. CASE Return
  <2>1. ChannelView.reader = "reading" /\ ChannelView' = Leave(ChannelView)
    <3>1. /\ ReaderView = "reading" /\ ReaderView' = "returned"
          /\ UNCHANGED <<StatusView, Buffered, yielded>>
      BY <1>6 DEF Return, StatusView, ReaderView, Buffered
    <3> QED
      BY <3>1 DEF ChannelView, Leave
  <2> QED
    BY <2>1 DEF Abstract!Next, Abstract!Abandon, Abstract!Leave, Leave
<1>7. CASE UnhandledRejection
  <2>1. pc \notin {"done", "threw", "crashed"}
    BY <1>7, MarkersAssumption DEF UnhandledRejection, QueueInv
  <2>2. CASE pc = "returned"
    BY <1>7, <2>2 DEF UnhandledRejection, ChannelView, StatusView, ReaderView, Buffered
  <2>3. CASE pc \in {"suspended", "awaiting"}
    <3>1. ChannelView.reader = "reading" /\ ChannelView' = Leave(ChannelView)
      <4>1. /\ ReaderView = "reading" /\ ReaderView' = "returned"
            /\ UNCHANGED <<StatusView, Buffered, yielded>>
        BY <1>7, <2>3 DEF UnhandledRejection, StatusView, ReaderView, Buffered
      <4> QED
        BY <4>1 DEF ChannelView, Leave
    <3> QED
      BY <3>1 DEF Abstract!Next, Abstract!Abandon, Abstract!Leave, Leave
  <2> QED
    BY <2>1, <2>2, <2>3
<1>8. CASE UNCHANGED vars
  BY <1>8 DEF vars, ChannelView, StatusView, ReaderView, Buffered
<1> QED
  BY <1>1, <1>2, <1>3, <1>4, <1>5, <1>6, <1>7, <1>8 DEF Next, Generator

(* iterateLater() implements the safety part of AsyncChannel: every behaviour
   of the queue of promises is one of a FIFO channel with one consumer. *)
THEOREM RefinesChannel == SafeSpec => Abstract!SafeSpec
<1>1. Init => Abstract!Init
  BY InitRefines
<1>2. IInv /\ [Next]_vars => [Abstract!Next]_ChannelView
  BY StepRefines
<1> QED
  BY <1>1, <1>2, Invariance, PTL DEF SafeSpec, Abstract!SafeSpec
=============================================================================
