---------------------------- MODULE AsyncChannel ----------------------------
(***************************************************************************)
(* What async-later promises of an iterable: a FIFO channel with one       *)
(* producer and one consumer.  The consumer sees exactly the messages the  *)
(* producer sent, in order, and learns of the end (or of the error) only   *)
(* after the last of them; and it does learn of it if it keeps reading.    *)
(***************************************************************************)
EXTENDS Channels

CONSTANT Value

VARIABLE ch

Init == ch = NewChannel

Produce ==
  /\ ch.status = "open"
  /\ \/ \E v \in Value : ch' = Send(ch, v)
     \/ ch' = Close(ch)
     \/ ch' = Fail(ch)

Consume ==
  \/ CanReceive(ch) /\ ch' = Receive(ch)
  \/ CanEnd(ch)     /\ ch' = End(ch)
  \/ CanRaise(ch)   /\ ch' = Raise(ch)

Abandon == ch.reader = "reading" /\ ch' = Leave(ch)

Next == Produce \/ Consume \/ Abandon

SafeSpec == Init /\ [][Next]_ch

Spec == SafeSpec /\ WF_ch(Consume)
=============================================================================
