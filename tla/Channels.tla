------------------------------ MODULE Channels ------------------------------
(***************************************************************************)
(* What a producer and the consumer of an async iterable of async-later    *)
(* share, as one value: the messages that were sent and not yet consumed,  *)
(* whether the producer is done, how far the consumer has come.            *)
(*                                                                         *)
(* The operators below are the vocabulary of every module that moves data  *)
(* between two asynchronous parties: the iterables iterateLater() returns, *)
(* and the two directions of a libp2p stream.  AsyncChannel turns them     *)
(* into a specification; IterateLater is shown to implement it.            *)
(***************************************************************************)
EXTENDS Naturals, Sequences

\* status: what the producer did last; reader: the state of the `for await`.
Channel(V) == [buf    : Seq(V),
               out    : Seq(V),
               status : {"open", "closed", "failed"},
               reader : {"reading", "ended", "raised", "returned"}]

Chan(buf, out, status, reader) ==
  [buf |-> buf, out |-> out, status |-> status, reader |-> reader]

NewChannel == Chan(<<>>, <<>>, "open", "reading")

\* Everything the producer got into the channel, in order.
Passed(c) == c.out \o c.buf

-----------------------------------------------------------------------------
(* The producer. *)

Send(c, v) == Chan(Append(c.buf, v), c.out, c.status, c.reader)
Close(c)   == Chan(c.buf, c.out, "closed", c.reader)
Fail(c)    == Chan(c.buf, c.out, "failed", c.reader)

(* A transport that goes away keeps the first k messages of those under way
   and then ends the channel, cleanly or with an error. *)
Cut(c, k, how) == Chan(SubSeq(c.buf, 1, k), c.out, how, c.reader)

-----------------------------------------------------------------------------
(* The consumer: one `for await` over the channel. *)

CanReceive(c) == c.reader = "reading" /\ c.buf # <<>>
CanEnd(c)     == c.reader = "reading" /\ c.buf = <<>> /\ c.status = "closed"
CanRaise(c)   == c.reader = "reading" /\ c.buf = <<>> /\ c.status = "failed"

Receive(c) == Chan(Tail(c.buf), Append(c.out, Head(c.buf)), c.status, c.reader)
End(c)     == Chan(c.buf, c.out, c.status, "ended")
Raise(c)   == Chan(c.buf, c.out, c.status, "raised")
Leave(c)   == Chan(c.buf, c.out, c.status, "returned")
=============================================================================
