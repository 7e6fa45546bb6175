---------------------------- MODULE IterateLater ----------------------------
(***************************************************************************)
(* iterateLater() of async-later: an async iterable whose values are given *)
(* later, by calls of next() and complete().                               *)
(*                                                                         *)
(* The code keeps a queue of deferred promises.  The newest one is         *)
(* nextInLine, the only one next() and complete() resolve; the generator   *)
(* takes the oldest one, awaits it and yields its value.  Here `deferreds` *)
(* holds every deferred ever created, oldest first: the first `popped` of  *)
(* them were taken by the generator, the others are the queue, the last    *)
(* one is nextInLine.                                                      *)
(*                                                                         *)
(* The producer is a subscriber of an observable or the loop of            *)
(* partition(): it makes no call of next() after complete() or an error,   *)
(* but may complete twice (partition() does).                              *)
(***************************************************************************)
EXTENDS Channels

CONSTANTS Value,      \* what the producer passes to next()
          Pending,    \* a promise that has not been resolved
          Completed,  \* the marker object of line 6
          Rejected,   \* a promise resolved with Promise.reject(error)
          MaxNext     \* bound on the calls of next()

ASSUME MarkersAssumption ==
  /\ Pending \notin Value /\ Completed \notin Value /\ Rejected \notin Value
  /\ Pending # Completed /\ Pending # Rejected /\ Completed # Rejected

ASSUME MaxNextAssumption == MaxNext \in Nat

VARIABLES deferreds,  \* every deferred promise created so far
          popped,     \* how many of them the generator has taken
          pc,         \* where the generator is
          producer,   \* what the producer has done
          sent,       \* the values given to next(), in order
          yielded     \* the values the consumer received, in order

vars == <<deferreds, popped, pc, producer, sent, yielded>>

Init ==
  /\ deferreds = <<Pending>>
  /\ popped = 0
  /\ pc = "suspended"
  /\ producer = "open"
  /\ sent = <<>>
  /\ yielded = <<>>

nextInLine == Len(deferreds)

(* A promise settles once: resolving it again changes nothing. *)
Resolved(v) ==
  IF deferreds[nextInLine] = Pending
    THEN [deferreds EXCEPT ![nextInLine] = v]
    ELSE deferreds

-----------------------------------------------------------------------------
(* The producer. *)

(* Mutant: lines 10-11 are missing, nextInLine stays what it is. *)
resolveInPlace(v) == deferreds' = Resolved(v)

resolveNext(v) == deferreds' = Append(Resolved(v), Pending)

next(v) ==
  /\ producer = "open" /\ Len(sent) < MaxNext
  /\ resolveNext(v)
  /\ sent' = Append(sent, v)
  /\ UNCHANGED <<popped, pc, producer, yielded>>

(* The error callback of asyncIterableFromObservable. *)
nextRejected ==
  /\ producer = "open"
  /\ resolveNext(Rejected)
  /\ producer' = "errored"
  /\ UNCHANGED <<popped, pc, sent, yielded>>

(* Mutant: complete() made from next(): another deferred follows the marker. *)
completeByNext ==
  /\ producer = "open"
  /\ resolveNext(Completed)
  /\ producer' = "completed"
  /\ UNCHANGED <<popped, pc, sent, yielded>>

complete ==
  /\ producer \in {"open", "completed"}
  /\ deferreds' = Resolved(Completed)
  /\ producer' = "completed"
  /\ UNCHANGED <<popped, pc, sent, yielded>>

-----------------------------------------------------------------------------
(* The generator. *)

(* The head of the loop: take the oldest deferred, or finish. *)
Advance ==
  IF popped < Len(deferreds)
    THEN popped' = popped + 1 /\ pc' = "awaiting"
    ELSE popped' = popped /\ pc' = "done"

(* The consumer asks for another value. *)
Pull ==
  /\ pc = "suspended"
  /\ Advance
  /\ UNCHANGED <<deferreds, producer, sent, yielded>>

(* Mutant: the end is only noticed when the queue is not empty. *)
SettleIgnoresEnd ==
  /\ pc = "awaiting"
  /\ \/ /\ deferreds[popped] = Rejected
        /\ pc' = "threw" /\ UNCHANGED yielded
     \/ /\ deferreds[popped] \in Value
        /\ yielded' = Append(yielded, deferreds[popped])
        /\ pc' = "suspended"
  /\ UNCHANGED <<deferreds, popped, producer, sent>>

(* The promise the generator awaits has settled. *)
Settle ==
  /\ pc = "awaiting"
  /\ \/ /\ deferreds[popped] = Completed
        /\ Advance
        /\ UNCHANGED yielded
     \/ /\ deferreds[popped] = Rejected
        /\ pc' = "threw"
        /\ UNCHANGED <<popped, yielded>>
     \/ /\ deferreds[popped] \in Value
        /\ yielded' = Append(yielded, deferreds[popped])
        /\ pc' = "suspended"
        /\ UNCHANGED popped
  /\ UNCHANGED <<deferreds, producer, sent>>

(* The consumer leaves its `for await` early, as firstValue() does. *)
Return ==
  /\ pc = "suspended" /\ yielded # <<>>
  /\ pc' = "returned"
  /\ UNCHANGED <<deferreds, popped, producer, sent, yielded>>

(* A rejected promise that nobody awaits yet is an unhandled rejection: the
   process ends, unless the generator gets there in the same turn. *)
UnhandledRejection ==
  /\ pc # "crashed"
  /\ \E i \in popped + 1 .. Len(deferreds) : deferreds[i] = Rejected
  /\ pc' = "crashed"
  /\ UNCHANGED <<deferreds, popped, producer, sent, yielded>>

-----------------------------------------------------------------------------
Generator == Pull \/ Settle

Next ==
  \/ \E v \in Value : next(v)
  \/ nextRejected
  \/ complete
  \/ Generator
  \/ Return
  \/ UnhandledRejection

SafeSpec == Init /\ [][Next]_vars

(* The consumer is a `for await` loop and promises settle in the microtask
   queue: as long as the process lives neither is put off forever. *)
Spec == SafeSpec /\ WF_vars(Generator)

-----------------------------------------------------------------------------
(* Every variable keeps its type. *)
TypeOK ==
  /\ deferreds \in Seq(Value \cup {Pending, Completed, Rejected})
  /\ deferreds # <<>>
  /\ popped \in 0 .. Len(deferreds)
  /\ pc \in {"suspended", "awaiting", "done", "returned", "threw", "crashed"}
  /\ producer \in {"open", "completed", "errored"}
  /\ sent \in Seq(Value)
  /\ yielded \in Seq(Value)

(* The iterable is the FIFO channel of AsyncChannel. *)
Buffered == SubSeq(sent, Len(yielded) + 1, Len(sent))

StatusView == IF producer = "open" THEN "open"
              ELSE IF producer = "completed" THEN "closed" ELSE "failed"

ReaderView == IF pc = "done" THEN "ended"
              ELSE IF pc = "threw" THEN "raised"
              ELSE IF pc \in {"returned", "crashed"} THEN "returned" ELSE "reading"

ChannelView == [buf |-> Buffered, out |-> yielded, status |-> StatusView, reader |-> ReaderView]

Abstract == INSTANCE AsyncChannel WITH ch <- ChannelView

(* iterateLater implements the channel, its liveness included. *)
ImplementsChannel == Abstract!Spec

(* What the consumer has received is what was sent, in order, from the first
   value on; and a consumer that came to the end (or to the error) has received
   every value that was sent before it. *)
DeliversInOrder ==
  /\ Len(yielded) <= Len(sent)
  /\ \A i \in 1 .. Len(yielded) : yielded[i] = sent[i]
  /\ pc \in {"done", "threw"} => yielded = sent

(* Completing the producer ends every consumer that keeps reading: complete()
   resolves the very promise the generator is, or will be, waiting for. *)
CompletionReachesConsumer ==
  (producer = "completed") ~> (pc \in {"done", "returned"})
=============================================================================
