----------------------------- MODULE Partition -----------------------------
(***************************************************************************)
(* partition(index, iterable) of async-later: splits an async iterable     *)
(* into its first `index` values and the rest.  A loop nobody awaits pulls *)
(* the source as fast as it can and feeds two iterateLater() iterables;    *)
(* each has its own consumer.  The producer and the consumers are those of *)
(* the module that has an instance of this one.                            *)
(***************************************************************************)
EXTENDS Channels

CONSTANTS Value, Index \* the index is a natural number

VARIABLES source,   \* the iterable; its consumer is the loop
          current,  \* the loop's counter
          first,    \* partitionFirst
          second    \* partitionSecond

Init ==
  /\ source = NewChannel
  /\ current = 0
  /\ first = NewChannel
  /\ second = NewChannel

-----------------------------------------------------------------------------
(* The loop, lines 10-24.  The body of one iteration has no await in it. *)

IterateBody(value) ==
  IF current < Index
    THEN first' = Send(first, value) /\ second' = second
    ELSE /\ first' = IF current = Index THEN Close(first) ELSE first
         /\ second' = Send(second, value)

Iterate ==
  /\ CanReceive(source)
  /\ source' = Receive(source)
  /\ IterateBody(Head(source.buf))
  /\ current' = current + 1

IterateEnd ==
  /\ CanEnd(source)
  /\ source' = End(source)
  /\ first' = Close(first)
  /\ second' = Close(second)
  /\ UNCHANGED current

(* The source throws: the promise of iterate() rejects, neither half ends. *)
IterateError ==
  /\ CanRaise(source)
  /\ source' = Raise(source)
  /\ UNCHANGED <<current, first, second>>

-----------------------------------------------------------------------------
(* Every variable keeps its type. *)
TypeOK ==
  /\ source \in Channel(Value)
  /\ current \in Nat
  /\ first \in Channel(Value)
  /\ second \in Channel(Value)

(* The halves are the source cut at `index`: nothing is lost, duplicated,
   reordered or put on the wrong side, however the three consumers run. *)
SplitsAtIndex ==
  /\ Passed(first) \o Passed(second) = source.out
  /\ Passed(second) # <<>> => Len(Passed(first)) = Index
  /\ Len(Passed(first)) <= Index

(* A half ends exactly when no more values can come to it: the first with the
   first value beyond the index, so that its consumer need not wait for the
   end of the source, or with the source; the second with the source. *)
EndsAreTrue ==
  /\ first.status = "closed" <=> Passed(second) # <<>> \/ source.reader = "ended"
  /\ second.status = "closed" <=> source.reader = "ended"
=============================================================================
