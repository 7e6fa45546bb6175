---------------------------- MODULE MCGraphHooks ----------------------------
(* The hooks over real calls: every answer is what GraphCall says the box
   answers to the arguments. *)
EXTENDS GraphCall, QueryHooks

MCWords   == <<"1", "a", "b">>
MCNumeral == "1" :> 1

MCDocuments ==
  << [id |-> Num(1), name |-> Str("a")],
     [id |-> Num(2), name |-> Str("b")],
     [id |-> Num(3), name |-> Str("1"), age |-> Num(1)] >>

MCTexts ==
  [all  |-> << [name |-> "readAll", fields |-> {"id", "name"}] >>,
   age  |-> << [name |-> "readAge", fields |-> {"age"}] >>,
   both |-> << [name |-> "readAll", fields |-> {"id", "name"}],
               [name |-> "readAge", fields |-> {"age"}] >>] @@ ("" :> <<>>)

Atom(op, v) == Obj(op :> v)
Leaf(field, atom) == Obj(field :> atom)

Leaves ==
  {Leaf("id", Atom(op, Num(n))) : op \in Operators \ {"in", "nin"}, n \in {0, 2}}
  \cup {Leaf("name", Atom(op, Str(w))) : op \in {"gt", "lte", "ne"}, w \in {"a", "b"}}
  \cup {Leaf("name", Atom(op, List(<<Str("a"), Str("1")>>))) : op \in {"in", "nin"}}
  \cup {Leaf("id", Obj([gt |-> Num(1), lt |-> Num(3)])), Leaf("age", Atom("lt", Num(2)))}
  \cup {Leaf("id", Atom("eq", Str("1"))), Leaf("name", Atom("eq", Num(1)))}
  \cup {Leaf("id", Num(1)), Leaf("id", Atom("like", Num(1))), Leaf("id", Null)}
  \cup {Leaf("name", Atom(op, Obj("0" :> Str("a")))) : op \in {"in", "nin"}}
  \cup {Leaf("age", Atom("ne", Num(1))), Leaf("age", Atom("nin", List(<<Num(1)>>)))}

One == Leaf("id", Atom("gt", Num(1)))
Two == Leaf("name", Atom("ne", Str("b")))

Filters ==
  Leaves
  \cup {Obj(<<>>), Null, Undefined}
  \cup {Obj(op :> List(l)) : op \in Logical, l \in {<<>>, <<One, Two>>, <<Two, Obj(<<>>)>>}}
  \cup {Obj("or" :> List(<<Obj("and" :> List(<<One, Two>>)), Leaf("id", Atom("lt", Num(2)))>>)),
        Obj("and" :> One), Obj(("and" :> List(<<One>>)) @@ ("id" :> Atom("eq", Num(1))))}

Variables(filter) == Obj("input" :> Obj(("collection" :> Str("c")) @@ ("filter" :> filter)))

MCInputs ==
  {Args("all", Variables(f), Undefined) : f \in Filters}
  \cup {Args(t, v, n) : t \in {"all", "age", "both", ""},
                        v \in {Variables(One), Obj("input" :> Obj("filter" :> One)), Undefined},
                        n \in {Undefined, Str("readAll"), Str("readAge")}}

(* The hooks keep the data of a result and nothing else of it. *)
DataOf(result) ==
  IF result = Undefined THEN Undefined
  ELSE IF Falsy(At(result, "data")) THEN Obj(<<>>) ELSE At(result, "data")

MCAnswer(a) == DataOf(Result(a))

MCLater == {Args("age", Variables(One), Str("readAge")), Args("all", Undefined, Undefined)}

-----------------------------------------------------------------------------
LastCall == calls[Len(calls)]

(* A request that is the only one of its time, and says all that it means,
   shows the selected fields of the documents that its filter means. *)
ShowsWhatIsAsked ==
  mounted /\ ~overlap /\ calls # <<>> /\ Pending = {} /\ error # Len(calls) /\ Clear(LastCall.args)
    => data = At(Expected(LastCall.args), "data")

(* The box has the arguments of a call as they were passed, but for what is
   falsy, and a call that cannot be passed is rejected. *)
ArgumentsArrive ==
  calls # <<>> /\ LastCall.pending =>
    LET a == LastCall.args
    IN  IF CallConverts(a)
          THEN Received(a, FALSE) =
                 [query |-> a.text, operationName |-> a.name, variables |-> OrNull(a.variables)]
          ELSE LastCall.answer = Rejected
=============================================================================
