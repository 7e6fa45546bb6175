------------------------------ MODULE GraphCall ------------------------------
(***************************************************************************)
(* What a graphql query comes to: from the arguments an application calls  *)
(* with, over the messages of the graph protocol, to the resolver of the   *)
(* box, its filter and the selection of fields, and back.                  *)
(*                                                                         *)
(* The documents of the collection are given, for BoxGraph has what        *)
(* changes them.  A query document is abstracted to its operations, each a *)
(* read of $input with the fields it selects; graphql parses and executes  *)
(* it, and the stream carries each message in one piece.                   *)
(***************************************************************************)
EXTENDS OrbitFilter, FiniteSets

CONSTANTS
  Texts,    \* the operations of each query text: [name, fields]
  Documents \* the documents of the collection

\* The arguments of a call.
Args(text, variables, name) == [text |-> text, variables |-> variables, name |-> name]

-----------------------------------------------------------------------------
(* graphql() of the client.  What is falsy is sent as null. *)
OrNull(json) == IF Falsy(json) THEN Null ELSE json

CallConverts(a) == IsJson(OrNull(a.variables))

RequestBytes(a, subscribe) ==
  ToBinary("Request", RequestFromJson(a.text, OrNull(a.variables), OrNull(a.name), subscribe))

(* The resolution method of the box has the request as JSON again. *)
Received(a, subscribe) == RequestToJson(FromBinary("Request", RequestBytes(a, subscribe)))

-----------------------------------------------------------------------------
(* execute() of graphql: the operation asked for, its variables. *)
OperationOf(r) ==
  LET ops == Texts[r.query]
      named == {i \in DOMAIN ops : r.operationName = Str(ops[i].name)}
  IN  IF r.operationName # Undefined THEN named
      ELSE IF Len(ops) = 1 THEN {1} ELSE {}

InputOf(r) == At(r.variables, "input")

(* The read resolver has an input with a collection, and a filter that does
   not throw. *)
Executes(r) ==
  /\ OperationOf(r) # {}
  /\ At(InputOf(r), "collection")[1] = "string"
  /\ ~QueryThrows(At(InputOf(r), "filter"), Documents)

(* The fields of the first selection of the first operation. *)
getFields(r) == Texts[r.query][1].fields

selector(r, docs) ==
  List([i \in DOMAIN docs |-> Obj([f \in getFields(r) \cap DOMAIN docs[i] |-> docs[i][f]])])

(* An error is what execute() reports first. *)
ExecuteAndSelect(r) ==
  IF Executes(r)
    THEN ResultFromJson("data", Obj("read" :> selector(r, Query(At(InputOf(r), "filter"), Documents))))
    ELSE ResultFromJson("error", Obj("message" :> Str("reason")))

(* A query that cannot be parsed is answered with 'Empty response', which is
   no Result. *)
Parses(r) == r.query # ""

-----------------------------------------------------------------------------
(* What graphql() of the client resolves to, or Undefined where it rejects. *)
Result(a) ==
  IF ~CallConverts(a) \/ ~Parses(Received(a, FALSE)) THEN Undefined
  ELSE ResultToJson(FromBinary("Result", ToBinary("Result", ExecuteAndSelect(Received(a, FALSE)))))

-----------------------------------------------------------------------------
(* What a filter means: a leaf compares fields with values of their type, and a
   field that a document does not have is different from all of them and in no
   order with any; the rest is propositional logic. *)
RECURSIVE WellFormed(_), Selects(_, _)

Comparable(doc, field, op, v) ==
  /\ op \in Operators /\ ~Falsy(v)
  /\ IF op \in {"in", "nin"} THEN v[1] = "list"
     ELSE v[1] \in {"number", "string"} /\ (field \in DOMAIN doc => v[1] = doc[field][1])

WellFormed(node) ==
  /\ node[1] = "object"
  /\ \/ /\ DOMAIN node[2] \cap Logical = {}
        /\ \A field \in DOMAIN node[2] : node[2][field][1] = "object"
        /\ \A i \in DOMAIN Documents, field \in DOMAIN node[2] : \A op \in DOMAIN node[2][field][2] :
             Comparable(Documents[i], field, op, node[2][field][2][op])
     \/ /\ Cardinality(DOMAIN node[2]) = 1 /\ DOMAIN node[2] \subseteq Logical
        /\ \A key \in DOMAIN node[2] :
             node[2][key][1] = "list" /\ \A i \in DOMAIN node[2][key][2] : WellFormed(node[2][key][2][i])

\* -1, 0, 1 as a value is less than, equal to or greater than another of its type.
Order(a, b) ==
  LET n(v) == IF v[1] = "number" THEN v[2] ELSE Place(v[2])
  IN  IF n(a) < n(b) THEN -1 ELSE IF n(a) = n(b) THEN 0 ELSE 1

Means == [gt |-> {1}, gte |-> {0, 1}, lt |-> {-1}, lte |-> {-1, 0}, eq |-> {0}, ne |-> {-1, 1}]

Selects(node, doc) ==
  \A key \in DOMAIN node[2] :
    LET v == node[2][key]
    IN  CASE key = "and" -> \A i \in DOMAIN v[2] : Selects(v[2][i], doc)
          [] key = "or"  -> \E i \in DOMAIN v[2] : Selects(v[2][i], doc)
          [] OTHER -> \A op \in DOMAIN v[2] :
               LET c == v[2][op]
               IN  CASE key \notin DOMAIN doc -> op \in {"ne", "nin"}
                     [] op = "in"  -> doc[key] \in Range(c[2])
                     [] op = "nin" -> doc[key] \notin Range(c[2])
                     [] OTHER      -> Order(doc[key], c) \in Means[op]

\* A call whose answer is told by its arguments alone.
Clear(a) ==
  /\ a.text # "" /\ Len(Texts[a.text]) = 1
  /\ a.name \in {Undefined, Str(Texts[a.text][1].name)}
  /\ At(At(a.variables, "input"), "collection")[1] = "string"
  /\ WellFormed(At(At(a.variables, "input"), "filter"))

Expected(a) ==
  LET docs == SelectSeq(Documents, LAMBDA doc : Selects(At(At(a.variables, "input"), "filter"), doc))
      fields == Texts[a.text][1].fields
  IN  Obj("data" :> Obj("read" :>
        List([i \in DOMAIN docs |-> Obj([f \in fields \cap DOMAIN docs[i] |-> docs[i][f]])])))
=============================================================================
