----------------------------- MODULE OrbitFilter -----------------------------
(***************************************************************************)
(* Which documents of a collection a filter selects, as orbit-filter.ts    *)
(* computes it from a JSON filter, and what a filter means.                *)
(*                                                                         *)
(* A document is a function from its fields to numbers and strings.  Of    *)
(* the conversions of JavaScript's comparisons those between numbers,      *)
(* strings and booleans are kept; strings are compared by their place in   *)
(* Words, and a string is a number as Numeral says.                        *)
(***************************************************************************)
EXTENDS GraphSchema, Integers

CONSTANTS
  Words,  \* the strings that occur, in their order
  Numeral \* the numbers that some of them denote: a function

Logical   == {"and", "or"}
Operators == {"ne", "gt", "lt", "gte", "lte", "eq", "in", "nin"}

Falsy(v) == v \in {Undefined, Null, Num(0), Str(""), Bool(FALSE)}

\* Object.keys() and Object.entries() of anything that has them.
Keys(v) ==
  CASE v[1] = "object" -> DOMAIN v[2]
    [] v[1] = "list" -> {ToString(i) : i \in DOMAIN v[2]}
    [] v[1] = "string" /\ v # Str("") -> {"0"}
    [] OTHER -> {}

Enumerable(v) == v \notin {Undefined, Null}

-----------------------------------------------------------------------------
(* Comparisons of a field with the value of a filter. *)
IsNumber(v) == v[1] \in {"number", "boolean"} \/ (v[1] = "string" /\ v[2] \in DOMAIN Numeral)

ToNumber(v) ==
  CASE v[1] = "number"  -> v[2]
    [] v[1] = "boolean" -> IF v[2] THEN 1 ELSE 0
    [] v[1] = "string"  -> Numeral[v[2]]

Place(word) == CHOOSE i \in DOMAIN Words : Words[i] = word

Before(a, b) ==
  IF a[1] = "string" /\ b[1] = "string" THEN Place(a[2]) < Place(b[2])
  ELSE IsNumber(a) /\ IsNumber(b) /\ ToNumber(a) < ToNumber(b)

Equal(a, b) ==
  \/ a = b
  \/ a[1] # b[1] /\ IsNumber(a) /\ IsNumber(b) /\ ToNumber(a) = ToNumber(b)

Among(a, list) == list[1] = "list" /\ \E i \in DOMAIN list[2] : list[2][i] = a

Compare(op, a, b) ==
  CASE op = "ne"  -> ~Equal(a, b)
    [] op = "gt"  -> Before(b, a)
    [] op = "lt"  -> Before(a, b)
    [] op = "gte" -> Before(b, a) \/ Equal(a, b)
    [] op = "lte" -> Before(a, b) \/ Equal(a, b)
    [] op = "eq"  -> Equal(a, b)
    [] op = "in"  -> Among(a, b)
    [] op = "nin" -> b[1] = "list" /\ ~Among(a, b)

-----------------------------------------------------------------------------
(* A node with a key that is not logical is a leaf, all of it. *)
IsLeaf(node) == \E key \in Keys(node) : key \notin Logical

(* evaluate(): it throws of a value that is falsy, of an operator it does not
   know, and of an object in the place of a list, which has no indexOf().  The
   last only where no operator before it has failed: no such filter that the
   runs use has another operator. *)
BadLeaf(leaf) ==
  \E field \in Keys(leaf) :
    \/ ~Enumerable(At(leaf, field))
    \/ \E op \in Keys(At(leaf, field)) :
         LET v == At(At(leaf, field), op)
         IN  op \notin Operators \/ Falsy(v) \/ (op \in {"in", "nin"} /\ v[1] = "object")

(* Mutant: reduce() without prev. *)
EvaluateAny(leaf, doc) ==
  \A field \in Keys(leaf) : \E op \in Operators :
    /\ Has(At(leaf, field), op)
    /\ Compare(op, IF field \in DOMAIN doc THEN doc[field] ELSE Undefined, At(At(leaf, field), op))

Evaluate(leaf, doc) ==
  \A field \in Keys(leaf), op \in Operators :
    Has(At(leaf, field), op) =>
      Compare(op, IF field \in DOMAIN doc THEN doc[field] ELSE Undefined, At(At(leaf, field), op))

RECURSIVE BadFilter(_), Filter(_, _)

(* The operator of a node is its first logical key. *)
Root(node) == CHOOSE key \in Keys(node) : key \in Logical

Children(node) == At(node, Root(node))[2]

(* Does _reGetFilter(), or the filter it returns, throw? *)
BadFilter(node) ==
  \/ ~Enumerable(node)
  \/ /\ Keys(node) # {}
     /\ IF IsLeaf(node) THEN BadLeaf(node)
        ELSE \/ At(node, Root(node))[1] # "list"
             \/ \E i \in DOMAIN Children(node) : BadFilter(Children(node)[i])

Filter(node, doc) ==
  IF Keys(node) = {} THEN TRUE
  ELSE IF IsLeaf(node) THEN Evaluate(node, doc)
  ELSE IF Root(node) = "or" THEN \E i \in DOMAIN Children(node) : Filter(Children(node)[i], doc)
  ELSE \A i \in DOMAIN Children(node) : Filter(Children(node)[i], doc)

(* db.query() of the documents; the filter only throws when there is one. *)
QueryThrows(node, docs) == ~Enumerable(node) \/ (docs # <<>> /\ BadFilter(node))

Query(node, docs) == SelectSeq(docs, LAMBDA doc : Filter(node, doc))
=============================================================================
