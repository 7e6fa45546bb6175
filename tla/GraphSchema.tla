----------------------------- MODULE GraphSchema -----------------------------
(***************************************************************************)
(* The messages of the graph protocol: a JSON value as a google.protobuf   *)
(* Value, and the request and the result that carry such values.           *)
(*                                                                         *)
(* A JSON value is a pair of its type and its content; an object is a      *)
(* function from its keys.  An operation that throws has no value here:    *)
(* the operators named after what they check say when it does not throw.   *)
(***************************************************************************)
EXTENDS Sequences, TLC

Undefined == <<"undefined">>
Null      == <<"null">>
Num(n)    == <<"number", n>>
Str(s)    == <<"string", s>>
Bool(b)   == <<"boolean", b>>
List(s)   == <<"list", s>>
Obj(f)    == <<"object", f>>

Has(json, key) == json[1] = "object" /\ key \in DOMAIN json[2]
At(json, key)  == IF Has(json, key) THEN json[2][key] ELSE Undefined

F(no, name, label, T) == [no |-> no, name |-> name, label |-> label, T |-> T]

StructType == <<F(1, "fields", "map", "Value")>>

ValueType ==
  << F(1, "nullValue", "oneof", "enum"),     F(2, "numberValue", "oneof", "double"),
     F(3, "stringValue", "oneof", "string"), F(4, "boolValue", "oneof", "bool"),
     F(5, "structValue", "oneof", "Struct"), F(6, "listValue", "oneof", "ListValue") >>

ListValueType == <<F(1, "values", "repeated", "Value")>>

RequestType ==
  << F(1, "query", "plain", "string"), F(2, "variableValues", "message", "Value"),
     F(3, "operationName", "plain", "string"), F(4, "subscribe", "plain", "bool") >>

ResultType == <<F(1, "data", "oneof", "Value"), F(2, "error", "oneof", "Value")>>

GraphTypes == [Struct |-> StructType, Value |-> ValueType, ListValue |-> ListValueType,
               Request |-> RequestType, Result |-> ResultType]

INSTANCE Protobuf WITH Schema <- GraphTypes

-----------------------------------------------------------------------------
RECURSIVE IsJson(_), ValueFromJson(_), HasKind(_), ValueToJson(_)

(* fromJson() throws of a value that is undefined, however deep it is. *)
IsJson(json) ==
  CASE json[1] = "undefined" -> FALSE
    [] json[1] \in {"list", "object"} -> \A k \in DOMAIN json[2] : IsJson(json[2][k])
    [] OTHER -> TRUE

StructFromJson(json) == [fields |-> [k \in DOMAIN json[2] |-> ValueFromJson(json[2][k])]]

ListFromJson(json) == [values |-> [i \in DOMAIN json[2] |-> ValueFromJson(json[2][i])]]

ValueFromJson(json) ==
  CASE json[1] = "null"    -> "nullValue" :> 0
    [] json[1] = "number"  -> "numberValue" :> json[2]
    [] json[1] = "string"  -> "stringValue" :> json[2]
    [] json[1] = "boolean" -> "boolValue" :> json[2]
    [] json[1] = "list"    -> "listValue" :> ListFromJson(json)
    [] json[1] = "object"  -> "structValue" :> StructFromJson(json)

(* toJson() throws of a value without a kind, however deep it is. *)
HasKind(v) ==
  /\ DOMAIN v \cap Named("Value", "oneof") # {}
  /\ "structValue" \in DOMAIN v => \A k \in DOMAIN v.structValue.fields : HasKind(v.structValue.fields[k])
  /\ "listValue" \in DOMAIN v => \A i \in DOMAIN v.listValue.values : HasKind(v.listValue.values[i])

StructToJson(s) == Obj([k \in DOMAIN s.fields |-> ValueToJson(s.fields[k])])

ListToJson(l) == List([i \in DOMAIN l.values |-> ValueToJson(l.values[i])])

ValueToJson(v) ==
  CASE "nullValue" \in DOMAIN v   -> Null
    [] "numberValue" \in DOMAIN v -> Num(v.numberValue)
    [] "stringValue" \in DOMAIN v -> Str(v.stringValue)
    [] "boolValue" \in DOMAIN v   -> Bool(v.boolValue)
    [] "listValue" \in DOMAIN v   -> ListToJson(v.listValue)
    [] "structValue" \in DOMAIN v -> StructToJson(v.structValue)

-----------------------------------------------------------------------------
(* Mutant: the operation name is not passed. *)
RequestUnnamed(query, variables, name, subscribe) ==
  [query |-> query, operationName |-> "", subscribe |-> subscribe,
   variableValues |-> ValueFromJson(variables)]

(* The reflection of the runtime: an operation name that is null is not set,
   a default value is not in the JSON of a message, a oneof that is null is
   left unset. *)
RequestFromJson(query, variables, name, subscribe) ==
  [query |-> query, operationName |-> IF name = Null THEN "" ELSE name[2],
   subscribe |-> subscribe, variableValues |-> ValueFromJson(variables)]

RequestToJson(m) ==
  [query         |-> m.query,
   operationName |-> IF m.operationName = "" THEN Undefined ELSE Str(m.operationName),
   variables     |-> IF "variableValues" \in DOMAIN m THEN ValueToJson(m.variableValues) ELSE Undefined]

ResultFromJson(kind, json) == IF json = Null THEN << >> ELSE kind :> ValueFromJson(json)

ResultToJson(m) ==
  Obj([k \in DOMAIN m \cap {"data", "error"} |-> ValueToJson(m[k])])
=============================================================================
