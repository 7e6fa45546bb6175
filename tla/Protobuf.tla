------------------------------ MODULE Protobuf ------------------------------
(***************************************************************************)
(* What the generated classes of a protobuf schema write and read.  The    *)
(* code of every class is the same up to its fields, so a class is the     *)
(* sequence of its fields, and one writer and one reader go over it.       *)
(*                                                                         *)
(* A message is a function from the names of the fields it has to their    *)
(* values; of a oneof it has at most one field.  A wire is a sequence of   *)
(* numbered fields, a message in it again a wire; how scalars are packed   *)
(* into bytes is left out.                                                 *)
(***************************************************************************)
EXTENDS Naturals, Sequences, SequencesExt, TLC

CONSTANT Schema \* the fields of each type, by its name

IsMessage(f) == f.T \in DOMAIN Schema

\* A field that is always there, and not written when it has this value.
Default(f) == IF f.T = "string" THEN "" ELSE IF f.T = "bool" THEN FALSE ELSE 0

FieldsOf(type, label) == {f \in Range(Schema[type]) : f.label = label}

Named(type, label) == {f.name : f \in FieldsOf(type, label)}

Create(type) ==
  [n \in Named(type, "plain") |-> Default(CHOOSE f \in FieldsOf(type, "plain") : f.name = n)]
  @@ [n \in Named(type, "repeated") |-> <<>>]
  @@ [n \in Named(type, "map") |-> << >>]

\* Fields with numbers the schema does not know are kept, and written again.
Unknown(m) == IF "unknown" \in DOMAIN m THEN m["unknown"] ELSE <<>>

RECURSIVE Write(_, _), Read(_, _, _)

Written(f, v) == <<[no |-> f.no, data |-> IF IsMessage(f) THEN Write(f.T, v) ELSE v]>>

\* An entry of a map is a message with a key and a value.
WriteEntry(f, key, v) ==
  [no |-> f.no, data |-> <<[no |-> 1, data |-> key], [no |-> 2, data |-> Write(f.T, v)]>>]

WriteField(m, f) ==
  CASE f.label = "plain" -> IF m[f.name] = Default(f) THEN <<>> ELSE Written(f, m[f.name])
    [] f.label = "repeated" -> FlattenSeq([i \in DOMAIN m[f.name] |-> Written(f, m[f.name][i])])
    [] f.label = "map" ->
         LET keys == SetToSeq(DOMAIN m[f.name])
         IN  [i \in DOMAIN keys |-> WriteEntry(f, keys[i], m[f.name][keys[i]])]
    [] OTHER -> IF f.name \in DOMAIN m THEN Written(f, m[f.name]) ELSE <<>>

Write(type, m) ==
  FlattenSeq([i \in DOMAIN Schema[type] |-> WriteField(m, Schema[type][i])]) \o Unknown(m)

\* A message goes on where an earlier piece of it ended.
ReadValue(f, m, w) ==
  IF ~IsMessage(f) THEN w.data
  ELSE Read(f.T, w.data, IF f.name \in DOMAIN m THEN m[f.name] ELSE Create(f.T))

\* The last key and the last value of an entry count; either may be missing.
ReadEntry(f, w) ==
  LET parts(n) == SelectSeq(w.data, LAMBDA p : p.no = n)
      key == IF parts(1) = <<>> THEN "" ELSE Last(parts(1)).data
      v   == IF parts(2) = <<>> THEN Create(f.T) ELSE Read(f.T, Last(parts(2)).data, Create(f.T))
  IN  key :> v

ReadField(type, m, w) ==
  LET known == {f \in Range(Schema[type]) : f.no = w.no}
      f == CHOOSE g \in known : TRUE
  IN  IF known = {} THEN ("unknown" :> Append(Unknown(m), w)) @@ m
      ELSE CASE f.label = "oneof" ->
                  (f.name :> ReadValue(f, m, w))
                  @@ [n \in DOMAIN m \ Named(type, "oneof") |-> m[n]]
             [] f.label = "repeated" ->
                  [m EXCEPT ![f.name] = Append(@, Read(f.T, w.data, Create(f.T)))]
             [] f.label = "map" -> [m EXCEPT ![f.name] = ReadEntry(f, w) @@ @]
             [] OTHER -> (f.name :> ReadValue(f, m, w)) @@ m

Read(type, wire, m) ==
  IF wire = <<>> THEN m ELSE Read(type, Tail(wire), ReadField(type, m, Head(wire)))

ToBinary(type, m) == Write(type, m)
FromBinary(type, wire) == Read(type, wire, Create(type))
=============================================================================
