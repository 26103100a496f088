---------------------------- MODULE DocumentCodec ----------------------------
(***************************************************************************)
(* How a document is written: the document type that a contract's schema    *)
(* gives, the serialization of a document by its type and its reading back, *)
(* and the keys that its values have in the index trees.                    *)
(*                                                                         *)
(* A property name is the sequence of the names on its path. A value is a   *)
(* record of its CBOR kind t and a sequence of integers v: the number, the  *)
(* sign and magnitude of a float (1 is negative), the bytes of a text or a   *)
(* byte string, the elements of an array of booleans, the one inner number   *)
(* of a map.                                                                *)
(***************************************************************************)
EXTENDS Encoding, FiniteSets, SequencesExt

CONSTANTS
    MaxIndexSize,   \* MAX_INDEX_SIZE, the longest key
    InnerName       \* the name of the property inside every map value

Integer(n) == [t |-> "integer", v |-> <<n>>]
Float(s, n) == [t |-> "float", v |-> <<s, n>>]
Text(s) == [t |-> "text", v |-> s]
Bytes(s) == [t |-> "bytes", v |-> s]
Bool(b) == [t |-> "bool", v |-> <<IF b THEN 1 ELSE 0>>]
Array(s) == [t |-> "array", v |-> s]
Map(n) == [t |-> "map", v |-> <<n>>]

-----------------------------------------------------------------------------
(* The document type.                                                       *)

string_to_field_type == {"integer", "number", "boolean", "date"}

Field(type, required) == [type |-> type, required |-> required]
InvalidField == Field("invalid", FALSE)

(* A definition referred to stands for the property that refers to it.      *)
Referred(property, defs) ==
    IF property.type # "none" THEN property
    ELSE IF property.ref \in DOMAIN defs THEN defs[property.ref]
    ELSE [property EXCEPT !.type = "invalid"]

(* The fields a schema property adds: an object adds those of its           *)
(* properties under its own name, any other property itself. Whether a      *)
(* field is required is looked up under the name of its type.               *)
RECURSIVE insert_values(_, _, _, _)
insert_values(name, property, required, defs) ==
    LET p == Referred(property, defs)
        Is(type) == {<<name, Field(type, p.type \in required)>>}
    IN  CASE p.type = "array" ->
                Is(IF p.byteArray THEN "byteArray" ELSE "array")
          [] p.type = "object" ->
                UNION {insert_values(Append(name, k), p.properties[k], required, defs) :
                            k \in DOMAIN p.properties}
          [] p.type = "string" -> Is("string")
          [] p.type \in string_to_field_type -> Is(p.type)
          [] OTHER -> {<<name, InvalidField>>}

(* The system times are required fields when the schema requires them.      *)
WithSystemTimes(fields, required) ==
    fields \cup {<<<<k>>, Field("date", TRUE)>> :
                    k \in required \cap {"$createdAt", "$updatedAt"}}

(* What a map holds under a name, or else a default.                        *)
ValueOr(map, name, default) == IF name \in DOMAIN map THEN map[name] ELSE default

(* The type of the documents of a schema; its own settings go before those  *)
(* of the contract.                                                         *)
from_cbor_value(schema, defs, default_keeps_history, default_mutability) ==
    LET required == ValueOr(schema, "required", {})
        all == WithSystemTimes(
                  UNION {insert_values(<<k>>, schema.properties[k], required, defs) :
                             k \in DOMAIN schema.properties}, required)
    IN  [properties |-> [n \in {f[1] : f \in all} |-> (CHOOSE f \in all : f[1] = n)[2]],
         documents_keep_history |-> ValueOr(schema, "documentsKeepHistory", default_keeps_history),
         documents_mutable |-> ValueOr(schema, "documentsMutable", default_mutability)]

-----------------------------------------------------------------------------
(* The contract, in CBOR a map from names to what they hold.                *)

(* The configuration, with the default of each setting that is not there.   *)
get_mutability(cbor) ==
    [can_be_deleted |-> ValueOr(cbor, "canBeDeleted", FALSE),
     readonly |-> ValueOr(cbor, "readonly", FALSE),
     keeps_history |-> ValueOr(cbor, "keepsHistory", FALSE),
     documents_keep_history_contract_default |->
         ValueOr(cbor, "documentsKeepHistoryContractDefault", FALSE),
     documents_mutable_contract_default |->
         ValueOr(cbor, "documentsMutableContractDefault", TRUE)]

get_definitions(cbor) == ValueOr(cbor, "$defs", [d \in {} |-> d])

get_document_types(cbor, defs, keeps_history, mutability) ==
    [name \in DOMAIN cbor["documents"] |->
        from_cbor_value(cbor["documents"][name], defs, keeps_history, mutability)]

contract_from_cbor(cbor) ==
    LET config == get_mutability(cbor)
    IN  [documents |-> cbor["documents"], defs |-> get_definitions(cbor), config |-> config,
         document_types |->
            get_document_types(cbor, get_definitions(cbor),
                               config.documents_keep_history_contract_default,
                               config.documents_mutable_contract_default)]

(* The contract's own part of the CBOR form: no definitions, no entry.      *)
to_cbor_canonical_map(contract) ==
    [p \in {"documents"} |-> contract.documents]
      @@ [p \in {q \in {"$defs"} : DOMAIN contract.defs # {}} |-> contract.defs]

(* Mutant: the default mutability is not written either.                    *)
contract_to_cbor_NoDefault(contract) ==
    to_cbor_canonical_map(contract)
      @@ [readonly |-> contract.config.readonly,
          keepsHistory |-> contract.config.keeps_history,
          documentsKeepHistoryContractDefault |->
              contract.config.documents_keep_history_contract_default]

(* Drive's form adds the configuration, but for canBeDeleted.               *)
contract_to_cbor(contract) ==
    to_cbor_canonical_map(contract)
      @@ [readonly |-> contract.config.readonly,
          keepsHistory |-> contract.config.keeps_history,
          documentsKeepHistoryContractDefault |->
              contract.config.documents_keep_history_contract_default,
          documentsMutableContractDefault |->
              contract.config.documents_mutable_contract_default]

document_type_for_name(contract, name) == contract.document_types[name]

\* one fixed order of the fields stands for the order of their names
FieldOrder(type) == FoldSet(LAMBDA n, order : Append(order, n), << >>, DOMAIN type)

-----------------------------------------------------------------------------
(* Writing a value with its size.                                           *)

Encoded(b) == [ok |-> TRUE, bytes |-> b]
NotEncoded == [ok |-> FALSE, bytes |-> << >>]

InI64(n) == n \in (0 - Base^Width \div 2) .. (Base^Width \div 2 - 1)
ExistsMarker == Base - 1

(* i64 as f64 and f64::to_be_bytes: the sign bit, then the magnitude.       *)
as_f64(value) ==
    IF value.t = "float" THEN value.v
    ELSE IF value.v[1] < 0 THEN <<1, 0 - value.v[1]>> ELSE <<0, value.v[1]>>

f64_to_be_bytes(f) == to_be_bytes(f[1] * (Base^Width \div 2) + f[2])
f64_from_be_bytes(s) ==
    <<s[1] \div Half, Unsigned(s) % (Base^Width \div 2)>>

WithLength(b) == encode_var_vec(Len(b)) \o b

(* A fixed-width value that is not required is marked as existing.          *)
Marked(required, b) == Encoded(IF required THEN b ELSE <<ExistsMarker>> \o b)

(* A byte array is given as bytes or as an array of numbers that are bytes; *)
(* the third way, base64 text, is not among the values modelled.            *)
IsByteArray(value) ==
    \/ value.t = "bytes"
    \/ value.t = "array" /\ \A i \in DOMAIN value.v : value.v[i] \in Byte

(* An element of an array: here a boolean is one or zero.                   *)
array_encode_value_with_size(element) == <<element>>

encode_value_with_size(type, value, required) ==
    CASE value.t = "null" -> Encoded(<< >>)
      [] type = "string" /\ value.t = "text" -> Encoded(WithLength(value.v))
      [] type = "byteArray" /\ IsByteArray(value) -> Encoded(WithLength(value.v))
      [] type \in {"date", "number"} /\ value.t \in {"integer", "float"} ->
            Marked(required, f64_to_be_bytes(as_f64(value)))
      [] type = "integer" /\ value.t = "integer" /\ InI64(value.v[1]) ->
            Marked(required, to_be_bytes(value.v[1]))
      [] type = "boolean" /\ value.t = "bool" ->
            Encoded(IF value.v = <<1>> THEN <<1>> ELSE <<2>>)
      [] type = "array" /\ value.t = "array" ->
            Encoded(FoldLeft(LAMBDA b, x : b \o array_encode_value_with_size(x),
                             encode_var_vec(Len(value.v)), value.v))
      [] OTHER -> NotEncoded

(* The form for a borrowed value takes the same branches.                   *)
encode_value_ref_with_size(type, value, required) ==
    encode_value_with_size(type, value, required)

-----------------------------------------------------------------------------
(* Reading a value: none or one value, and the bytes left.                  *)

ReadError == [ok |-> FALSE, value |-> << >>, rest |-> << >>]
ReadValue(value, rest) == [ok |-> TRUE, value |-> <<value>>, rest |-> rest]
ReadNothing(rest) == [ok |-> TRUE, value |-> << >>, rest |-> rest]

Skip(s, n) == SubSeq(s, n + 1, Len(s))

(* Mutant: the length is taken for that of the length and the bytes.        *)
read_varint_value_Total(s, kind) ==
    LET n == decode_var(s)
    IN  IF ~ n.ok \/ n.value > Len(s) THEN ReadError
        ELSE IF n.value < n.used THEN ReadNothing(Skip(s, n.used))
        ELSE ReadValue([t |-> kind, v |-> SubSeq(s, n.used + 1, n.value)],
                       Skip(s, n.value))

read_varint_value(s, kind) ==
    LET n == decode_var(s)
    IN  CASE ~ n.ok -> ReadError
          [] n.ok /\ n.value = 0 -> ReadNothing(Skip(s, n.used))
          [] n.ok /\ n.value > Len(s) - n.used -> ReadError
          [] OTHER -> ReadValue([t |-> kind, v |-> SubSeq(s, n.used + 1, n.used + n.value)],
                                Skip(s, n.used + n.value))

(* A fixed-width value, behind its marker when it is not required.          *)
ReadFixed(s, required, Value(_)) ==
    CASE ~ required /\ s = << >> -> ReadError
      [] ~ required /\ s # << >> /\ Head(s) = 0 -> ReadNothing(Tail(s))
      [] OTHER ->
            LET data == IF required THEN s ELSE Tail(s)
            IN  IF Len(data) < Width THEN ReadError
                ELSE ReadValue(Value(SubSeq(data, 1, Width)), Skip(data, Width))

read_from(type, s, required) ==
    CASE type = "string" -> read_varint_value(s, "text")
      [] type = "byteArray" -> read_varint_value(s, "bytes")
      [] type \in {"date", "number"} ->
            ReadFixed(s, required, LAMBDA b : [t |-> "float", v |-> f64_from_be_bytes(b)])
      [] type = "integer" ->
            ReadFixed(s, required, LAMBDA b : Integer(from_be_bytes(b)))
      [] type = "boolean" ->
            IF s = << >> THEN ReadError
            ELSE IF Head(s) = 0 THEN ReadNothing(Tail(s))
            ELSE ReadValue(Bool(Head(s) = 1), Tail(s))
      [] OTHER -> ReadError

-----------------------------------------------------------------------------
(* Documents.                                                               *)

(* serialize and serialize_consume: the identifiers, then each field of the *)
(* type; a field is looked up under its full name among the properties.     *)
SerializeWith(doc, type, Encode(_, _, _)) ==
    LET Put(acc, n) ==
            CASE ~ acc.ok -> acc
              [] acc.ok /\ n \in DOMAIN doc.properties ->
                    LET e == Encode(type[n].type, doc.properties[n], type[n].required)
                    IN  [ok |-> e.ok, bytes |-> acc.bytes \o e.bytes]
              [] acc.ok /\ n \notin DOMAIN doc.properties /\ type[n].required -> NotEncoded
              [] OTHER -> Encoded(Append(acc.bytes, 0))
    IN  FoldLeft(Put, Encoded(doc.id \o doc.owner), FieldOrder(type))

serialize(doc, type) == SerializeWith(doc, type, encode_value_ref_with_size)

serialize_consume(doc, type) == SerializeWith(doc, type, encode_value_with_size)

NoDocument == [ok |-> FALSE]

from_bytes(s, type) ==
    LET Get(acc, n) ==
            IF ~ acc.ok THEN acc
            ELSE LET r == read_from(type[n].type, acc.rest, type[n].required)
                 IN  [ok |-> r.ok, rest |-> r.rest,
                      got |-> acc.got \cup {<<n, x>> : x \in Range(r.value)}]
        end == FoldLeft(Get, [ok |-> TRUE, rest |-> Skip(s, 2 * IdLen), got |-> {}],
                        FieldOrder(type))
    IN  IF Len(s) < 2 * IdLen \/ ~ end.ok THEN NoDocument
        ELSE [ok |-> TRUE, id |-> SubSeq(s, 1, IdLen),
              owner |-> SubSeq(s, IdLen + 1, 2 * IdLen),
              properties |-> [n \in {g[1] : g \in end.got} |->
                                  (CHOOSE g \in end.got : g[1] = n)[2]]]

-----------------------------------------------------------------------------
(* The keys of the index trees.                                             *)

FlipSign(b) == [b EXCEPT ![1] = (@ + Half) % Base]

encode_signed_integer(n) == FlipSign(to_be_bytes(n))

(* A negative number has all its bits flipped, any other its sign bit: the  *)
(* negative zero is not below zero.                                         *)
encode_float(f) ==
    LET b == f64_to_be_bytes(f)
    IN  IF f[1] = 1 /\ f[2] > 0 THEN [i \in 1 .. Width |-> Base - 1 - b[i]]
        ELSE FlipSign(b)

encode_value_for_tree_keys(type, value) ==
    CASE value.t = "null" -> Encoded(<< >>)
      [] type = "string" /\ value.t = "text" ->
            Encoded(IF value.v = << >> THEN <<0>> ELSE value.v)
      [] type \in {"date", "number"} /\ value.t \in {"integer", "float"} ->
            Encoded(encode_float(as_f64(value)))
      [] type = "integer" /\ value.t = "integer" /\ InI64(value.v[1]) ->
            Encoded(encode_signed_integer(value.v[1]))
      [] type = "byteArray" /\ IsByteArray(value) -> Encoded(value.v)
      [] type = "boolean" /\ value.t = "bool" -> Encoded(value.v)
      [] OTHER -> NotEncoded

serialize_value_for_key(type, name, value) ==
    IF name \notin DOMAIN type THEN NotEncoded
    ELSE LET e == encode_value_for_tree_keys(type[name].type, value)
         IN  IF Len(e.bytes) > MaxIndexSize THEN NotEncoded ELSE e

(* The value at a path: the property the path begins with and, for a longer *)
(* path, what the map holds under the rest of it.                           *)
ValuesAtPath(doc, name) ==
    LET top == <<name[1]>>
    IN  IF top \notin DOMAIN doc.properties THEN {}
        ELSE IF Len(name) = 1 THEN {doc.properties[top]}
        ELSE {Integer(doc.properties[top].v[1]) : k \in {name[2]} \cap {InnerName}}

(* The keys, at most one, that a document has under a property.             *)
get_raw_for_document_type(doc, name, type) ==
    CASE name = <<"$id">> -> {Encoded(doc.id)}
      [] name = <<"$ownerId">> -> {Encoded(doc.owner)}
      [] OTHER -> {serialize_value_for_key(type, name, x) : x \in ValuesAtPath(doc, name)}
=============================================================================
