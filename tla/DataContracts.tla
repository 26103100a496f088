---------------------------- MODULE DataContracts ----------------------------
(***************************************************************************)
(* Data contracts and what an update may change in them                    *)
(* (dpp/src/data_contract).  A contract has a version, definitions that    *)
(* properties of its documents may refer to, and a JSON schema per         *)
(* document type.  Of a schema the model keeps the properties with their   *)
(* definitions, the list of required ones and the list of indices; the     *)
(* rest of a contract (its id, its owner and so on) is base.               *)
(*                                                                         *)
(* A property is defined in place, by the name of its type, or refers to a *)
(* definition of the contract: Reference(d).                               *)
(***************************************************************************)
EXTENDS Integers, Sequences, SequencesExt, FiniteSets, FiniteSetsExt, Functions

CONSTANTS
  TypeValues,      \* values of each JSON type, as a function
  Indexable,       \* JSON types that an index admits: strings and byte arrays of
                   \* limited length, numbers and booleans
  VersionModulus   \* bound: versions are below it; u32 in the code

ASSUME TypesAssumption == Indexable \subseteq DOMAIN TypeValues
ASSUME VersionAssumption == VersionModulus \in Nat \ {0, 1}

Reference(d) == [ref |-> d]

ResolveReference(contract, definition) ==
  IF "ref" \in DOMAIN definition THEN contract.defs[definition.ref] ELSE definition

Defined(type) == [type |-> type]

-----------------------------------------------------------------------------
(* JSON schema as far as the model needs it: what documents of a type may  *)
(* hold.  Additional properties are not admitted by the schema of          *)
(* contracts.  "$createdAt" and "$updatedAt" may be required; documents    *)
(* keep them apart from their data.                                        *)

SystemTimes == {"$createdAt", "$updatedAt"}
BaseRequired == {"$id", "$ownerId"}

RequiredFields(schema) == ToSet(schema.required) \ SystemTimes

Dated(schema) == SystemTimes \subseteq ToSet(schema.required)

Conforms(contract, type, data) ==
  LET schema == contract.documents[type] IN
  /\ DOMAIN data \subseteq DOMAIN schema.properties
  /\ RequiredFields(schema) \subseteq DOMAIN data
  /\ \A p \in DOMAIN data :
       data[p] \in TypeValues[ResolveReference(contract, schema.properties[p]).type]

-----------------------------------------------------------------------------
(* The validator of contracts: references and indices.  What it leaves to  *)
(* the meta schema (limits of lengths, patterns, nesting) is not modelled. *)

UNIQUE_INDEX_LIMIT == 3

\* An index of a schema, and what the meta schema of contracts asks of schemas:
\* names without "$", and at least one property in an index.
IndexDefinition == [name : STRING, unique : BOOLEAN, properties : Seq(STRING)]

WellFormed(contract) ==
  \A type \in DOMAIN contract.documents :
    LET schema == contract.documents[type] IN
    /\ DOMAIN schema.properties \cap (SystemTimes \cup BaseRequired) = {}
    /\ schema.required \in Seq(STRING)
    /\ schema.indices \in Seq(IndexDefinition)
    /\ \A k \in DOMAIN schema.indices : schema.indices[k].properties # <<>>

UniqueIndices(schema) == {i \in ToSet(schema.indices) : i.unique}

validate_index_duplicates(schema) ==
  \A i, j \in DOMAIN schema.indices : i # j => schema.indices[i].name # schema.indices[j].name

validate_max_unique_indices(schema) ==
  Cardinality({i \in DOMAIN schema.indices : schema.indices[i].unique}) <= UNIQUE_INDEX_LIMIT

validate_no_system_indices(index) == "$id" \notin ToSet(index.properties)

UserProperties(index) == ToSet(index.properties) \ (SystemTimes \cup {"$ownerId"})

validate_not_defined_properties(schema, index) ==
  UserProperties(index) \subseteq DOMAIN schema.properties

\* A property that refers to a definition has no type here, and passes.
validate_property_definition(definition) ==
  "type" \in DOMAIN definition => definition.type \in Indexable

\* The properties of a compound index are all required or all optional.
\* Indices over the same properties are found among compound ones only.
validate_compound_index(schema, k) ==
  LET index == schema.indices[k]
      required == ToSet(schema.required) \cup BaseRequired IN
  Len(index.properties) > 1 =>
    /\ \/ ToSet(index.properties) \subseteq required
       \/ ToSet(index.properties) \cap required = {}
    /\ \A j \in DOMAIN schema.indices :
         j # k => schema.indices[j].properties # index.properties

validate_index_definitions(schema) ==
  \A k \in DOMAIN schema.indices :
    LET index == schema.indices[k] IN
    /\ validate_no_system_indices(index)
    /\ validate_not_defined_properties(schema, index)
    /\ \A p \in UserProperties(index) : validate_property_definition(schema.properties[p])
    /\ validate_compound_index(schema, k)

\* The walk through a contract that measures its depth follows references and
\* takes the second one to a definition for a cycle.
validate_data_contract_max_depth(contract) ==
  \A d \in DOMAIN contract.defs :
    Cardinality({q \in UNION {{type} \X DOMAIN contract.documents[type].properties :
                                type \in DOMAIN contract.documents} :
                   contract.documents[q[1]].properties[q[2]] = Reference(d)}) <= 1

DataContractValidator(contract) ==
  /\ validate_data_contract_max_depth(contract)
  /\ \A type \in DOMAIN contract.documents :
       LET schema == contract.documents[type] IN
       /\ validate_index_duplicates(schema)
       /\ validate_max_unique_indices(schema)
       /\ validate_index_definitions(schema)

-----------------------------------------------------------------------------
(* The indices of an update.  Indices are compared by name.                *)

IndexByName(schema, name) ==
  {i \in ToSet(schema.indices) : i.name = name}

IndexNames(schema) == {i.name : i \in ToSet(schema.indices)}

\* mutant: a unique index may get further properties.
ChangedOldUniqueIndex_Extended(old, new) ==
  \E i \in UniqueIndices(old) :
    ~ \E j \in IndexByName(new, i.name) : IsPrefix(i.properties, j.properties)

ChangedOldUniqueIndex(old, new) ==
  \E i \in UniqueIndices(old) : i \notin IndexByName(new, i.name)

\* Keys of a schema itself.  The check that a property appended to an index
\* is not in the existing schema looks its name up among them, and not among
\* the properties of the schema.
SchemaKeywords == {"type", "properties", "required", "indices", "additionalProperties"}

\* An index with fewer properties than before ends the validation in a panic.
WronglyUpdatedNonUniqueIndex(old, new) ==
  \E i \in ToSet(old.indices) \ UniqueIndices(old) :
    \E j \in IndexByName(new, i.name) :
      \/ ~ IsPrefix(i.properties, j.properties)
      \/ \E k \in (Len(i.properties) + 1) .. Len(j.properties) :
           j.properties[k] \in SchemaKeywords

NewIndices(old, new) == {i \in ToSet(new.indices) : i.name \notin IndexNames(old)}

NewUniqueIndex(old, new) == \E i \in NewIndices(old, new) : i.unique

PossibleSequences(schema) ==
  UNION {Prefixes(i.properties) : i \in ToSet(schema.indices)} \ {<<>>}

WronglyConstructedNewIndex(old, new) ==
  LET indexed == UNION {ToSet(i.properties) : i \in ToSet(old.indices)} IN
  \E i \in NewIndices(old, new) :
    LET known == Cardinality({k \in DOMAIN i.properties : i.properties[k] \in indexed}) IN
    known > 0 /\ SubSeq(i.properties, 1, known) \notin PossibleSequences(old)

\* A document type that is left out is an error of the validation.
IndicesBackwardCompatible(old, new) ==
  \A type \in DOMAIN old.documents :
    /\ type \in DOMAIN new.documents
    /\ LET before == old.documents[type]
           after == new.documents[type] IN
       /\ ~ ChangedOldUniqueIndex(before, after)
       /\ ~ WronglyUpdatedNonUniqueIndex(before, after)
       /\ ~ NewUniqueIndex(before, after)
       /\ ~ WronglyConstructedNewIndex(before, after)

-----------------------------------------------------------------------------
(* The schema of a type is compared with the new one by a JSON patch, in   *)
(* which arrays differ position by position.  A removal below "required"   *)
(* is admitted, and an addition below "properties", be it the properties   *)
(* of the schema or those of an index.  Any other difference is refused.   *)

PropertiesCompatible(old, new) ==
  /\ \A p \in DOMAIN old.properties :
       p \in DOMAIN new.properties /\ new.properties[p] = old.properties[p]
  /\ Len(new.indices) = Len(old.indices)
  /\ \A k \in DOMAIN old.indices :
       /\ new.indices[k].name = old.indices[k].name
       /\ new.indices[k].unique = old.indices[k].unique
       /\ IsPrefix(old.indices[k].properties, new.indices[k].properties)

is_operation_move_remove_compatible(old, new) == IsPrefix(new.required, old.required)

validate_schema_compatibility(old, new) ==
  PropertiesCompatible(old, new) /\ is_operation_move_remove_compatible(old, new)

\* Versions are u32: the difference wraps around in a release build.  In a
\* debug build a smaller version panics, and is not admitted either.
VersionFollows(old, new) == (new - old) % VersionModulus = 1

\* The update transition passes basic and state validation.  The definitions
\* of the contract are compared with nothing.
UpdateAdmitted(old, new) ==
  /\ DataContractValidator(new)
  /\ VersionFollows(old.version, new.version)
  /\ new.base = old.base
  /\ IndicesBackwardCompatible(old, new)
  /\ \A type \in DOMAIN old.documents :
       validate_schema_compatibility(old.documents[type], new.documents[type])
=============================================================================
