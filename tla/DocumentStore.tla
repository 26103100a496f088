---------------------------- MODULE DocumentStore ----------------------------
(***************************************************************************)
(* The storage of the documents of one type in Drive                       *)
(* (drive/src/drive/document): the primary storage, by document id, with   *)
(* or without history, and one tree per index whose paths alternate        *)
(* property names and values and end in references to documents.           *)
(*                                                                         *)
(*   a/<value of a>/b/<value of b>/0        the reference of a unique      *)
(*                                          index                          *)
(*   a/<value of a>/b/<value of b>/0/<id>   a reference of any other       *)
(*                                          index                          *)
(*                                                                         *)
(* A document that lacks a property of a unique index has its reference in *)
(* either place: an insert puts it below the tree 0 when any property of   *)
(* the index is empty, an update only when all of them are.                *)
(*                                                                         *)
(* Paths are relative to the tree of the document type.  An operation      *)
(* gathers changes to GroveDB in a batch, looking at the state before the  *)
(* batch, and applies the batch as a whole; when any part of it fails      *)
(* nothing is changed.  One step is one operation that succeeds.           *)
(*                                                                         *)
(* Every name, value and key of a path is a byte string; here a string.    *)
(***************************************************************************)
EXTENDS Integers, FiniteSets, Sequences, SequencesExt, Functions, TLC

CONSTANTS
  Ids,            \* document ids
  Properties,     \* indexed properties
  Values,         \* values of a property
  Empty,          \* the empty byte string: the document lacks the property
  NoDocument,     \* nothing is stored under an id
  DocumentTypes,  \* [indices, mutable, keepsHistory]
  MaxTime,        \* bound: block times
  MaxCarried      \* bound: documents stored when a block ends

Data == [Properties -> Values]

\* What primary storage holds of a document: items by time, the latest one's key.
Storage == [items : UNION {[S -> Data] : S \in SUBSET (0 .. MaxTime)}, latest : 0 .. MaxTime]

Index == [properties : Seq(Properties), unique : BOOLEAN]
DocumentType == [indices : Seq(Index), mutable : BOOLEAN, keepsHistory : BOOLEAN]

\* An index has a property, and none twice; the validator of data contracts
\* refuses indices with the same properties.
WellFormedIndices(is) ==
  /\ \A i \in DOMAIN is : is[i].properties # <<>> /\ IsInjective(is[i].properties)
  /\ \A i, j \in DOMAIN is : is[i].properties = is[j].properties => i = j

ASSUME PathAssumption == /\ Empty \in Values /\ "0" \notin Properties
ASSUME TypeAssumption == \A t \in DocumentTypes :
                           t \in DocumentType /\ WellFormedIndices(t.indices)
ASSUME DocumentAssumption == NoDocument \notin Data \cup Storage /\ IsFiniteSet(Ids)
ASSUME BoundAssumption == MaxTime \in Nat \ {0}

VARIABLES
  type,     \* the document type, chosen by the contract and never changed
  primary,  \* primary storage: items by time and the key of the latest one
  trees,    \* paths of the trees below the document type's tree
  refs,     \* references, from paths to document ids
  now       \* time of the block

vars == <<type, primary, trees, refs, now>>

Present(id) == primary[id] # NoDocument

\* The document under an id: with history, the reference at key 0 leads to it.
Current(id) == IF Present(id) THEN primary[id].items[primary[id].latest] ELSE NoDocument

-----------------------------------------------------------------------------
(* Index paths.                                                            *)

\* The name and the value of each property in turn.
IndexPath(properties, data) ==
  [k \in 1 .. 2 * Len(properties) |->
     LET p == properties[(k + 1) \div 2] IN IF k % 2 = 1 THEN p ELSE data[p]]

\* The path and all trees above it, except the tree of the top property,
\* which was inserted with the contract.
Levels(path) == {SubSeq(path, 1, k) : k \in 2 .. Len(path)}

AnyFieldEmpty(index, data) == \E k \in DOMAIN index.properties : data[index.properties[k]] = Empty
AllFieldsEmpty(index, data) == \A k \in DOMAIN index.properties : data[index.properties[k]] = Empty

Terminal(path) == Append(path, "0")

-----------------------------------------------------------------------------
(* A batch: the trees and references as they will be, and whether all      *)
(* operations so far succeeded.                                            *)

NoChange == [trees |-> trees, refs |-> refs, ok |-> TRUE]

\* grove_has_raw looks at the state before the batch.
HasRaw(path) == path \in trees \/ path \in DOMAIN refs

Nodes(b) == b.trees \cup DOMAIN b.refs
Children(b, path) == {q \in Nodes(b) : Len(q) = Len(path) + 1 /\ IsPrefix(path, q)}

InsertEmptyTreesIfNotExist(b, paths) ==
  [b EXCEPT !.trees = @ \cup {p \in paths : ~ HasRaw(p)}]

InsertReference(b, path, id) ==
  [b EXCEPT !.refs = [p \in {path} \cup DOMAIN @ |-> IF p = path THEN id ELSE @[p]]]

\* Mutant: an index entry that exists is overwritten.
InsertReferenceIfNotExists_Overwrite(b, path, id) == InsertReference(b, path, id)

InsertReferenceIfNotExists(b, path, id) ==
  IF HasRaw(path) THEN [b EXCEPT !.ok = FALSE] ELSE InsertReference(b, path, id)

\* Mutant: the trees above the key stay, empty or not.
UpTreeWhileEmpty_KeyOnly(b, path) == {path}

\* The key and each tree above it that holds nothing else, up to the tree of
\* the top property.  What the batch deletes is not counted, what it inserts is.
UpTreeWhileEmpty(b, path) ==
  {SubSeq(path, 1, k) : k \in {m \in 2 .. Len(path) :
     \A l \in m .. Len(path) - 1 : Children(b, SubSeq(path, 1, l)) = {SubSeq(path, 1, l + 1)}}}

\* The delete of a tree that is not empty is an error
\* (deleting_non_empty_trees_returns_error).
DeleteUpTreeWhileEmpty(b, path) ==
  IF path \notin Nodes(b) \/ Children(b, path) # {} THEN [b EXCEPT !.ok = FALSE]
  ELSE LET gone == UpTreeWhileEmpty(b, path)
       IN [b EXCEPT !.trees = @ \ gone, !.refs = Restrict(@, DOMAIN @ \ gone)]

\* GroveDB inserts an element into an existing tree only.
Applicable(b) ==
  b.ok /\ \A p \in Nodes(b) : Len(p) > 1 => Front(p) \in b.trees

Apply(b) == Applicable(b) /\ trees' = b.trees /\ refs' = b.refs

-----------------------------------------------------------------------------
(* Primary storage.                                                        *)

ItemKey == IF type.keepsHistory THEN now ELSE 0

\* The items of a document that a new one joins.
EarlierTimes(id) == IF type.keepsHistory /\ Present(id) THEN DOMAIN primary[id].items ELSE {}

\* Mutant: the earlier items of a document are replaced.
Stored_NoHistory(id, data) == [items |-> ItemKey :> data, latest |-> ItemKey]

\* add_document_to_primary_storage: with history, a new item for this time.
Stored(id, data) ==
  [items  |-> [t \in {ItemKey} \cup EarlierTimes(id) |->
                 IF t = ItemKey THEN data ELSE primary[id].items[t]],
   latest |-> ItemKey]

\* Without history, and unless it was checked before, the id must be free.
Insertable(id, withoutCheck) == type.keepsHistory \/ withoutCheck \/ ~ Present(id)

-----------------------------------------------------------------------------
(* Operations on one index.                                                *)

AddToIndex(b, index, id, data) ==
  LET path == IndexPath(index.properties, data)
      c == InsertEmptyTreesIfNotExist(b, Levels(path))
  IN IF ~ index.unique \/ AnyFieldEmpty(index, data)
     THEN InsertReference(InsertEmptyTreesIfNotExist(c, {Terminal(path)}),
                          Append(Terminal(path), id), id)
     ELSE InsertReferenceIfNotExists(c, Terminal(path), id)

\* Mutant: the reference of an index that is not unique is looked for like that
\* of a unique one.
ReferencePath_AlwaysUnique(index, id, data) == Terminal(IndexPath(index.properties, data))

\* Where update and delete look for the reference of a document.
ReferencePath(index, id, data) ==
  LET zero == Terminal(IndexPath(index.properties, data))
  IN IF index.unique THEN zero ELSE Append(zero, id)

RemoveFromIndex(b, index, id, data) ==
  DeleteUpTreeWhileEmpty(b, ReferencePath(index, id, data))

\* The levels of the new path from the first property that changed on.
ChangedLevels(properties, old, new) ==
  LET changed == {k \in DOMAIN properties : old[properties[k]] # new[properties[k]]}
  IN {q \in Levels(IndexPath(properties, new)) : \E k \in changed : Len(q) >= 2 * k - 1}

MoveInIndex(b, index, id, old, new) ==
  LET path == IndexPath(index.properties, new)
      c == RemoveFromIndex(
             InsertEmptyTreesIfNotExist(b, ChangedLevels(index.properties, old, new)),
             index, id, old)
  IN IF IndexPath(index.properties, old) = path THEN b
     ELSE IF ~ index.unique \/ AllFieldsEmpty(index, new)
     THEN InsertReference(InsertEmptyTreesIfNotExist(c, {Terminal(path)}),
                          Append(Terminal(path), id), id)
     ELSE InsertReferenceIfNotExists(c, Terminal(path), id)

-----------------------------------------------------------------------------
(* Operations on a document.                                               *)

\* The batches of the three operations, index after index.
AddBatch(id, data) ==
  LET add(b, index) == AddToIndex(b, index, id, data) IN FoldLeft(add, NoChange, type.indices)

UpdateBatch(id, data) ==
  LET move(b, index) == MoveInIndex(b, index, id, Current(id), data)
  IN FoldLeft(move, NoChange, type.indices)

DeleteBatch(id) ==
  LET remove(b, index) == RemoveFromIndex(b, index, id, Current(id))
  IN FoldLeft(remove, NoChange, type.indices)

Updatable(id) == type.mutable /\ Present(id)
Deletable(id) == type.mutable /\ ~ type.keepsHistory /\ Present(id)

UpdateDocument(id, data) ==
  /\ Updatable(id)
  /\ Apply(UpdateBatch(id, data))
  /\ primary' = [primary EXCEPT ![id] = Stored(id, data)]
  /\ UNCHANGED <<type, now>>

InsertDocument(id, data, override) ==
  /\ Insertable(id, override)
  /\ Apply(AddBatch(id, data))
  /\ primary' = [primary EXCEPT ![id] = Stored(id, data)]
  /\ UNCHANGED <<type, now>>

\* A document that is to be overridden and is there is updated.  Documents come
\* with their serialization; without it only the cost of an insert is computed.
AddDocument(id, data, override) ==
  IF override /\ Present(id) THEN UpdateDocument(id, data)
  ELSE InsertDocument(id, data, override)

DeleteDocument(id) ==
  /\ Deletable(id)
  /\ Apply(DeleteBatch(id))
  /\ primary' = [primary EXCEPT ![id] = NoDocument]
  /\ UNCHANGED <<type, now>>

\* The next block has a later time.
NextBlock ==
  /\ now < MaxTime
  /\ Cardinality({id \in Ids : Present(id)}) <= MaxCarried
  /\ now' = now + 1
  /\ UNCHANGED <<type, primary, trees, refs>>

-----------------------------------------------------------------------------
(* The caller: dpp lets a create through only for an id that is not stored *)
(* (check_if_document_is_already_present).  A schema need not require the  *)
(* properties of a unique index, so any of them may be empty.              *)

Init ==
  /\ type \in DocumentTypes
  /\ primary = [id \in Ids |-> NoDocument]
  /\ trees = {<<type.indices[k].properties[1]>> : k \in DOMAIN type.indices}
  /\ refs = <<>>
  /\ now = 1

Next ==
  \/ NextBlock
  \/ \E id \in Ids :
       \/ DeleteDocument(id)
       \/ \E data \in Data :
            \/ ~ Present(id) /\ AddDocument(id, data, FALSE)
            \/ AddDocument(id, data, TRUE)
            \/ UpdateDocument(id, data)

Spec == Init /\ [][Next]_vars
-----------------------------------------------------------------------------
(* Properties.                                                             *)

\* The state has its types: items are documents, the latest of them exists,
\* references lead to ids.
TypeOK ==
  /\ type \in DocumentTypes
  /\ now \in 1 .. MaxTime
  /\ primary \in [Ids -> Storage \cup {NoDocument}]
  /\ \A id \in Ids : Present(id) =>
       /\ DOMAIN primary[id].items \subseteq 0 .. now
       /\ primary[id].latest \in DOMAIN primary[id].items
  /\ Range(refs) \subseteq Ids

Storing == {id \in Ids : Present(id)}

\* The key 0 at the end of the path of a document in an index.
Zero(index, data) == Terminal(IndexPath(index.properties, data))

\* The reference of a stored document stands below the key 0.
InTree(index, id) == Append(Zero(index, Current(id)), id) \in DOMAIN refs

\* The place the reference of a stored document stands at.
Entry(index, id) ==
  LET zero == Zero(index, Current(id)) IN IF InTree(index, id) THEN Append(zero, id) ELSE zero

Entries(id) == {Entry(type.indices[k], id) : k \in DOMAIN type.indices}

\* After any sequence of adds, updates and deletes an index query finds exactly
\* the stored documents, each under its current values: no document is missing
\* from an index, and no reference is left at a value a document once had or to
\* a document that is gone.  A document that has all properties of a unique
\* index stands alone in it; one that has none, and any document of another
\* index, stands beside the documents with the same values.
ReferencesAgree ==
  /\ DOMAIN refs = UNION {Entries(id) : id \in Storing}
  /\ \A id \in Storing : \A p \in Entries(id) : refs[p] = id
  /\ \A id \in Storing, k \in DOMAIN type.indices :
       LET index == type.indices[k]
       IN /\ ~ index.unique \/ AllFieldsEmpty(index, Current(id)) => InTree(index, id)
          /\ InTree(index, id) => ~ index.unique \/ AnyFieldEmpty(index, Current(id))

\* Deletes and updates clear away the trees they empty and never one that a
\* reference of another document or another index still stands in: apart from
\* the trees of the top properties, the trees are those above the references,
\* and none of them is a reference itself.
TreesAgree ==
  /\ trees = {<<type.indices[k].properties[1]>> : k \in DOMAIN type.indices}
             \cup UNION {{SubSeq(p, 1, k) : k \in 1 .. Len(p) - 1} : p \in DOMAIN refs}
  /\ trees \cap DOMAIN refs = {}

\* The index trees are those of the stored documents, no more and no less
\* (the add, update and delete operations of drive/document).
IndicesAgree == TypeOK /\ ReferencesAgree /\ TreesAgree

\* What the storage promises, without trees, references and history.
Table == INSTANCE DocumentTable WITH
  table <- [id \in Ids |-> Current(id)],
  rules <- [unique |-> {Range(type.indices[k].properties) :
                          k \in {l \in DOMAIN type.indices : type.indices[l].unique}},
            mutable |-> type.mutable, keepsHistory |-> type.keepsHistory]

\* Every operation on trees and references is an operation of the table or
\* leaves the table alone: in particular no two documents clash in a unique
\* index, whatever was updated, deleted and added again before.
TableSpec == Table!Spec

\* Other stored documents with the same values in an index, the empty included.
Twins(index, id, data) ==
  {other \in Storing \ {id} : Zero(index, Current(other)) = Zero(index, data)}

UniqueIndices == {type.indices[k] : k \in {l \in DOMAIN type.indices : type.indices[l].unique}}

Moves(index, id, data) == Zero(index, Current(id)) # Zero(index, data)

\* An add is refused exactly when a document with the same values stands alone
\* in a unique index.
AddsRefused ==
  \A id \in Ids, data \in Data : ~ Present(id) =>
    (Applicable(AddBatch(id, data)) <=>
       \A index \in UniqueIndices : \A other \in Twins(index, id, data) : InTree(index, other))

\* An update is refused exactly when a unique index whose values change has the
\* document in a tree, or already has a document with the new values, unless
\* these are all empty.
UpdatesRefused ==
  \A id \in Ids, data \in Data : Updatable(id) =>
    (Applicable(UpdateBatch(id, data)) <=>
       \A index \in UniqueIndices : Moves(index, id, data) =>
         /\ ~ InTree(index, id)
         /\ AllFieldsEmpty(index, data) \/ Twins(index, id, data) = {})

\* A delete is refused exactly when the document stands in a tree of a unique
\* index; one that is not refused leaves no reference to the document.
DeletesRefused ==
  \A id \in Ids : Deletable(id) =>
    /\ Applicable(DeleteBatch(id)) <=> \A index \in UniqueIndices : ~ InTree(index, id)
    /\ Applicable(DeleteBatch(id)) => id \notin Range(DeleteBatch(id).refs)

\* What stored documents stand in the way of, and nothing else does: no earlier
\* operation leaves anything behind that blocks a later one, and no batch that
\* the stored documents forbid gets through (the batches of add, update and
\* delete).
RefusedExactly == AddsRefused /\ UpdatesRefused /\ DeletesRefused

\* A document of a mutable type that keeps no history can be deleted, and
\* deleting it deletes all references to it (delete_document_for_contract).
Erasable ==
  \A id \in Ids : Deletable(id) =>
    /\ Applicable(DeleteBatch(id))
    /\ id \notin Range(DeleteBatch(id).refs)

\* A type that keeps history never loses what a document was at an earlier time.
HistoryKept ==
  [][\A id \in Ids : type.keepsHistory /\ Present(id) =>
       /\ primary'[id] # NoDocument
       /\ \A t \in DOMAIN primary[id].items :
            t < now => /\ t \in DOMAIN primary'[id].items
                       /\ primary'[id].items[t] = primary[id].items[t]]_vars
=============================================================================
