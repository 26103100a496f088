--------------------------- MODULE DriveOperations ---------------------------
(***************************************************************************)
(* Batches of high-level document operations. Each operation is turned into *)
(* storage operations by reading the store as it was before the batch; the  *)
(* storage operations are then applied together, the flags of replaced      *)
(* elements being combined and the bytes that go away being split over the  *)
(* epochs they were paid in; the costs become the fee result.               *)
(*                                                                         *)
(* The documents are of one type, mutable or not, without history and       *)
(* without indices, so that a document is one element of the primary tree   *)
(* (DocumentStore has the indices). An element's item is the CBOR form of   *)
(* the document or the bytes of DocumentCodec's serialize; its flags are    *)
(* bytes of StorageFlags. Batching is enabled, as in the default            *)
(* configuration, and every element carries flags, as the binding's do.     *)
(***************************************************************************)
EXTENDS DocumentCodec, StorageFlags

CONSTANTS
    Ids,          \* document identifiers, sequences of IdLen bytes
    OwnerOf,      \* the owner of each document
    Owned,        \* the documents whose flags name the owner
    Kinds,        \* contracts in CBOR and contents of the documents of their type
    TypeName,     \* the name of the document type
    Pairs,        \* contents of the documents in batches of two operations
    CreditPerByte,\* STORAGE_DISK_USAGE_CREDIT_PER_BYTE
    MaxEpoch,     \* bound on the epochs
    MaxBatches    \* bound on the applied batches

ASSUME OperationsAssumption ==
    /\ \A id \in Ids : Len(id) = IdLen
    /\ Owned \subseteq Ids
    /\ MaxEpoch \in 0 .. Base - 1

VARIABLES
    kind,      \* the document type, fixed by the contract
    epoch,     \* the epoch of the current block
    elements,  \* the stored element of each document, or NoElement
    added,     \* ghost: bytes paid for, by the owner of the document
    refunded,  \* ghost: bytes given back, by identity
    system,    \* ghost: bytes removed that no identity gets back
    written,   \* ghost: the document each element was last written for
    batches

vars == <<kind, epoch, elements, added, refunded, system, written, batches>>

Owners == {OwnerOf[id] : id \in Ids}
NoElement == [none |-> TRUE]

(* The contract as it was given, and as it is read after it was written by  *)
(* DriveContractExt::to_cbor.                                               *)
Given == [k \in Kinds |-> contract_from_cbor(k.contract)]
Fetched == [k \in Kinds |-> contract_from_cbor(contract_to_cbor(Given[k]))]

GivenType == document_type_for_name(Given[kind], TypeName)
FetchedType == document_type_for_name(Fetched[kind], TypeName)
Type == FetchedType.properties

Document(id, content) ==
    [id |-> id, owner |-> OwnerOf[id], properties |-> content]

-----------------------------------------------------------------------------
(* Items and their sizes. CBOR keeps a document as it is.                   *)

to_cbor(doc) == [cbor |-> TRUE, doc |-> doc, bytes |-> << >>]
Native(bytes) == [cbor |-> FALSE, doc |-> NoDocument, bytes |-> bytes]

ItemSize(item) ==
    IF item.cbor
    THEN 1 + MapThenSumSet(LAMBDA n : 1 + Len(item.doc.properties[n].v),
                           DOMAIN item.doc.properties)
    ELSE Len(item.bytes)

(* from_cbor needs the protocol version in front, which only the CBOR form  *)
(* has: the other form begins with the bytes of the identifier.             *)
from_cbor(item) == item.cbor

KeySize == IdLen
StoredSize(e) == ItemSize(e.item) + Len(e.flags)

-----------------------------------------------------------------------------
(* From operations on documents to operations on the storage.               *)

Operations(ops) == [ok |-> TRUE, ops |-> ops]
Refused == [ok |-> FALSE, ops |-> << >>]

(* What an operation says of its document: the key it is stored under, its  *)
(* flags, and whether it comes with its CBOR form.                          *)
id_key_value_info(op) == op.doc.id
get_storage_flags_ref(op) == op.flags
is_document_and_serialization(op) == op.cbor

Insert(op, item) ==
    [kind |-> "insert", id |-> id_key_value_info(op), item |-> item, doc |-> op.doc,
     flags |-> serialize_flags(get_storage_flags_ref(op))]
Delete(op) == [kind |-> "delete", id |-> id_key_value_info(op)]

(* A query that only estimates costs finds nothing.                         *)
grove_has_raw(els, id, apply) == apply /\ els[id] # NoElement

batch_insert(op, item) == Operations(<<Insert(op, item)>>)

batch_insert_if_not_exists(els, op, item, apply) ==
    IF grove_has_raw(els, op.doc.id, apply) THEN Refused ELSE batch_insert(op, item)

(* The storage looks up what it is to delete.                               *)
batch_delete(els, op) ==
    IF els[op.doc.id] = NoElement THEN Refused ELSE Operations(<<Delete(op)>>)

add_document_to_primary_storage(els, op, insert_without_check, apply) ==
    LET s == serialize(op.doc, Type)
        item == IF is_document_and_serialization(op) THEN to_cbor(op.doc) ELSE Native(s.bytes)
    IN  IF ~ is_document_and_serialization(op) /\ ~ s.ok THEN Refused
        ELSE IF insert_without_check THEN batch_insert(op, item)
        ELSE batch_insert_if_not_exists(els, op, item, apply)

(* The stored document is fetched, read as CBOR, and its flags understood;  *)
(* an estimate does without.                                                *)
OldDocumentReadable(els, id, apply) ==
    apply => /\ els[id] # NoElement
             /\ from_cbor(els[id].item)
             /\ deserialize_flags(els[id].flags).ok

update_document_for_contract_operations(els, op, apply) ==
    IF ~ FetchedType.documents_mutable THEN Refused
    ELSE IF OldDocumentReadable(els, op.doc.id, apply)
    THEN add_document_to_primary_storage(els, op, TRUE, apply) ELSE Refused

add_document_for_contract_operations(els, op, apply) ==
    IF op.override /\ is_document_and_serialization(op)
         /\ grove_has_raw(els, op.doc.id, apply)
    THEN update_document_for_contract_operations(els, op, apply)
    ELSE add_document_to_primary_storage(els, op, op.override, apply)

(* The dry run, too, asks batch_delete for the deletion itself.             *)
delete_document_for_contract_operations(els, op, apply) ==
    IF FetchedType.documents_mutable /\ OldDocumentReadable(els, op.doc.id, apply)
    THEN batch_delete(els, op) ELSE Refused

to_drive_operations(els, op, apply) ==
    CASE op.op = "add" -> add_document_for_contract_operations(els, op, apply)
      [] op.op = "update" -> update_document_for_contract_operations(els, op, apply)
      [] op.op = "delete" -> delete_document_for_contract_operations(els, op, apply)

-----------------------------------------------------------------------------
(* Applying the storage operations.                                         *)

(* The flags an element gets that replaces an older one: the callback that  *)
(* the storage calls with the cost of the replacement.                      *)
Removed(ours, n, sectioned) ==
    IF sectioned THEN split_storage_removed_bytes(ours, 0, n)[2] ELSE BasicStorageRemoval(n)

CombinedFlags(ours, theirs, oldSize, newSize, sectioned) ==
    CASE ~ ours.ok -> CanNotCombine
      [] ours.ok /\ newSize > oldSize ->
            combine_added_bytes(ours.flags, theirs, newSize - oldSize)
      [] ours.ok /\ newSize < oldSize ->
            combine_removed_bytes(ours.flags, theirs,
                                  Removed(ours.flags, oldSize - newSize, sectioned))
      [] OTHER -> Combined(theirs)

UpdatedFlags(old, new, oldSize, newSize, sectioned) ==
    CombinedFlags(deserialize_flags(old), deserialize_flags(new).flags,
                  oldSize, newSize, sectioned)

(* The callback that splits the removed bytes of the key and the value.     *)
RemovedBytes(flags, keyBytes, valueBytes) ==
    split_storage_removed_bytes(deserialize_flags(flags).flags, keyBytes, valueBytes)

(* What the storage reports for an element written over nothing or over an  *)
(* older one, or deleted: bytes added and bytes removed, the latter split   *)
(* by the flags the element had.                                            *)
Cost(id, n, removals) == [id |-> id, added |-> n, removals |-> removals]

Replaced(id, old, e) ==
    [ok |-> TRUE, e |-> e,
     cost |-> IF StoredSize(e) >= StoredSize(old)
              THEN Cost(id, StoredSize(e) - StoredSize(old), << >>)
              ELSE Cost(id, 0,
                        <<RemovedBytes(old.flags, 0, StoredSize(old) - StoredSize(e))[2]>>)]

ReplaceEffect(op, old, flags) ==
    IF flags.ok
    THEN Replaced(op.id, old, [item |-> op.item, flags |-> serialize_flags(flags.flags)])
    ELSE [ok |-> FALSE, e |-> old, cost |-> Cost(op.id, 0, << >>)]

FreshEffect(op, e) ==
    [ok |-> TRUE, e |-> e, cost |-> Cost(op.id, KeySize + StoredSize(e), << >>)]

InsertEffect(els, op, sectioned) ==
    LET old == els[op.id]
        fresh == [item |-> op.item, flags |-> op.flags]
    IN  IF old = NoElement THEN FreshEffect(op, fresh)
        ELSE ReplaceEffect(op, old,
                UpdatedFlags(old.flags, op.flags, StoredSize(old), StoredSize(fresh), sectioned))

DeleteEffect(els, op) ==
    [ok |-> TRUE, e |-> NoElement,
     cost |-> Cost(op.id, 0,
        RemovedBytes(els[op.id].flags, KeySize, StoredSize(els[op.id])))]

Effect(els, op, sectioned) ==
    IF op.kind = "insert" THEN InsertEffect(els, op, sectioned) ELSE DeleteEffect(els, op)

(* The storage refuses operations that meet at the same key.                *)
Consistent(ops) == \A i, j \in DOMAIN ops : i # j => ops[i].id # ops[j].id

NotApplied(els) == [ok |-> FALSE, els |-> els, costs |-> << >>]

(* One operation after the other, each on what the former ones left.       *)
After(acc, op, effect) ==
    [ok |-> acc.ok /\ effect.ok,
     els |-> [acc.els EXCEPT ![op.id] = effect.e],
     costs |-> Append(acc.costs, effect.cost)]

AllEffects(els, ops, sectioned) ==
    FoldLeft(LAMBDA acc, op : After(acc, op, Effect(acc.els, op, sectioned)),
             [ok |-> TRUE, els |-> els, costs |-> << >>], ops)

AllOrNothing(els, end) == IF end.ok THEN end ELSE NotApplied(els)

(* Mutant: operations that meet at a key are applied one after the other.   *)
grove_apply_batch_with_add_costs_Unchecked(els, ops, sectioned) ==
    AllEffects(els, ops, sectioned)

grove_apply_batch_with_add_costs(els, ops, sectioned) ==
    IF ops = << >> \/ ~ Consistent(ops) THEN NotApplied(els)
    ELSE AllOrNothing(els, AllEffects(els, ops, sectioned))

(* A dry run asks for the worst case of the batch and writes nothing.       *)
grove_batch_operations_costs(els, ops) == [ok |-> TRUE, els |-> els, costs |-> << >>]

(* All operations are translated against the same store, then applied.      *)
TranslatedAll(els, each, ops, apply, sectioned) ==
    CASE \E i \in DOMAIN each : ~ each[i].ok -> NotApplied(els)
      [] apply -> grove_apply_batch_with_add_costs(els, ops, sectioned)
      [] OTHER -> grove_batch_operations_costs(els, ops)

apply_drive_operations(els, ops, apply, sectioned) ==
    LET each == [i \in DOMAIN ops |-> to_drive_operations(els, ops[i], apply)]
    IN  TranslatedAll(els, each, FlattenSeq([i \in DOMAIN each |-> each[i].ops]),
                      apply, sectioned)

-----------------------------------------------------------------------------
(* Fees.                                                                    *)

storage_cost(cost) == cost.added * CreditPerByte

Removals(costs) == FlattenSeq([i \in DOMAIN costs |-> costs[i].removals])

(* Bytes listed under the all-zero identifier are the system's.             *)
RemovedFor(costs, id) ==
    LET rs == Removals(costs)
    IN  MapThenSumSet(LAMBDA i : total_removed_bytes(rs[i]),
                      {i \in DOMAIN rs : rs[i].id = id})

calculate_fee(costs) ==
    [storage_fee |-> MapThenSumSet(LAMBDA i : storage_cost(costs[i]), DOMAIN costs),
     identities  |-> [o \in Owners |-> RemovedFor(costs, o)],
     system      |-> RemovedFor(costs, SystemId)]

AddedFor(costs, o) ==
    MapThenSumSet(LAMBDA i : costs[i].added,
                  {i \in DOMAIN costs : OwnerOf[costs[i].id] = o})

-----------------------------------------------------------------------------
(* The steps.                                                               *)

FlagsFor(id) == new_single_epoch(epoch, IF id \in Owned THEN OwnerOf[id] ELSE NoOwner)

Operation(what, id, content, cbor, override) ==
    [op |-> what, doc |-> Document(id, content), cbor |-> cbor,
     override |-> override, flags |-> FlagsFor(id)]

Single ==
    {Operation("add", id, c, cbor, override) :
        id \in Ids, c \in kind.contents, cbor \in BOOLEAN, override \in BOOLEAN}
      \cup {Operation("update", id, c, TRUE, FALSE) : id \in Ids, c \in kind.contents}
      \cup {Operation("delete", id, c, TRUE, FALSE) : id \in Ids, c \in kind.contents \cap Pairs}

OfTwo ==
    {Operation(what, id, c, TRUE, FALSE) :
        what \in {"add", "update", "delete"}, id \in Ids, c \in kind.contents \cap Pairs}

Batches == {<<op>> : op \in Single} \cup (OfTwo \X OfTwo) \cup {<< >>}

Init ==
    /\ kind \in Kinds
    /\ epoch = 0
    /\ elements = [id \in Ids |-> NoElement]
    /\ added = [o \in Owners |-> 0]
    /\ refunded = [o \in Owners |-> 0]
    /\ system = 0
    /\ written = [id \in Ids |-> NoDocument]
    /\ batches = 0

(* A batch that is refused leaves the transaction's data as it was.         *)
ApplyDriveOperations(ops, apply, sectioned) ==
    \E r \in {apply_drive_operations(elements, ops, apply, sectioned)} :
    \E fee \in {calculate_fee(r.costs)} :
        /\ batches < MaxBatches
        /\ r.ok
        /\ elements' = r.els
        /\ added' = [o \in Owners |-> added[o] + AddedFor(r.costs, o)]
        /\ refunded' = [o \in Owners |-> refunded[o] + fee.identities[o]]
        /\ system' = system + fee.system
        /\ written' = [id \in Ids |->
              CASE r.els[id] = NoElement -> NoDocument
                [] \E i \in DOMAIN ops : apply /\ ops[i].doc.id = id ->
                      (CHOOSE op \in Range(ops) : op.doc.id = id).doc
                [] OTHER -> written[id]]
        /\ batches' = batches + 1
        /\ UNCHANGED <<kind, epoch>>

NextEpoch ==
    /\ epoch < MaxEpoch
    /\ epoch' = epoch + 1
    /\ UNCHANGED <<kind, elements, added, refunded, system, written, batches>>

Next ==
    \/ \E ops \in Batches, apply, sectioned \in BOOLEAN :
            ApplyDriveOperations(ops, apply, sectioned)
    \/ NextEpoch

Spec == Init /\ [][Next]_vars

-----------------------------------------------------------------------------
(* Properties.                                                              *)

(* Every element has an item and flags that begin with a known type byte,   *)
(* and the ledgers are natural numbers.                                     *)
TypeOK ==
    /\ kind \in Kinds /\ epoch \in 0 .. MaxEpoch /\ batches \in 0 .. MaxBatches
    /\ added \in [Owners -> Nat] /\ refunded \in [Owners -> Nat] /\ system \in Nat
    /\ \A id \in Ids : elements[id] # NoElement =>
          /\ \A i \in DOMAIN elements[id].flags : elements[id].flags[i] \in Byte
          /\ elements[id].flags[1] \in 0 .. 3
          /\ \A i \in DOMAIN elements[id].item.bytes : elements[id].item.bytes[i] \in Byte

LiveBytes(o) ==
    MapThenSumSet(LAMBDA id : KeySize + StoredSize(elements[id]),
                  {id \in Ids : elements[id] # NoElement /\ OwnerOf[id] = o})

(* However an element grew and shrank over the epochs, and whatever bytes   *)
(* its flags are read back as, an identity is never given back more bytes   *)
(* than it paid for and no longer uses, and all bytes that left, refunded   *)
(* or not, were paid for (split_storage_removed_bytes, consume_to_fees).    *)
RefundsBounded ==
    /\ \A o \in Owners : refunded[o] + LiveBytes(o) <= added[o]
    /\ MapThenSumSet(LAMBDA o : refunded[o] + LiveBytes(o), Owners) + system
          <= MapThenSumSet(LAMBDA o : added[o], Owners)

(* Operations translated against the store as it was before the batch have  *)
(* the effect they would have one batch after the other, or the batch is    *)
(* refused: none works on data that an earlier one of the batch replaced    *)
(* (apply_drive_operations).                                                *)
BatchIsSequence ==
    \A a, b \in OfTwo, sectioned \in BOOLEAN :
        \A r \in {apply_drive_operations(elements, <<a, b>>, TRUE, sectioned)} :
            r.ok =>
                \E s \in {apply_drive_operations(elements, <<a>>, TRUE, sectioned)} :
                \E t \in {apply_drive_operations(s.els, <<b>>, TRUE, sectioned)} :
                    /\ s.ok /\ t.ok /\ r.els = t.els
                    /\ r.costs = s.costs \o t.costs

(* What a natively serialized document is read back as: the properties that *)
(* the type has a field for under the same name, numbers and dates as       *)
(* floats, byte arrays as bytes, and without those of no length.            *)
ReadBack(doc) ==
    LET fields == GivenType.properties
        kept == {n \in DOMAIN doc.properties \cap DOMAIN fields :
                    ~ (fields[n].type \in {"string", "byteArray"}
                         /\ doc.properties[n].v = << >>)}
    IN  [ok |-> TRUE, id |-> doc.id, owner |-> doc.owner,
         properties |-> [n \in kept |->
            CASE fields[n].type \in {"date", "number"} ->
                    [t |-> "float", v |-> as_f64(doc.properties[n])]
              [] fields[n].type = "byteArray" -> Bytes(doc.properties[n].v)
              [] OTHER -> doc.properties[n]]]

HasArray == \E n \in DOMAIN GivenType.properties : GivenType.properties[n].type = "array"

(* A document that is stored in the native form is read back, by the type   *)
(* of the contract that was itself stored and fetched, as the document that *)
(* was written under the contract as given, optional fields, lengths and    *)
(* markers included; with an array in the type it can be written and never read     *)
(* (Document::serialize and from_bytes, DataContract::from_cbor).           *)
ReadsBack ==
    \A id \in Ids : elements[id] # NoElement /\ ~ elements[id].item.cbor =>
        LET d == from_bytes(elements[id].item.bytes, Type)
        IN  IF HasArray THEN ~ d.ok ELSE d = ReadBack(written[id])

(* The order of the values of one field.                                    *)
LexLess(s, t) ==
    \E k \in 1 .. Len(t) :
        /\ k - 1 <= Len(s) /\ SubSeq(s, 1, k - 1) = SubSeq(t, 1, k - 1)
        /\ k - 1 < Len(s) => s[k] < t[k]

Number(x) == LET f == as_f64(x) IN IF f[1] = 1 THEN 0 - f[2] ELSE f[2]

ValueLess(type, x, y) ==
    IF type \in {"integer", "number", "date"} THEN Number(x) < Number(y)
    ELSE LexLess(x.v, y.v)

NegativeZero(x) == x.t = "float" /\ x.v = <<1, 0>>

(* The keys of two documents' values are in the order of the values, so that *)
(* an index tree read from left to right is read in order: for every field   *)
(* type and across the sign, but for the negative zero, and for an empty     *)
(* text, whose key is that of a text of one zero byte                        *)
(* (encode_value_for_tree_keys).                                             *)
KeysOrdered ==
    \A i, j \in {id \in Ids : written[id] # NoDocument}, n \in DOMAIN Type :
        \A x \in ValuesAtPath(written[i], n), y \in ValuesAtPath(written[j], n),
           k \in get_raw_for_document_type(written[i], n, Type),
           l \in get_raw_for_document_type(written[j], n, Type) :
            (/\ k.ok /\ l.ok /\ ValueLess(Type[n].type, x, y)
             /\ ~ NegativeZero(x) /\ ~ NegativeZero(y))
              => \/ LexLess(k.bytes, l.bytes)
                 \/ Type[n].type = "string" /\ x.v = << >> /\ y.v = <<0>>

(* What is written in bytes means the same when it is read: flags and       *)
(* elements, documents, and the order of keys (flags.rs, document_field.rs). *)
BytesFaithful == TypeOK /\ ReadsBack /\ KeysOrdered

(* A document that exists can be replaced and deleted at any time, except   *)
(* that one stored in the native form can never be, that a replacement can  *)
(* not be smaller once an epoch has passed, and that flags of several       *)
(* epochs may not be understood when they name an owner or list no epoch;   *)
(* but never if the contract, as it was given, makes its documents          *)
(* immutable (update_document_for_contract_operations,                      *)
(* combine_removed_bytes, DriveContractExt::to_cbor).                       *)
RefusedOnlyFor ==
    \A op \in {o \in Single : o.op # "add" /\ elements[o.doc.id] # NoElement},
       sectioned \in BOOLEAN :
        \A done \in {apply_drive_operations(elements, <<op>>, TRUE, sectioned).ok} :
        LET e == elements[op.doc.id]
            f == serialize_flags(op.flags)
        IN  IF ~ GivenType.documents_mutable THEN ~ done
            ELSE ~ done =>
               \/ ~ e.item.cbor
               \/ /\ op.op = "update" /\ sectioned
                  /\ deserialize_flags(e.flags).flags.base < epoch
                  /\ ItemSize(to_cbor(op.doc)) + Len(f) < StoredSize(e)
               \/ e.flags[1] = 3
               \/ e.flags[1] = 1 /\ Len(e.flags) = 1 + EpochWidth
=============================================================================
