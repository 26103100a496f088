--------------------------- MODULE DocumentsBatch ---------------------------
(***************************************************************************)
(* State transitions that write documents and data contracts               *)
(* (dpp/src/document, dpp/src/data_contract): what clients put into a      *)
(* batch of document transitions, its basic and state validation, the data *)
(* triggers, the application of the transitions one after the other, and   *)
(* updates of the contracts that the documents belong to.                  *)
(*                                                                         *)
(* Clients make transitions from copies of documents that were in the      *)
(* committed state at some time, however long ago; so a batch may be late, *)
(* out of order or delivered again.  The node handles one state transition *)
(* after the other.  A block's changes are committed or given up together; *)
(* when a batch stops in the middle, the code neither undoes what it did   *)
(* nor gives the block up: the caller may do either.                       *)
(*                                                                         *)
(* The id of a document is a hash of contract, owner, type and entropy;    *)
(* here it is the record of them.                                          *)
(***************************************************************************)
EXTENDS DataContracts, DataTriggers

CONSTANTS
  Owners,           \* identities that send batches
  Clients,          \* what clients send; each behaviour has one: [ids, data by type,
                    \* updates by contract, size], where size bounds the batches
  InitialContracts, \* contracts in the initial state
  Immutable,        \* <<contract, type>> of documents that are not mutable; no
                    \* update of a contract changes that, and no type keeps history
  NoDocument, NoBatch, NoTime,
  TimeWindow,       \* BLOCK_TIME_WINDOW_MILLIS, in steps of the model's clock
  MaxTime,          \* bound: block times
  MaxRevision,      \* bound: revisions
  MaxBatches        \* bound: batches that pass the validation

ASSUME BoundAssumption ==
  MaxTime \in Nat /\ MaxRevision \in Nat \ {0} /\ MaxBatches \in Nat /\ TimeWindow \in Nat

ASSUME TimeAssumption == NoTime \notin Nat

\* What clients name and send: ids are records of what they are the hash of.
ASSUME ClientsAssumption ==
  \A c \in Clients :
    /\ \A id \in c.ids : /\ DOMAIN id = {"contract", "type", "owner", "entropy"}
                        /\ id.type \in DOMAIN c.data
    /\ \A contract \in DOMAIN c.updates : \A new \in c.updates[contract] : WellFormed(new)
    /\ c.size \in Nat

ASSUME ContractsAssumption ==
  \A c \in DOMAIN InitialContracts : WellFormed(InitialContracts[c])

\* A stored document; indexed are the indices under which it is entered, and
\* lodged the unique ones of them in which its reference stands in a tree.
Document ==
  [id : UNION {c.ids : c \in Clients}, type : UNION {DOMAIN c.data : c \in Clients},
   owner : Owners, revision : 1 .. MaxRevision,
   created : Nat \cup {NoTime}, updated : Nat \cup {NoTime},
   data : UNION {UNION {c.data[type] : type \in DOMAIN c.data} : c \in Clients},
   indexed : SUBSET IndexDefinition, lodged : SUBSET IndexDefinition]

ASSUME NoDocumentAssumption == NoDocument \notin Document

VARIABLES
  clients,    \* an element of Clients, never changed
  docs,       \* stored documents by id
  contracts,  \* stored contracts by id
  kept,       \* [docs, contracts] of the latest committed block
  copies,     \* documents that were in a committed state
  removed,    \* ids of documents that were deleted
  now,        \* time of the latest block
  running,    \* the batch being applied
  batches     \* batches that passed the validation, for the bound

vars == <<clients, docs, contracts, kept, copies, removed, now, running, batches>>

Ids == clients.ids
Stored == {docs[id] : id \in Ids} \ {NoDocument}
SchemaOf(c, type) == contracts[c].documents[type]
SchemaFor(d) == SchemaOf(d.id.contract, d.type)

Init ==
  /\ clients \in Clients
  /\ docs = [id \in clients.ids |-> NoDocument]
  /\ contracts = InitialContracts
  /\ kept = [docs |-> docs, contracts |-> contracts]
  /\ copies = {} /\ removed = {} /\ now = 0 /\ running = NoBatch /\ batches = 0

-----------------------------------------------------------------------------
(* Transitions that clients make with the document factory.  base is the   *)
(* data of the copy that a replace was made from; it is not sent.          *)

INITIAL_REVISION == 1

Times(id) ==
  IF Dated(SchemaOf(id.contract, id.type)) THEN 0 .. (MaxTime + TimeWindow) ELSE {NoTime}

\* What every transition names: the action, the contract, the document type
\* and the document.
DocumentBaseTransition(action, id) ==
  [action |-> action, contract |-> id.contract, type |-> id.type, id |-> id]

Transition(action, id, revision, created, updated, data, base) ==
  LET common == DocumentBaseTransition(action, id) IN
  [action |-> common.action, contract |-> common.contract, type |-> common.type, id |-> common.id,
   revision |-> revision, created |-> created, updated |-> updated, data |-> data, base |-> base]

\* The id may be one that another identity would generate.
DocumentCreateTransitions ==
  UNION {{Transition("create", id, INITIAL_REVISION, created, updated, data, NoDocument) :
            created \in Times(id), updated \in Times(id), data \in clients.data[id.type]} : id \in Ids}

\* The factory puts the time of the update under "$updatedAt", which the
\* transition does not read: it becomes a part of the data, and the field for
\* the time of the update stays empty.
DocumentReplaceTransitions ==
  UNION {{Transition("replace", copy.id, copy.revision + 1, NoTime, NoTime, data, copy.data) :
            data \in clients.data[copy.type]} : copy \in {c \in copies : c.revision < MaxRevision}}

DocumentDeleteTransitions ==
  {Transition("delete", id, 0, NoTime, NoTime, <<>>, NoDocument) : id \in Ids}

DocumentTransitions ==
  DocumentCreateTransitions \cup DocumentReplaceTransitions \cup DocumentDeleteTransitions

Batches == UNION {[1 .. n -> DocumentTransitions] : n \in 1 .. clients.size}

-----------------------------------------------------------------------------
(* Basic validation.                                                       *)

generate_document_id(t, owner) == [t.id EXCEPT !.owner = owner]

\* Raw transitions have no "$ownerId", and a deletion has no data; values that
\* are missing are equal.  Two replaces count as made at the same time.
SameProperty(t, u, p) ==
  CASE p = "$ownerId" -> TRUE
    [] p = "$createdAt" -> t.created = u.created
    [] p = "$updatedAt" -> t.updated = u.updated
    [] OTHER -> {t.data[q] : q \in {p} \cap DOMAIN t.data}
                  = {u.data[q] : q \in {p} \cap DOMAIN u.data}

\* Two transitions are duplicates when they agree on all properties of all
\* unique indices.
is_duplicate_by_indices(t, u, indices) ==
  \A index \in indices : \A p \in ToSet(index.properties) : SameProperty(t, u, p)

find_duplicates_by_indices(batch) ==
  \E t, u \in ToSet(batch) :
    /\ t.contract = u.contract /\ t.type = u.type /\ t.id # u.id
    /\ UniqueIndices(SchemaOf(t.contract, t.type)) # {}
    /\ is_duplicate_by_indices(t, u, UniqueIndices(SchemaOf(t.contract, t.type)))

\* The check of partly filled compound indices reads the number of the action
\* as a string, takes every transition for a deletion, and checks none.
validate_raw_transition(t, owner) ==
  /\ t.type \in DOMAIN contracts[t.contract].documents
  /\ t.action # "delete" => Conforms(contracts[t.contract], t.type, t.data)
  /\ t.action = "create" => t.id = generate_document_id(t, owner)

ValidBasic(batch, owner) ==
  /\ \A t \in ToSet(batch) : t.contract \in DOMAIN contracts /\ validate_raw_transition(t, owner)
  /\ ~ find_duplicates_by_indices(batch)

-----------------------------------------------------------------------------
(* State validation.  fetched are the stored documents that the batch      *)
(* names.  Uniqueness is validated as well, but the result is not looked   *)
(* at: the batch keeps it for the properties.  Neither is that of the      *)
(* triggers' conditions (DataTriggers).                                    *)

fetch_documents(batch) == {d \in Stored : \E k \in DOMAIN batch : batch[k].id = d.id}

validate_time_in_block_time_window(time) == time >= now - TimeWindow /\ time <= now + TimeWindow

check_created_inside_time_window(t) ==
  t.created # NoTime => validate_time_in_block_time_window(t.created)

check_updated_inside_time_window(t) ==
  t.updated # NoTime => validate_time_in_block_time_window(t.updated)

check_if_timestamps_are_equal(t) ==
  t.created # NoTime /\ t.updated # NoTime => t.created = t.updated

check_if_document_can_be_found(t, fetched) == \E d \in fetched : d.id = t.id

check_if_document_is_already_present(t, fetched) == \A d \in fetched : d.id # t.id

\* mutant: the revision of the stored document is accepted as well.
check_revision_AtLeast(t, fetched) == \A d \in fetched : d.id = t.id => t.revision >= d.revision

check_revision(t, fetched) == \A d \in fetched : d.id = t.id => t.revision = d.revision + 1

\* mutant: the owner is compared with that in the id of the transition.
check_ownership_OfTransition(t, fetched, owner) == \A d \in fetched : d.id = t.id => d.owner = t.id.owner

check_ownership(t, fetched, owner) == \A d \in fetched : d.id = t.id => d.owner = owner

validate_transition(t, fetched, owner) ==
  \/ /\ t.action = "create"
     /\ check_if_timestamps_are_equal(t)
     /\ check_created_inside_time_window(t) /\ check_updated_inside_time_window(t)
     /\ check_if_document_is_already_present(t, fetched)
  \/ /\ t.action = "replace"
     /\ check_updated_inside_time_window(t)
     /\ check_revision(t, fetched)
     /\ check_if_document_can_be_found(t, fetched) /\ check_ownership(t, fetched, owner)
  \/ /\ t.action = "delete"
     /\ check_if_document_can_be_found(t, fetched) /\ check_ownership(t, fetched, owner)

\* The block header as the triggers read it: the model's heights follow its
\* clock.
Block == [height |-> now, coreHeight |-> now]

\* The values by which documents are looked for under a unique index; a
\* property that the transition does not give is left out of the query.
build_query_for_index_definition(index, t, owner) ==
  LET properties == ToSet(index.properties)
      timed == t.action = "create" /\ t.created # NoTime
  IN {<<p, owner>> : p \in properties \cap {"$ownerId"}}
     \cup {<<p, t.created>> : p \in {q \in properties \cap {"$createdAt", "$updatedAt"} : timed}}
     \cup {<<p, t.data[p]>> : p \in properties \cap DOMAIN t.data}

\* The value that a document has for a property of an index: one or none.
Property(d, p) ==
  CASE p = "$ownerId" -> {d.owner}
    [] p = "$createdAt" -> {d.created} \ {NoTime}
    [] p = "$updatedAt" -> {d.updated} \ {NoTime}
    [] OTHER -> {d.data[q] : q \in {p} \cap DOMAIN d.data}

Answers(query, t) ==
  {d \in Stored :
     /\ d.id.contract = t.contract /\ d.type = t.type
     /\ \A q \in query : q[2] \in Property(d, q[1])}

\* mutant: one document is always taken for the one that is written.
validate_uniqueness_One(t, documents) == Cardinality(documents) <= 1

validate_uniqueness(t, documents) == \A d \in documents : d.id = t.id

\* The ids of the transitions that the check finds fault with.
validate_documents_uniqueness_by_indices(batch, owner) ==
  {t.id : t \in {t \in ToSet(batch) :
     /\ t.action # "delete"
     /\ \E index \in UniqueIndices(SchemaOf(t.contract, t.type)) :
          LET query == build_query_for_index_definition(index, t, owner) IN
          query # {} /\ ~ validate_uniqueness(t, Answers(query, t))}}

ValidState(batch, owner) ==
  LET fetched == fetch_documents(batch) IN
  /\ \A t \in ToSet(batch) : validate_transition(t, fetched, owner)
  /\ execute_data_triggers(batch, owner, Stored, Block)

\* A batch that does not pass, or panics, changes nothing.  The documents
\* that it replaces are fetched before the first transition is applied.
Deliver(owner, batch) ==
  /\ running = NoBatch /\ batches < MaxBatches
  /\ ValidBasic(batch, owner)
  /\ ValidState(batch, owner)
  /\ running' = [owner |-> owner, batch |-> batch, next |-> 1, stopped |-> FALSE,
                 fetched |-> {d \in fetch_documents(batch) :
                               \E t \in ToSet(batch) : t.action = "replace" /\ t.id = d.id},
                 duplicates |-> validate_documents_uniqueness_by_indices(batch, owner)]
  /\ batches' = batches + 1
  /\ UNCHANGED <<clients, docs, contracts, kept, copies, removed, now>>

-----------------------------------------------------------------------------
(* The store behind the state repository, as DocumentStore describes it.   *)
(* An index holds a reference to each document under the values that the   *)
(* document has, the missing ones included.  In a unique index a document  *)
(* stands alone there, or in a tree with others (lodged): a create puts it *)
(* into the tree when it lacks a property of the index, an update when it  *)
(* lacks all of them.  What is to be deleted must stand alone, and what is *)
(* in the tree is in the way of one that is to stand alone, and the other  *)
(* way round.                                                              *)

Mutable(id) == <<id.contract, id.type>> \notin Immutable

Values(d, index) == [p \in ToSet(index.properties) |-> Property(d, p)]
Lacks(d, index) == \E p \in ToSet(index.properties) : Property(d, p) = {}
LacksAll(d, index) == \A p \in ToSet(index.properties) : Property(d, p) = {}

\* The other documents with the same values.
Twins(document, index) ==
  {other \in Stored :
     /\ other.id # document.id /\ other.type = document.type
     /\ other.id.contract = document.id.contract
     /\ Values(other, index) = Values(document, index)}

create_document(document) ==
  /\ docs[document.id] = NoDocument
  /\ \A index \in UniqueIndices(SchemaFor(document)) :
       \A other \in Twins(document, index) : index \in other.lodged

Created(document) ==
  LET schema == SchemaFor(document) IN
  [document EXCEPT !.indexed = ToSet(schema.indices),
                   !.lodged = {i \in UniqueIndices(schema) : Lacks(document, i)}]

Moves(document, index) == Values(docs[document.id], index) # Values(document, index)

\* The reference is moved in the indices in which the values change.
update_document(document) ==
  LET old == docs[document.id] IN
  /\ old # NoDocument /\ Mutable(document.id)
  /\ \A index \in ToSet(SchemaFor(document).indices) : Moves(document, index) =>
       /\ index \in old.indexed
       /\ index.unique => /\ index \notin old.lodged
                          /\ LacksAll(document, index) \/ Twins(document, index) = {}

Updated(document) ==
  LET old == docs[document.id]
      schema == SchemaFor(document) IN
  [document EXCEPT !.indexed = old.indexed \cap ToSet(schema.indices),
                   !.lodged = {i \in UniqueIndices(schema) :
                                 IF Moves(document, i) THEN LacksAll(document, i)
                                 ELSE i \in old.lodged}]

\* The reference is looked for in every index, alone in the unique ones.
remove_document(id) ==
  LET old == docs[id] IN
  /\ old # NoDocument /\ Mutable(id)
  /\ ToSet(SchemaFor(old).indices) \subseteq old.indexed
  /\ UniqueIndices(SchemaFor(old)) \cap old.lodged = {}

-----------------------------------------------------------------------------
(* Application of a batch, one transition after the other.                 *)

Current == running.batch[running.next]

Applying(action) == running # NoBatch /\ ~ running.stopped /\ Current.action = action

Advance ==
  running' = IF running.next = Len(running.batch) THEN NoBatch
             ELSE [running EXCEPT !.next = @ + 1]

document_from_transition_create(t, owner) ==
  [id |-> t.id, type |-> t.type, owner |-> owner, revision |-> INITIAL_REVISION,
   created |-> t.created, updated |-> t.updated, data |-> t.data,
   indexed |-> {}, lodged |-> {}]

\* What was fetched before the batch, with the data of the transition.
document_from_fetched(t, fetched) ==
  LET document == CHOOSE d \in fetched : d.id = t.id IN
  [document EXCEPT !.revision = t.revision, !.data = t.data, !.updated = t.updated]

ApplyCreate ==
  /\ Applying("create")
  /\ LET document == document_from_transition_create(Current, running.owner) IN
     /\ create_document(document)
     /\ docs' = [docs EXCEPT ![document.id] = Created(document)]
  /\ Advance
  /\ UNCHANGED <<clients, contracts, kept, copies, removed, now, batches>>

ApplyReplace ==
  /\ Applying("replace")
  /\ LET document == document_from_fetched(Current, running.fetched) IN
     /\ update_document(document)
     /\ docs' = [docs EXCEPT ![document.id] = Updated(document)]
  /\ Advance
  /\ UNCHANGED <<clients, contracts, kept, copies, removed, now, batches>>

ApplyDelete ==
  /\ Applying("delete")
  /\ remove_document(Current.id)
  /\ docs' = [docs EXCEPT ![Current.id] = NoDocument]
  /\ removed' = removed \cup {Current.id}
  /\ Advance
  /\ UNCHANGED <<clients, contracts, kept, copies, now, batches>>

\* The store refuses the transition: the application ends with its error, and
\* what was applied before stays.
ApplyStops ==
  /\ \/ Applying("create") /\ ~ create_document(document_from_transition_create(Current, running.owner))
     \/ Applying("replace") /\ ~ update_document(document_from_fetched(Current, running.fetched))
     \/ Applying("delete") /\ ~ remove_document(Current.id)
  /\ running' = [running EXCEPT !.stopped = TRUE]
  /\ UNCHANGED <<clients, docs, contracts, kept, copies, removed, now, batches>>

\* The caller takes the error of the batch and goes on with the block.
GoOn ==
  /\ running # NoBatch /\ running.stopped
  /\ running' = NoBatch
  /\ UNCHANGED <<clients, docs, contracts, kept, copies, removed, now, batches>>

-----------------------------------------------------------------------------
(* Updates of contracts, and blocks.                                       *)

\* Validation and application of an update transition.
UpdateContract(c, new) ==
  /\ running = NoBatch
  /\ c \in DOMAIN contracts
  /\ UpdateAdmitted(contracts[c], new)
  /\ contracts' = [contracts EXCEPT ![c] = new]
  /\ UNCHANGED <<clients, docs, kept, copies, removed, now, running, batches>>

CommitBlock ==
  /\ running = NoBatch
  /\ kept' = [docs |-> docs, contracts |-> contracts]
  /\ copies' = copies \cup Stored
  /\ now' \in {now, now + 1} /\ now' <= MaxTime
  /\ UNCHANGED <<clients, docs, contracts, removed, running, batches>>

\* The block is given up, or the node restarts in the middle of it.
AbortBlock ==
  /\ docs' = kept.docs /\ contracts' = kept.contracts
  /\ running' = NoBatch
  /\ UNCHANGED <<clients, kept, copies, removed, now, batches>>

Next ==
  \/ \E owner \in Owners, batch \in Batches : Deliver(owner, batch)
  \/ ApplyCreate \/ ApplyReplace \/ ApplyDelete \/ ApplyStops \/ GoOn
  \/ \E c \in DOMAIN clients.updates : \E new \in clients.updates[c] : UpdateContract(c, new)
  \/ CommitBlock \/ AbortBlock

Spec == Init /\ [][Next]_vars

-----------------------------------------------------------------------------
(* Properties.                                                             *)

IsDocument(d, id) ==
  d \in Document /\ d.id = id /\ d.type = id.type /\ d.owner = id.owner

\* Types of the variables; a stored document is the one its id was generated
\* for.
TypeOK ==
  /\ DOMAIN docs = Ids
  /\ \A id \in Ids : docs[id] # NoDocument => IsDocument(docs[id], id)
  /\ DOMAIN contracts = DOMAIN InitialContracts
  /\ now \in 0 .. MaxTime /\ batches \in 0 .. MaxBatches
  /\ running # NoBatch => running.next \in 1 .. Len(running.batch)

NamesTwice(batch, id) == Cardinality({k \in DOMAIN batch : batch[k].id = id}) > 1

AbortsBlock == docs' = kept.docs /\ contracts' = kept.contracts /\ running' = NoBatch

\* A replace writes over the version of the document that its sender had
\* seen, however late or often it is delivered: no other update is lost under
\* it.  Not so when a batch names the document twice, which no check refuses,
\* and when the document was deleted and created again, which starts the
\* revisions anew (check_revision; apply_documents_batch_transition).
NoLostUpdate ==
  [][ApplyReplace => \/ Current.base = docs[Current.id].data
                     \/ NamesTwice(running.batch, Current.id)
                     \/ Current.id \in removed]_vars

\* The document that a transition of the batch b writes.
Written(t, b) ==
  IF t.action = "create" THEN document_from_transition_create(t, b.owner)
  ELSE document_from_fetched(t, b.fetched)

\* Two documents of a type have the same values in a unique index, and lack none.
Clash(d, e) ==
  /\ d.id.contract = e.id.contract /\ d.type = e.type
  /\ \E index \in UniqueIndices(SchemaFor(d)) :
       Values(d, index) = Values(e, index) /\ ~ Lacks(d, index)

\* Another document has the same values in a unique index, some but not all of
\* them missing: one of the two may stand alone there.
Crowded(d) ==
  \E index \in UniqueIndices(SchemaFor(d)) :
    Lacks(d, index) /\ ~ LacksAll(d, index) /\ Twins(d, index) # {}

\* A stored document that the store may not let go: it is immutable, it lacks a
\* property of a unique index, or an index got properties after it was written.
Stuck(id) ==
  \/ ~ Mutable(id)
  \/ \E index \in UniqueIndices(SchemaFor(docs[id])) : Lacks(docs[id], index)
  \/ ~ ToSet(SchemaFor(docs[id]).indices) \subseteq docs[id].indexed

\* A validated batch stops in the middle only
\*  - when it names a document twice,
\*  - at a transition that the check of the unique indices had found fault with,
\*    whose result is dropped,
\*  - at one that agrees on a unique index with an earlier one of the batch,
\*  - at one that writes some but not all properties of a unique index and finds
\*    a document that has the same, or
\*  - at one that replaces or deletes a document that is stuck,
\* and the validation looks for none of the last three
\* (validate_document_transitions; validate_documents_uniqueness_by_indices;
\* apply_documents_batch_transition; the store's create, update and remove).
StopsOnlyOnClash ==
  running # NoBatch /\ running.stopped =>
    \/ NamesTwice(running.batch, Current.id)
    \/ Current.id \in running.duplicates
    \/ /\ Current.action # "delete"
       /\ \/ Crowded(Written(Current, running))
          \/ \E k \in 1 .. running.next - 1 :
               /\ running.batch[k].action # "delete"
               /\ Clash(Written(Current, running), Written(running.batch[k], running))
    \/ Current.action # "create" /\ Stuck(Current.id)

\* A document that stays keeps its type, its owner and the time at which it
\* was created, and only a batch of its owner changes or removes it; giving
\* the block up restores what was committed (check_ownership;
\* document_from_fetched).
OwnersOnly ==
  [][\A id \in Ids :
       docs[id] # NoDocument /\ docs'[id] # docs[id] /\ ~ AbortsBlock =>
         /\ running # NoBatch /\ running.owner = docs[id].owner
         /\ docs'[id] # NoDocument => /\ docs'[id].owner = docs[id].owner
                                      /\ docs'[id].type = docs[id].type
                                      /\ docs'[id].created = docs[id].created]_vars

IsDomain(d) == d.id.contract = "dpns" /\ d.type = "domain"

\* e has the name that is the parent of d's.
IsParent(e, d) ==
  IsDomain(e) /\ e.data.label = Head(d.data.parent) /\ e.data.parent = Tail(d.data.parent)

\* A domain is created under the domain above it: when that is neither stored
\* nor was committed at some time, a domain has been deleted (the read of the
\* parent in create_domain_data_trigger).  Replacing a domain may move it
\* anywhere: that the registry rejects it is a condition, and dropped.
DomainsUnderParents ==
  \A d \in Stored : IsDomain(d) /\ d.revision = INITIAL_REVISION /\ d.data.parent # <<>> =>
    \/ \E e \in Stored \cup copies : IsParent(e, d)
    \/ \E id \in removed : id.contract = "dpns" /\ id.type = "domain"

InPlace(d) ==
  LET properties == SchemaOf(d.id.contract, d.type).properties IN
  {p \in DOMAIN d.data \cap DOMAIN properties : "ref" \notin DOMAIN properties[p]}

\* Every stored document satisfies the schema of its contract as it now is,
\* after any sequence of updates, but for properties that refer to the
\* contract's definitions (validate_raw_transition;
\* validate_schema_compatibility).
StoredValid ==
  \A d \in Stored :
    LET schema == SchemaOf(d.id.contract, d.type) IN
    /\ DOMAIN d.data \subseteq DOMAIN schema.properties
    /\ RequiredFields(schema) \subseteq DOMAIN d.data
    /\ \A p \in InPlace(d) : d.data[p] \in TypeValues[schema.properties[p].type]

\* Every stored document stays entered under every unique index of its type,
\* whatever updates of the contract are admitted: otherwise a second document
\* with the same values would find the index free
\* (validate_indices_are_backward_compatible).
UniqueStillIndexed ==
  \A d \in Stored : UniqueIndices(SchemaOf(d.id.contract, d.type)) \subseteq d.indexed

\* Stored documents fit the contract as it was updated: its schema and its unique
\* indices (validate_data_contract_update_transition_basic).
DocumentsFit == TypeOK /\ StoredValid /\ UniqueStillIndexed
=============================================================================
