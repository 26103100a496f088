------------------------ MODULE DocumentsBatchProofs ------------------------
(***************************************************************************)
(* What the validation of documents batches guarantees for any contracts,  *)
(* clients and sizes of batches: stored documents fit their contracts as   *)
(* they are updated, only owners change documents, no update is lost,      *)
(* batches stop only at clashes, and domains are created under parents.    *)
(*                                                                         *)
(* While a batch is applied neither the contracts nor the copies change,   *)
(* so that what its validation saw still holds of it: the invariant keeps  *)
(* ValidBasic, and says of each transition that is not applied yet what    *)
(* the transitions before it can have changed.                             *)
(***************************************************************************)
EXTENDS DocumentsBatch, FiniteSetTheorems, SequenceTheorems, TLAPS

\* A table of documents, each under its id.
IsTable(f) ==
  /\ f \in [Ids -> Document \cup {NoDocument}]
  /\ \A id \in Ids : f[id] # NoDocument => IsDocument(f[id], id)

\* The contracts of a state: the initial ones, updated.
AreContracts(cs) ==
  DOMAIN cs = DOMAIN InitialContracts /\ \A c \in DOMAIN cs : WellFormed(cs[c])

\* Of the unique indices a document is lodged in those only that it lacks a
\* property of, and in all that it has none of.
LodgedIn(d, indices) ==
  \A i \in indices : /\ i \in d.lodged => Lacks(d, i)
                     /\ LacksAll(d, i) => i \in d.lodged

\* A document that fits the schema of its type in cs and is entered under its
\* unique indices.
FitsIn(d, cs) ==
  /\ d.id.contract \in DOMAIN cs
  /\ d.type \in DOMAIN cs[d.id.contract].documents
  /\ LET schema == cs[d.id.contract].documents[d.type] IN
     /\ DOMAIN d.data \subseteq DOMAIN schema.properties
     /\ RequiredFields(schema) \subseteq DOMAIN d.data
     /\ \A p \in DOMAIN d.data :
          "ref" \notin DOMAIN schema.properties[p] =>
            d.data[p] \in TypeValues[schema.properties[p].type]
     /\ UniqueIndices(schema) \subseteq d.indexed
     /\ LodgedIn(d, UniqueIndices(schema))

AllFit(f, cs) == \A id \in Ids : f[id] # NoDocument => FitsIn(f[id], cs)

\* The state outside of the batch that is applied.
StateInv ==
  /\ clients \in Clients
  /\ IsTable(docs) /\ IsTable(kept.docs)
  /\ AreContracts(contracts) /\ AreContracts(kept.contracts)
  /\ \A c \in copies : c.id \in Ids /\ IsDocument(c, c.id)
  /\ now \in 0 .. MaxTime /\ batches \in 0 .. MaxBatches
  /\ AllFit(docs, contracts) /\ AllFit(kept.docs, kept.contracts)

-----------------------------------------------------------------------------
(* The batch that is applied.                                              *)

\* A transition that was applied names the document.
Touched(id) == \E j \in 1 .. running.next - 1 : running.batch[j].id = id

\* A transition as the factory makes it.
Made(t) ==
  /\ t.id \in Ids /\ t.contract = t.id.contract /\ t.type = t.id.type
  /\ t.action \in {"create", "replace", "delete"}
  /\ t.created \in Nat \cup {NoTime} /\ t.updated \in Nat \cup {NoTime}
  /\ t.action = "create" => (t.created = NoTime <=> t.updated = NoTime)
  /\ t.action # "delete" => t.data \in clients.data[t.type]
  /\ t.action = "replace" =>
       /\ t.updated = NoTime
       /\ \E c \in copies : /\ c.id = t.id /\ c.revision < MaxRevision
                           /\ t.revision = c.revision + 1 /\ t.base = c.data

\* A transition that its contract admits.
Admitted(t) ==
  /\ t.contract \in DOMAIN contracts
  /\ t.type \in DOMAIN contracts[t.contract].documents
  /\ t.action # "delete" => Conforms(contracts[t.contract], t.type, t.data)

\* The batch is what a client sent, still admitted, and sent by the owner of
\* all its documents.
SentInv ==
  running # NoBatch =>
    /\ DOMAIN running = {"owner", "batch", "next", "stopped", "fetched", "duplicates"}
    /\ running.owner \in Owners
    /\ Len(running.batch) \in Nat /\ DOMAIN running.batch = 1 .. Len(running.batch)
    /\ running.next \in 1 .. Len(running.batch)
    /\ \A k \in DOMAIN running.batch :
         /\ Made(running.batch[k]) /\ Admitted(running.batch[k])
         /\ running.batch[k].id.owner = running.owner

\* Documents, one under an id.
AreFetched(fetched) ==
  /\ \A d \in fetched : d.id \in Ids /\ IsDocument(d, d.id)
  /\ \A d, e \in fetched : d.id = e.id => d = e

\* What was fetched are documents as they were at the validation: the ones that
\* the batch replaces, and none that it creates.
FetchedInv ==
  running # NoBatch =>
    /\ AreFetched(running.fetched)
    /\ \A d \in running.fetched :
         /\ docs[d.id] # NoDocument => docs[d.id].created = d.created
         /\ ~ Touched(d.id) => docs[d.id] = d
    /\ \A k \in DOMAIN running.batch :
         /\ running.batch[k].action = "replace" =>
              \E d \in running.fetched : /\ d.id = running.batch[k].id
                                         /\ running.batch[k].revision = d.revision + 1
         /\ running.batch[k].action = "create" =>
              \A d \in running.fetched : d.id # running.batch[k].id

\* Until a document is touched it is there, unless the batch creates it.
PresenceInv ==
  running # NoBatch =>
    \A k \in DOMAIN running.batch :
      ~ Touched(running.batch[k].id) =>
        (running.batch[k].action = "create" <=> docs[running.batch[k].id] = NoDocument)

\* What an index is made of is the same in both.
Same(d, e) ==
  /\ d.id = e.id /\ d.type = e.type /\ d.owner = e.owner
  /\ d.created = e.created /\ d.updated = e.updated /\ d.data = e.data

\* A document o that is stored agrees with d, which is to be written, on a unique
\* index; not on one of the time of creation, which a replace leaves alone.
Rival(action, d, o) ==
  /\ o.id # d.id /\ o.type = d.type /\ o.id.contract = d.id.contract
  /\ \E index \in UniqueIndices(SchemaFor(d)) :
       /\ Values(d, index) = Values(o, index) /\ ~ Lacks(d, index)
       /\ action = "replace" => \E p \in ToSet(index.properties) : p # "$createdAt"

\* It was found by the check of uniqueness, or was written by the batch.
RivalsInv ==
  running # NoBatch =>
    \A k \in DOMAIN running.batch : running.batch[k].action # "delete" =>
      \A id \in Ids :
        docs[id] # NoDocument
        /\ Rival(running.batch[k].action, Written(running.batch[k], running), docs[id]) =>
          \/ running.batch[k].id \in running.duplicates
          \/ \E j \in 1 .. running.next - 1 :
               running.batch[j].action # "delete"
               /\ Same(Written(running.batch[j], running), docs[id])

BatchInv == SentInv /\ FetchedInv /\ PresenceInv /\ RivalsInv

-----------------------------------------------------------------------------
(* Versions of documents: a document that was never deleted has one content *)
(* per revision among its committed versions, and what is stored follows    *)
(* what is committed.                                                       *)

\* d is the version e or a later one.
Follows(d, e) ==
  e.revision < d.revision \/ (e.revision = d.revision /\ e.data = d.data)

VersionsInv ==
  /\ \A id \in Ids \ removed :
       /\ \A c \in copies : c.id = id => kept.docs[id] # NoDocument /\ Follows(kept.docs[id], c)
       /\ kept.docs[id] # NoDocument => docs[id] # NoDocument /\ Follows(docs[id], kept.docs[id])
  /\ running # NoBatch =>
       \A d \in running.fetched :
         d.id \notin removed /\ kept.docs[d.id] # NoDocument =>
           kept.docs[d.id].revision <= d.revision

-----------------------------------------------------------------------------
(* Domains: a parent is looked for among what was committed and what the    *)
(* batch has not touched.                                                   *)

DomainRemoved == \E id \in removed : id.contract = "dpns" /\ id.type = "domain"

Settled(id) == docs[id] # NoDocument /\ (running # NoBatch => ~ Touched(id))

HasParent(d) ==
  \/ \E c \in copies : IsParent(c, d)
  \/ \E id \in Ids : Settled(id) /\ IsParent(docs[id], d)
  \/ DomainRemoved

ChildDomain(d) == IsDomain(d) /\ d.revision = INITIAL_REVISION /\ d.data.parent # <<>>

DomainsInv ==
  /\ \A id \in Ids : docs[id] # NoDocument /\ ChildDomain(docs[id]) => HasParent(docs[id])
  /\ \A id \in Ids : kept.docs[id] # NoDocument /\ ChildDomain(kept.docs[id]) =>
       (\E c \in copies : IsParent(c, kept.docs[id])) \/ DomainRemoved
  /\ \A id \in Ids : kept.docs[id] # NoDocument => kept.docs[id] \in copies
  /\ running # NoBatch =>
       \A k \in DOMAIN running.batch :
         LET t == running.batch[k] IN
         t.action = "create" /\ IsDomain(t) /\ t.data.parent # <<>> => HasParent(t)

BatchesInv == StateInv /\ BatchInv /\ VersionsInv /\ DomainsInv /\ StopsOnlyOnClash

-----------------------------------------------------------------------------
(* Lemmas about the operators.                                             *)

\* What clients send is made by the factory (DocumentFactory).
LEMMA BatchesAreMade ==
  ASSUME StateInv, NEW batch \in Batches
  PROVE  /\ Len(batch) \in Nat \ {0} /\ DOMAIN batch = 1 .. Len(batch)
         /\ \A k \in DOMAIN batch : Made(batch[k])
<1>1. PICK n \in 1 .. clients.size : batch \in [1 .. n -> DocumentTransitions]
  BY DEF Batches
<1>2. clients.size \in Nat BY ClientsAssumption DEF StateInv
<1>3. Len(batch) = n /\ n \in Nat \ {0} /\ DOMAIN batch = 1 .. n
  BY <1>1, <1>2, LenProperties
<1>4. ASSUME NEW t \in DocumentTransitions PROVE Made(t)
  <2>1. CASE t \in DocumentCreateTransitions
    <3>1. PICK id \in Ids : \E created \in Times(id), updated \in Times(id), data \in clients.data[id.type] :
            t = Transition("create", id, INITIAL_REVISION, created, updated, data, NoDocument)
      BY <2>1 DEF DocumentCreateTransitions
    <3>2. Times(id) \subseteq Nat \cup {NoTime}
          /\ \A x, y \in Times(id) : x = NoTime <=> y = NoTime
      BY BoundAssumption, TimeAssumption DEF Times
    <3> QED BY <3>1, <3>2 DEF Transition, DocumentBaseTransition, Made
  <2>2. CASE t \in DocumentReplaceTransitions
    <3>1. PICK copy \in copies :
            copy.revision < MaxRevision /\ \E data \in clients.data[copy.type] :
              t = Transition("replace", copy.id, copy.revision + 1, NoTime, NoTime, data, copy.data)
      BY <2>2 DEF DocumentReplaceTransitions
    <3>2. copy.id \in Ids /\ copy.type = copy.id.type
      BY DEF StateInv, IsDocument
    <3> QED BY <3>1, <3>2 DEF Transition, DocumentBaseTransition, Made
  <2>3. CASE t \in DocumentDeleteTransitions
    BY <2>3 DEF DocumentDeleteTransitions, Transition, DocumentBaseTransition, Made
  <2> QED BY <1>4, <2>1, <2>2, <2>3 DEF DocumentTransitions
<1> QED BY <1>1, <1>3, <1>4

\* A batch that two of its transitions name a document in.
LEMMA TwiceNamed ==
  ASSUME NEW batch, NEW n \in Nat, DOMAIN batch = 1 .. n, NEW id,
         NEW j \in 1 .. n, NEW k \in 1 .. n, j # k,
         batch[j].id = id, batch[k].id = id
  PROVE  NamesTwice(batch, id)
<1> DEFINE S == {m \in DOMAIN batch : batch[m].id = id}
<1>1. IsFiniteSet(1 .. n) BY FS_Interval
<1>2. IsFiniteSet(S) BY <1>1, FS_Subset
<1>3. {j, k} \subseteq S OBVIOUS
<1>4. Cardinality({j, k}) <= Cardinality(S) BY <1>2, <1>3, FS_Subset
<1>5. IsFiniteSet({j}) /\ Cardinality({j}) = 1 BY FS_Singleton
<1>6. Cardinality({j} \cup {k}) = 2
  <2>1. Cardinality({j} \cup {k}) =
          IF k \in {j} THEN Cardinality({j}) ELSE Cardinality({j}) + 1
    BY <1>5, FS_AddElement
  <2> QED BY <1>5, <2>1
<1>7. {j} \cup {k} = {j, k} OBVIOUS
<1>8. Cardinality(S) \in Nat BY <1>2, FS_CardinalityType
<1>9. Cardinality(S) > 1
  <2>1. Cardinality({j, k}) = 2 BY <1>6, <1>7
  <2> DEFINE card == Cardinality(S)
  <2>2. card \in Nat /\ 2 <= card BY <1>4, <1>8, <2>1
  <2> HIDE DEF card
  <2>3. card > 1 BY <2>2
  <2> QED BY <2>3 DEF card
<1> QED BY <1>9 DEF NamesTwice

\* A prefix of a sequence has no other elements.
LEMMA PrefixElements ==
  ASSUME NEW S, NEW s \in Seq(S), NEW t \in Seq(S), IsPrefix(s, t)
  PROVE  ToSet(s) \subseteq ToSet(t)
BY DEF IsPrefix, ToSet

\* An update that is admitted has the unique indices of the old schema and no
\* other: no unique index is new, indices keep their place and their name, and
\* names do not repeat (validate_indices_are_backward_compatible).
LEMMA UpdateKeepsUniqueIndices ==
  ASSUME NEW old, NEW new, WellFormed(old), WellFormed(new), UpdateAdmitted(old, new),
         NEW type \in DOMAIN old.documents
  PROVE  /\ type \in DOMAIN new.documents
         /\ UniqueIndices(new.documents[type]) \subseteq UniqueIndices(old.documents[type])
<1> DEFINE before == old.documents[type]
           after == new.documents[type]
<1>1. type \in DOMAIN new.documents
  BY DEF UpdateAdmitted, IndicesBackwardCompatible
<1>2. /\ ~ ChangedOldUniqueIndex(before, after)
      /\ PropertiesCompatible(before, after)
      /\ validate_index_duplicates(after)
  BY <1>1 DEF UpdateAdmitted, IndicesBackwardCompatible, validate_schema_compatibility,
              DataContractValidator
<1>3. before.indices \in Seq(IndexDefinition) /\ after.indices \in Seq(IndexDefinition)
  BY <1>1 DEF WellFormed
<1> HIDE DEF before, after
<1>4. ASSUME NEW i \in UniqueIndices(after) PROVE i \in UniqueIndices(before)
  <2>1. PICK k \in DOMAIN after.indices : i = after.indices[k] /\ i.unique
    BY DEF UniqueIndices, ToSet
  <2>2. DOMAIN before.indices = DOMAIN after.indices
    BY <1>2, <1>3 DEF PropertiesCompatible
  <2>3. /\ before.indices[k].name = i.name
        /\ before.indices[k].unique
    BY <1>2, <2>1, <2>2 DEF PropertiesCompatible
  <2>4. before.indices[k] \in UniqueIndices(before)
    BY <2>1, <2>2, <2>3 DEF UniqueIndices, ToSet
  <2>5. before.indices[k] \in ToSet(after.indices)
    BY <1>2, <2>4 DEF ChangedOldUniqueIndex, IndexByName
  <2>6. PICK m \in DOMAIN after.indices : after.indices[m] = before.indices[k]
    BY <2>5 DEF ToSet
  <2>7. m = k
    BY <1>2, <2>1, <2>3, <2>6 DEF validate_index_duplicates
  <2> QED BY <2>1, <2>4, <2>6, <2>7
<1> QED BY <1>1, <1>4 DEF before, after

\* A document that fits a contract fits its update
\* (validate_schema_compatibility).
LEMMA UpdateKeepsFit ==
  ASSUME NEW old, NEW new, WellFormed(old), WellFormed(new), UpdateAdmitted(old, new),
         NEW cs, NEW c \in DOMAIN cs, cs[c] = old, NEW d, FitsIn(d, cs)
  PROVE  FitsIn(d, [cs EXCEPT ![c] = new])
<1> DEFINE after == [cs EXCEPT ![c] = new]
<1>1. DOMAIN after = DOMAIN cs /\ after[c] = new
      /\ \A b \in DOMAIN cs \ {c} : after[b] = cs[b]
  OBVIOUS
<1> HIDE DEF after
<1>2. CASE d.id.contract # c
  BY <1>1, <1>2 DEF FitsIn, after
<1>3. CASE d.id.contract = c
  <2> DEFINE s == old.documents[d.type]
             n == new.documents[d.type]
  <2>1. d.type \in DOMAIN old.documents BY <1>3 DEF FitsIn
  <2>2. /\ d.type \in DOMAIN new.documents
        /\ UniqueIndices(n) \subseteq UniqueIndices(s)
    BY <2>1, UpdateKeepsUniqueIndices
  <2>3. /\ \A p \in DOMAIN s.properties :
             p \in DOMAIN n.properties /\ n.properties[p] = s.properties[p]
        /\ IsPrefix(n.required, s.required)
    BY <2>1 DEF UpdateAdmitted, validate_schema_compatibility, PropertiesCompatible,
                is_operation_move_remove_compatible
  <2>4. n.required \in Seq(STRING) /\ s.required \in Seq(STRING)
    BY <2>1, <2>2 DEF WellFormed
  <2>5. /\ DOMAIN d.data \subseteq DOMAIN s.properties
        /\ RequiredFields(s) \subseteq DOMAIN d.data
        /\ \A p \in DOMAIN d.data :
             "ref" \notin DOMAIN s.properties[p] =>
               d.data[p] \in TypeValues[s.properties[p].type]
        /\ UniqueIndices(s) \subseteq d.indexed
        /\ LodgedIn(d, UniqueIndices(s))
    BY <1>3 DEF FitsIn
  <2> HIDE DEF s, n
  <2>6. RequiredFields(n) \subseteq RequiredFields(s)
    BY <2>3, <2>4, PrefixElements DEF RequiredFields
  <2>7. /\ DOMAIN d.data \subseteq DOMAIN n.properties
        /\ RequiredFields(n) \subseteq DOMAIN d.data
        /\ \A p \in DOMAIN d.data :
             "ref" \notin DOMAIN n.properties[p] =>
               d.data[p] \in TypeValues[n.properties[p].type]
        /\ UniqueIndices(n) \subseteq d.indexed
    BY <2>2, <2>3, <2>5, <2>6
  <2>9. LodgedIn(d, UniqueIndices(n)) BY <2>2, <2>5 DEF LodgedIn
  <2>8. after[d.id.contract].documents[d.type] = n
    BY <1>1, <1>3 DEF n
  <2> QED BY <1>1, <1>3, <2>2, <2>7, <2>8, <2>9 DEF FitsIn, after
<1> QED BY <1>2, <1>3

\* A document that is written with the data of an admitted transition and
\* entered under the indices of its type fits.
LEMMA AdmittedFits ==
  ASSUME AreContracts(contracts), NEW t, Admitted(t), t.action # "delete",
         NEW d, d.id.contract = t.contract, d.type = t.type, d.data = t.data,
         UniqueIndices(SchemaFor(d)) \subseteq d.indexed,
         LodgedIn(d, UniqueIndices(SchemaFor(d)))
  PROVE  FitsIn(d, contracts)
<1> DEFINE schema == contracts[t.contract].documents[t.type]
<1>1. /\ t.contract \in DOMAIN contracts
      /\ t.type \in DOMAIN contracts[t.contract].documents
      /\ DOMAIN t.data \subseteq DOMAIN schema.properties
      /\ RequiredFields(schema) \subseteq DOMAIN t.data
      /\ \A p \in DOMAIN t.data :
           t.data[p] \in TypeValues[ResolveReference(contracts[t.contract], schema.properties[p]).type]
  BY DEF Admitted, Conforms
<1>2. \A p \in DOMAIN t.data :
        "ref" \notin DOMAIN schema.properties[p] =>
          t.data[p] \in TypeValues[schema.properties[p].type]
  BY <1>1 DEF ResolveReference
<1>3. SchemaFor(d) = schema
  BY DEF SchemaFor, SchemaOf
<1> QED BY <1>1, <1>2, <1>3 DEF FitsIn

-----------------------------------------------------------------------------
(* Values of indices, and how the store enters documents.                  *)

\* What indices are made of decides what they hold.
LEMMA SameValues ==
  ASSUME NEW d, NEW e, Same(d, e), NEW index
  PROVE  /\ Values(d, index) = Values(e, index)
         /\ Lacks(d, index) <=> Lacks(e, index)
         /\ LacksAll(d, index) <=> LacksAll(e, index)
<1>1. \A p : Property(d, p) = Property(e, p)
  BY DEF Same, Property
<1> QED BY <1>1 DEF Values, Lacks, LacksAll

\* Documents with the same values lack the same properties.
LEMMA EqualValues ==
  ASSUME NEW d, NEW e, NEW index, Values(d, index) = Values(e, index)
  PROVE  /\ \A p \in ToSet(index.properties) : Property(d, p) = Property(e, p)
         /\ Lacks(d, index) <=> Lacks(e, index)
         /\ LacksAll(d, index) <=> LacksAll(e, index)
<1>1. ASSUME NEW p \in ToSet(index.properties)
      PROVE  Property(d, p) = Property(e, p)
  <2>1. Values(d, index)[p] = Property(d, p) /\ Values(e, index)[p] = Property(e, p)
    BY DEF Values
  <2> QED BY <2>1
<1> QED BY <1>1 DEF Lacks, LacksAll

\* The indices of a type have properties.
LEMMA IndexHasProperty ==
  ASSUME AreContracts(contracts), NEW c \in DOMAIN contracts,
         NEW type \in DOMAIN contracts[c].documents
  PROVE  /\ ToSet(SchemaOf(c, type).indices) \subseteq IndexDefinition
         /\ \A i \in ToSet(SchemaOf(c, type).indices) :
              \E p : p \in ToSet(i.properties)
<1> DEFINE schema == SchemaOf(c, type)
<1>1. WellFormed(contracts[c]) BY DEF AreContracts
<1>2. /\ schema.indices \in Seq(IndexDefinition)
      /\ \A m \in DOMAIN schema.indices : schema.indices[m].properties # <<>>
  BY <1>1 DEF WellFormed, SchemaOf
<1> HIDE DEF schema
<1>3. ASSUME NEW i \in ToSet(schema.indices)
      PROVE  i \in IndexDefinition /\ \E p : p \in ToSet(i.properties)
  <2>1. PICK m \in DOMAIN schema.indices : i = schema.indices[m]
    BY DEF ToSet
  <2>2. schema.indices[m] \in IndexDefinition BY <1>2, <2>1, ElementOfSeq, LenProperties
  <2>3. i.properties \in Seq(STRING) /\ i.properties # <<>>
    BY <1>2, <2>1, <2>2 DEF IndexDefinition
  <2>4. Len(i.properties) \in Nat /\ Len(i.properties) # 0
    BY <2>3, LenProperties, EmptySeq
  <2>5. 1 \in DOMAIN i.properties BY <2>3, <2>4, LenProperties
  <2> QED BY <2>1, <2>2, <2>5 DEF ToSet
<1> QED BY <1>3 DEF schema

\* What the store keeps of a document that it creates.
LEMMA CreatedFits ==
  ASSUME StateInv, NEW t, Admitted(t), t.action # "delete",
         NEW d \in Document, d.id.contract = t.contract, d.type = t.type, d.data = t.data
  PROVE  /\ Created(d) \in Document /\ Same(Created(d), d)
         /\ Created(d).revision = d.revision
         /\ FitsIn(Created(d), contracts)
<1> DEFINE schema == SchemaFor(d)
           ix == ToSet(schema.indices)
           lo == {i \in UniqueIndices(schema) : Lacks(d, i)}
<1>1. PICK new : new = Created(d) OBVIOUS
<1>2. schema = SchemaOf(t.contract, t.type) BY DEF SchemaFor
<1>3. AreContracts(contracts) BY DEF StateInv
<1>4. t.contract \in DOMAIN contracts /\ t.type \in DOMAIN contracts[t.contract].documents
  BY DEF Admitted
<1>5. ix \subseteq IndexDefinition /\ \A i \in ix : \E p : p \in ToSet(i.properties)
  BY <1>2, <1>3, <1>4, IndexHasProperty
<1>6. UniqueIndices(schema) \subseteq ix BY DEF UniqueIndices
<1>7. new = [d EXCEPT !.indexed = ix, !.lodged = lo]
  BY <1>1 DEF Created
<1> HIDE DEF ix
<1>8. lo \in SUBSET IndexDefinition BY <1>5, <1>6
<1> HIDE DEF lo
<1>9. /\ new \in Document /\ Same(new, d) /\ new.revision = d.revision
      /\ new.indexed = ix /\ new.lodged = lo
  BY <1>5, <1>7, <1>8 DEF Document, Same
<1>10. SchemaFor(new) = schema BY <1>9 DEF Same, SchemaFor
<1> HIDE DEF schema
<1>11. LodgedIn(new, UniqueIndices(schema))
  <2> SUFFICES ASSUME NEW i \in UniqueIndices(schema)
               PROVE  /\ i \in new.lodged => Lacks(new, i)
                      /\ LacksAll(new, i) => i \in new.lodged
    BY DEF LodgedIn
  <2>1. i \in new.lodged <=> Lacks(d, i) BY <1>9 DEF lo
  <2>2. Lacks(d, i) <=> Lacks(new, i) BY <1>9, SameValues
  <2>3. LacksAll(new, i) => Lacks(new, i) BY <1>5, <1>6 DEF LacksAll, Lacks
  <2> QED BY <2>1, <2>2, <2>3
<1>12. /\ new.id.contract = t.contract /\ new.type = t.type /\ new.data = t.data
  BY <1>9 DEF Same
<1>13. FitsIn(new, contracts)
  BY <1>3, <1>6, <1>9, <1>10, <1>11, <1>12, AdmittedFits
<1> QED BY <1>1, <1>9, <1>13

\* What the store keeps of a document that it updates.
LEMMA UpdatedFits ==
  ASSUME StateInv, NEW t, Admitted(t), t.action # "delete", t.id \in Ids,
         t.contract = t.id.contract, t.type = t.id.type,
         docs[t.id] # NoDocument,
         NEW d \in Document, d.id = t.id, d.type = t.type, d.data = t.data
  PROVE  /\ Updated(d) \in Document /\ Same(Updated(d), d)
         /\ Updated(d).revision = d.revision
         /\ FitsIn(Updated(d), contracts)
<1> DEFINE schema == SchemaFor(d)
           old == docs[t.id]
           ix == old.indexed \cap ToSet(schema.indices)
           lo == {i \in UniqueIndices(schema) :
                    IF Moves(d, i) THEN LacksAll(d, i) ELSE i \in old.lodged}
<1>1. PICK new : new = Updated(d) OBVIOUS
<1>2. schema = SchemaOf(t.contract, t.type) BY DEF SchemaFor
<1>3. AreContracts(contracts) BY DEF StateInv
<1>4. t.contract \in DOMAIN contracts /\ t.type \in DOMAIN contracts[t.contract].documents
  BY DEF Admitted
<1>5. /\ ToSet(schema.indices) \subseteq IndexDefinition
      /\ \A i \in ToSet(schema.indices) : \E p : p \in ToSet(i.properties)
  BY <1>2, <1>3, <1>4, IndexHasProperty
<1>6. UniqueIndices(schema) \subseteq ToSet(schema.indices) BY DEF UniqueIndices
<1>7. new = [d EXCEPT !.indexed = ix, !.lodged = lo]
  BY <1>1 DEF Updated
<1>8. ix \in SUBSET IndexDefinition BY <1>5
<1>9. lo \in SUBSET IndexDefinition BY <1>5, <1>6
<1>10. /\ UniqueIndices(schema) \subseteq old.indexed
       /\ LodgedIn(old, UniqueIndices(schema))
  <2>1. FitsIn(old, contracts) /\ old.id = t.id /\ old.type = t.type
    BY DEF StateInv, AllFit, IsTable, IsDocument
  <2> QED BY <1>2, <2>1 DEF FitsIn, SchemaOf
<1>11. UniqueIndices(schema) \subseteq ix BY <1>6, <1>10
<1> HIDE DEF ix, lo
<1>12. /\ new \in Document /\ Same(new, d) /\ new.revision = d.revision
       /\ new.indexed = ix /\ new.lodged = lo
  BY <1>7, <1>8, <1>9 DEF Document, Same
<1>13. SchemaFor(new) = schema BY <1>12 DEF Same, SchemaFor
<1> HIDE DEF schema
<1>14. LodgedIn(new, UniqueIndices(schema))
  <2> SUFFICES ASSUME NEW i \in UniqueIndices(schema)
               PROVE  /\ i \in new.lodged => Lacks(new, i)
                      /\ LacksAll(new, i) => i \in new.lodged
    BY DEF LodgedIn
  <2>1. i \in new.lodged <=> IF Moves(d, i) THEN LacksAll(d, i) ELSE i \in old.lodged
    BY <1>12 DEF lo
  <2>2. (Lacks(d, i) <=> Lacks(new, i)) /\ (LacksAll(d, i) <=> LacksAll(new, i))
    BY <1>12, SameValues
  <2>3. LacksAll(d, i) => Lacks(d, i) BY <1>5, <1>6 DEF LacksAll, Lacks
  <2>4. CASE Moves(d, i)
    BY <2>1, <2>2, <2>3, <2>4
  <2>5. CASE ~ Moves(d, i)
    <3>1. Values(old, i) = Values(d, i) BY <2>5 DEF Moves
    <3>2. (Lacks(old, i) <=> Lacks(d, i)) /\ (LacksAll(old, i) <=> LacksAll(d, i))
      BY <3>1, EqualValues
    <3>3. (i \in old.lodged => Lacks(old, i)) /\ (LacksAll(old, i) => i \in old.lodged)
      BY <1>10 DEF LodgedIn
    <3> QED BY <2>1, <2>2, <2>5, <3>2, <3>3
  <2> QED BY <2>4, <2>5
<1>15. /\ new.id.contract = t.contract /\ new.type = t.type /\ new.data = t.data
  BY <1>12 DEF Same
<1>16. FitsIn(new, contracts)
  BY <1>3, <1>11, <1>12, <1>13, <1>14, <1>15, AdmittedFits
<1> QED BY <1>1, <1>12, <1>16

-----------------------------------------------------------------------------
(* One transition of the batch is applied.                                 *)

\* What every such step leaves alone.
Elsewhere == UNCHANGED <<clients, contracts, kept, copies, now, batches>>

\* The transition to be applied is one of the batch.
LEMMA CurrentIsSent ==
  ASSUME SentInv, running # NoBatch
  PROVE  /\ running.next \in DOMAIN running.batch
         /\ Made(Current) /\ Admitted(Current)
         /\ Current.id \in Ids /\ Current.id.owner = running.owner
BY DEF SentInv, Current, Made

\* The step from one transition to the next.
LEMMA AdvanceNext ==
  ASSUME SentInv, running # NoBatch, Advance, running' # NoBatch
  PROVE  /\ DOMAIN running' = DOMAIN running
         /\ running'.owner = running.owner /\ running'.batch = running.batch
         /\ running'.stopped = running.stopped /\ running'.fetched = running.fetched
         /\ running'.duplicates = running.duplicates
         /\ running'.next = running.next + 1
         /\ running'.next \in 1 .. Len(running.batch)
<1>1. running.next # Len(running.batch) /\ running' = [running EXCEPT !.next = @ + 1]
  BY DEF Advance
<1>2. /\ DOMAIN running = {"owner", "batch", "next", "stopped", "fetched", "duplicates"}
      /\ running.next \in 1 .. Len(running.batch) /\ Len(running.batch) \in Nat
  BY DEF SentInv
<1> QED BY <1>1, <1>2

\* The documents that are touched after the step: the one of the transition,
\* and the ones before.
LEMMA AdvanceTouches ==
  ASSUME SentInv, running # NoBatch, Advance, running' # NoBatch, NEW id
  PROVE  Touched(id)' <=> Touched(id) \/ id = Current.id
<1>1. /\ running'.batch = running.batch /\ running'.next = running.next + 1
      /\ running.next \in 1 .. Len(running.batch) /\ Len(running.batch) \in Nat
  BY AdvanceNext DEF SentInv
<1>2. Touched(id)' <=> \E j \in 1 .. running.next : running.batch[j].id = id
  BY <1>1 DEF Touched
<1>3. Touched(id) <=> \E j \in 1 .. running.next - 1 : running.batch[j].id = id
  BY DEF Touched
<1>4. 1 .. running.next = (1 .. running.next - 1) \cup {running.next}
  BY <1>1
<1> QED BY <1>2, <1>3, <1>4 DEF Current

\* Writing a document that fits keeps the state.
LEMMA WriteKeepsState ==
  ASSUME StateInv, NEW id \in Ids, NEW new \in Document \cup {NoDocument},
         new # NoDocument => IsDocument(new, id) /\ FitsIn(new, contracts),
         docs' = [docs EXCEPT ![id] = new], Elsewhere
  PROVE  StateInv'
<1>1. /\ clients' = clients /\ contracts' = contracts /\ kept' = kept /\ copies' = copies
      /\ now' = now /\ batches' = batches /\ Ids' = Ids
  BY DEF Elsewhere, Ids
<1>2. /\ DOMAIN docs' = Ids /\ docs'[id] = new
      /\ \A x \in Ids \ {id} : docs'[x] = docs[x]
  BY DEF StateInv, IsTable
<1>3. IsTable(docs)'
  BY <1>1, <1>2 DEF StateInv, IsTable, IsDocument
<1>4. AllFit(docs, contracts)'
  BY <1>1, <1>2 DEF StateInv, AllFit
<1>5. (IsTable(kept.docs) /\ AllFit(kept.docs, kept.contracts))'
  BY <1>1 DEF StateInv, IsTable, AllFit
<1>6. /\ clients' \in Clients
      /\ AreContracts(contracts') /\ AreContracts(kept.contracts')
      /\ \A c \in copies' : c.id \in Ids' /\ IsDocument(c, c.id)
      /\ now' \in 0 .. MaxTime /\ batches' \in 0 .. MaxBatches
  BY <1>1 DEF StateInv
<1> QED BY <1>3, <1>4, <1>5, <1>6 DEF StateInv, AreContracts

\* Made and admitted depend on nothing that such a step changes.
LEMMA SentStays ==
  ASSUME clients' = clients, contracts' = contracts, copies' = copies, NEW t
  PROVE  /\ Made(t) => Made(t)'
         /\ Admitted(t) => Admitted(t)'
BY DEF Made, Admitted, Ids

\* Writing what the transition says keeps what the invariant says of the rest
\* of the batch.
LEMMA WriteKeepsBatch ==
  ASSUME StateInv, BatchInv, running # NoBatch, Advance, Elsewhere,
         NEW id, id = Current.id, NEW new, docs' = [docs EXCEPT ![id] = new],
         new # NoDocument => Current.action # "delete" /\ Same(new, Written(Current, running)),
         new # NoDocument => \A d \in running.fetched : d.id = id => new.created = d.created
  PROVE  BatchInv'
<1> SUFFICES ASSUME running' # NoBatch PROVE BatchInv'
  BY DEF BatchInv, SentInv, FetchedInv, PresenceInv, RivalsInv
<1>1. /\ clients' = clients /\ contracts' = contracts /\ copies' = copies /\ Ids' = Ids
  BY DEF Elsewhere, Ids
<1>2. /\ DOMAIN running' = DOMAIN running
      /\ running'.owner = running.owner /\ running'.batch = running.batch
      /\ running'.fetched = running.fetched /\ running'.duplicates = running.duplicates
      /\ running'.next = running.next + 1
      /\ running'.next \in 1 .. Len(running.batch)
  BY AdvanceNext DEF BatchInv
<1>3. \A x : Touched(x)' <=> Touched(x) \/ x = id
  BY AdvanceTouches DEF BatchInv
<1>4. id \in Ids /\ running.next \in DOMAIN running.batch
      /\ running.next \in Nat
      /\ running.batch[running.next].id = id
  BY CurrentIsSent DEF BatchInv, Current, SentInv
<1>5. /\ docs'[id] = new
      /\ \A x \in Ids \ {id} : docs'[x] = docs[x]
  BY <1>4 DEF StateInv, IsTable
<1>6. SentInv'
  <2>1. \A k \in DOMAIN running.batch : Made(running.batch[k])' /\ Admitted(running.batch[k])'
    <3> SUFFICES ASSUME NEW k \in DOMAIN running.batch
                 PROVE  Made(running.batch[k])' /\ Admitted(running.batch[k])'
      OBVIOUS
    <3>1. PICK t : t = running.batch[k] OBVIOUS
    <3>2. Made(t) /\ Admitted(t) BY <3>1 DEF BatchInv, SentInv
    <3>3. Made(t)' /\ Admitted(t)' BY <1>1, <3>2, SentStays
    <3>4. t = running'.batch[k] BY <1>2, <3>1
    <3> QED BY <3>3, <3>4 DEF Made, Admitted
  <2> QED BY <1>2, <2>1 DEF BatchInv, SentInv
<1>7. FetchedInv'
  <2>1. ASSUME NEW d \in running.fetched
        PROVE  /\ d.id \in Ids /\ IsDocument(d, d.id)
               /\ docs'[d.id] # NoDocument => docs'[d.id].created = d.created
               /\ ~ Touched(d.id)' => docs'[d.id] = d
    <3>1. /\ d.id \in Ids /\ IsDocument(d, d.id)
          /\ docs[d.id] # NoDocument => docs[d.id].created = d.created
          /\ ~ Touched(d.id) => docs[d.id] = d
      BY DEF BatchInv, FetchedInv, AreFetched
    <3>2. CASE d.id = id BY <1>3, <1>5, <3>1, <3>2
    <3>3. CASE d.id # id BY <1>3, <1>5, <3>1, <3>3
    <3> QED BY <3>2, <3>3
  <2> QED BY <1>1, <1>2, <2>1 DEF BatchInv, FetchedInv, AreFetched
<1>8. PresenceInv'
  <2>1. ASSUME NEW k \in DOMAIN running.batch, ~ Touched(running.batch[k].id)'
        PROVE  running.batch[k].action = "create" <=> docs'[running.batch[k].id] = NoDocument
    <3>1. PICK x : x = running.batch[k].id OBVIOUS
    <3>2. ~ Touched(x)'
      BY <1>2, <2>1, <3>1 DEF Touched
    <3>3. ~ Touched(x) /\ x # id BY <1>3, <3>2
    <3>4. x \in Ids BY <3>1 DEF BatchInv, SentInv, Made
    <3>5. running.batch[k].action = "create" <=> docs[x] = NoDocument
      BY <3>1, <3>3 DEF BatchInv, PresenceInv
    <3> QED BY <1>5, <3>1, <3>3, <3>4, <3>5
  <2> QED BY <1>2, <2>1 DEF PresenceInv
<1>9. RivalsInv'
  <2>0. \A t : Written(t, running') = Written(t, running)
    BY <1>2 DEF Written
  <2>1. ASSUME NEW k \in DOMAIN running.batch, running.batch[k].action # "delete",
               NEW x \in Ids, docs'[x] # NoDocument,
               Rival(running.batch[k].action, Written(running.batch[k], running), docs'[x])
        PROVE  \/ running.batch[k].id \in running.duplicates
               \/ \E j \in 1 .. running.next :
                    running.batch[j].action # "delete"
                    /\ Same(Written(running.batch[j], running), docs'[x])
    <3>1. CASE x = id
      <4>1. /\ running.batch[running.next].action # "delete"
            /\ Same(Written(running.batch[running.next], running), docs'[x])
        BY <1>5, <2>1, <3>1 DEF Current, Same
      <4>2. running.next \in 1 .. running.next BY DEF BatchInv, SentInv
      <4> QED BY <4>1, <4>2
    <3>2. CASE x # id
      <4>1. docs[x] # NoDocument
            /\ Rival(running.batch[k].action, Written(running.batch[k], running), docs[x])
        BY <1>5, <2>1, <3>2
      <4>2. \/ running.batch[k].id \in running.duplicates
            \/ \E j \in 1 .. running.next - 1 :
                 running.batch[j].action # "delete"
                 /\ Same(Written(running.batch[j], running), docs[x])
        BY <2>1, <4>1 DEF BatchInv, RivalsInv
      <4>3. docs'[x] = docs[x] BY <1>5, <3>2
      <4>4. 1 .. running.next - 1 \subseteq 1 .. running.next
        BY <1>4
      <4> QED BY <4>2, <4>3, <4>4
    <3> QED BY <3>1, <3>2
  <2>2. running'.next - 1 = running.next
    BY <1>2, <1>4
  <2> SUFFICES ASSUME NEW k \in DOMAIN running.batch, running.batch[k].action # "delete",
                      NEW x \in Ids, docs'[x] # NoDocument,
                      Rival(running.batch[k].action, Written(running.batch[k], running), docs[x])'
               PROVE  \/ running.batch[k].id \in running.duplicates
                      \/ \E j \in 1 .. running.next :
                           running.batch[j].action # "delete"
                           /\ Same(Written(running.batch[j], running), docs'[x])
    BY <1>1, <1>2, <2>0, <2>2 DEF RivalsInv
  <2>3. Rival(running.batch[k].action, Written(running.batch[k], running), docs'[x])
    BY <1>1, <1>2, <2>0 DEF Rival, SchemaFor, SchemaOf
  <2> QED BY <2>1, <2>3
<1> QED BY <1>6, <1>7, <1>8, <1>9 DEF BatchInv

\* Writing keeps the versions in order if it follows what is committed, or if
\* the document is one that was removed.
LEMMA WriteKeepsVersions ==
  ASSUME StateInv, BatchInv, VersionsInv, running # NoBatch, Advance, Elsewhere,
         NEW id \in Ids, NEW new, docs' = [docs EXCEPT ![id] = new],
         removed \subseteq removed',
         id \notin removed' /\ kept.docs[id] # NoDocument =>
           new # NoDocument /\ Follows(new, kept.docs[id])
  PROVE  VersionsInv'
<1>1. kept' = kept /\ copies' = copies /\ Ids' = Ids
  BY DEF Elsewhere, Ids
<1>2. /\ docs'[id] = new
      /\ \A x \in Ids \ {id} : docs'[x] = docs[x]
  BY DEF StateInv, IsTable
<1>3. ASSUME NEW x \in Ids \ removed'
      PROVE  /\ \A c \in copies : c.id = x => kept.docs[x] # NoDocument /\ Follows(kept.docs[x], c)
             /\ kept.docs[x] # NoDocument => docs'[x] # NoDocument /\ Follows(docs'[x], kept.docs[x])
  <2>1. x \in Ids \ removed OBVIOUS
  <2>2. /\ \A c \in copies : c.id = x => kept.docs[x] # NoDocument /\ Follows(kept.docs[x], c)
        /\ kept.docs[x] # NoDocument => docs[x] # NoDocument /\ Follows(docs[x], kept.docs[x])
    BY <2>1 DEF VersionsInv
  <2>3. CASE x = id BY <1>2, <2>2, <2>3
  <2>4. CASE x # id BY <1>2, <2>2, <2>4
  <2> QED BY <2>3, <2>4
<1>4. running' # NoBatch =>
        \A d \in running'.fetched :
          d.id \notin removed' /\ kept.docs[d.id] # NoDocument =>
            kept.docs[d.id].revision <= d.revision
  <2> SUFFICES ASSUME running' # NoBatch, NEW d \in running'.fetched,
                      d.id \notin removed', kept.docs[d.id] # NoDocument
               PROVE  kept.docs[d.id].revision <= d.revision
    OBVIOUS
  <2>1. running'.fetched = running.fetched BY AdvanceNext DEF BatchInv
  <2> QED BY <2>1 DEF VersionsInv
<1> QED BY <1>1, <1>3, <1>4 DEF VersionsInv, Follows

\* A document that the batch has not touched is settled after the step unless
\* it is the one that is written.
LEMMA SettledStays ==
  ASSUME StateInv, SentInv, running # NoBatch, Advance,
         NEW id \in Ids, id = Current.id, NEW new, docs' = [docs EXCEPT ![id] = new],
         NEW x \in Ids \ {id}, Settled(x)
  PROVE  Settled(x)' /\ docs'[x] = docs[x]
<1>1. docs'[x] = docs[x] BY DEF StateInv, IsTable
<1>2. docs[x] # NoDocument /\ ~ Touched(x) BY DEF Settled
<1>3. CASE running' = NoBatch BY <1>1, <1>2, <1>3 DEF Settled
<1>4. CASE running' # NoBatch
  <2>1. ~ Touched(x)' BY <1>2, <1>4, AdvanceTouches
  <2> QED BY <1>1, <1>2, <2>1 DEF Settled
<1> QED BY <1>3, <1>4

\* Parents stay: a version that is written over was committed, or a domain is
\* removed.
LEMMA ParentsStay ==
  ASSUME StateInv, SentInv, running # NoBatch, Advance, Elsewhere,
         NEW id \in Ids, id = Current.id, NEW new, docs' = [docs EXCEPT ![id] = new],
         removed \subseteq removed',
         Settled(id) /\ IsDomain(docs[id]) =>
           DomainRemoved' \/ \E c \in copies : IsDomain(c) /\ c.data = docs[id].data,
         NEW d, HasParent(d)
  PROVE  HasParent(d)'
<1>1. copies' = copies /\ Ids' = Ids BY DEF Elsewhere, Ids
<1>2. CASE \E c \in copies : IsParent(c, d)
  BY <1>1, <1>2 DEF HasParent
<1>3. CASE DomainRemoved
  BY <1>3 DEF HasParent, DomainRemoved
<1>4. CASE \E x \in Ids : Settled(x) /\ IsParent(docs[x], d)
  <2>1. PICK x \in Ids : Settled(x) /\ IsParent(docs[x], d) BY <1>4
  <2>2. CASE x # id
    <3>1. Settled(x)' /\ docs'[x] = docs[x] BY <2>1, <2>2, SettledStays
    <3>2. IsParent(docs'[x], d) BY <2>1, <3>1
    <3> QED BY <1>1, <3>1, <3>2 DEF HasParent
  <2>3. CASE x = id
    <3>1. IsDomain(docs[id]) BY <2>1, <2>3 DEF IsParent
    <3>2. CASE DomainRemoved' BY <3>2 DEF HasParent
    <3>3. CASE \E c \in copies : IsDomain(c) /\ c.data = docs[id].data
      <4>1. PICK c \in copies : IsDomain(c) /\ c.data = docs[id].data BY <3>3
      <4>2. IsParent(c, d) BY <2>1, <2>3, <4>1 DEF IsParent
      <4> QED BY <1>1, <4>2 DEF HasParent
    <3> QED BY <2>1, <2>3, <3>1, <3>2, <3>3
  <2> QED BY <2>2, <2>3
<1> QED BY <1>2, <1>3, <1>4 DEF HasParent

\* Writing keeps domains under their parents if a created one has its parent.
LEMMA WriteKeepsDomains ==
  ASSUME StateInv, BatchInv, DomainsInv, running # NoBatch, Advance, Elsewhere,
         NEW id \in Ids, id = Current.id, NEW new, docs' = [docs EXCEPT ![id] = new],
         removed \subseteq removed',
         Settled(id) /\ IsDomain(docs[id]) =>
           DomainRemoved' \/ \E c \in copies : IsDomain(c) /\ c.data = docs[id].data,
         new # NoDocument /\ ChildDomain(new) => HasParent(new)
  PROVE  DomainsInv'
<1>1. kept' = kept /\ copies' = copies /\ Ids' = Ids
  BY DEF Elsewhere, Ids
<1>2. /\ docs'[id] = new
      /\ \A x \in Ids \ {id} : docs'[x] = docs[x]
  BY DEF StateInv, IsTable
<1>3. \A d : HasParent(d) => HasParent(d)'
  BY ParentsStay DEF BatchInv
<1>4. ASSUME NEW x \in Ids, docs'[x] # NoDocument, ChildDomain(docs'[x])
      PROVE  HasParent(docs[x])'
  <2>1. PICK d : d = docs'[x] OBVIOUS
  <2>2. HasParent(d)
    BY <1>2, <1>4, <2>1 DEF DomainsInv
  <2>3. HasParent(d)' BY <1>3, <2>2
  <2> QED BY <2>1, <2>3 DEF HasParent
<1>5. /\ \A x \in Ids : kept.docs[x] # NoDocument /\ ChildDomain(kept.docs[x]) =>
           (\E c \in copies : IsParent(c, kept.docs[x])) \/ DomainRemoved'
      /\ \A x \in Ids : kept.docs[x] # NoDocument => kept.docs[x] \in copies
  BY DEF DomainsInv, DomainRemoved
<1>6. ASSUME running' # NoBatch, NEW k \in DOMAIN running'.batch,
             running'.batch[k].action = "create", IsDomain(running'.batch[k]),
             running'.batch[k].data.parent # <<>>
      PROVE  HasParent(running.batch[k])'
  <2>1. running'.batch = running.batch BY <1>6, AdvanceNext DEF BatchInv
  <2>2. PICK t : t = running.batch[k] OBVIOUS
  <2>3. HasParent(t) BY <1>6, <2>1, <2>2 DEF DomainsInv
  <2>4. HasParent(t)' BY <1>3, <2>3
  <2> QED BY <2>1, <2>2, <2>4 DEF HasParent
<1>7. (\A x \in Ids : docs[x] # NoDocument /\ ChildDomain(docs[x]) => HasParent(docs[x]))'
  <2> SUFFICES ASSUME NEW x \in Ids', (docs[x] # NoDocument /\ ChildDomain(docs[x]))'
               PROVE  HasParent(docs[x])'
    OBVIOUS
  <2> QED BY <1>1, <1>4 DEF ChildDomain
<1>8. (\A x \in Ids : kept.docs[x] # NoDocument /\ ChildDomain(kept.docs[x]) =>
         (\E c \in copies : IsParent(c, kept.docs[x])) \/ DomainRemoved)'
  BY <1>1, <1>5 DEF ChildDomain, IsParent
<1> QED BY <1>1, <1>5, <1>6, <1>7, <1>8 DEF DomainsInv

\* What a replaced document has: all but revision, data and time of the update
\* come from what was fetched (apply_documents_batch_transition).
LEMMA ReplacedFields ==
  ASSUME StateInv, NEW fetched, AreFetched(fetched), NEW t, Made(t), t.action = "replace",
         \E d \in fetched : d.id = t.id /\ t.revision = d.revision + 1
  PROVE  \E d \in fetched :
           /\ d.id = t.id /\ t.revision = d.revision + 1
           /\ LET new == document_from_fetched(t, fetched) IN
              /\ IsDocument(new, t.id)
              /\ new.created = d.created /\ new.revision = t.revision
              /\ new.data = t.data /\ new.updated = t.updated
<1> DEFINE d == CHOOSE e \in fetched : e.id = t.id
           new == document_from_fetched(t, fetched)
<1>1. d \in fetched /\ d.id = t.id OBVIOUS
<1>2. t.revision = d.revision + 1
  BY <1>1 DEF AreFetched
<1>3. d \in Document /\ d.type = t.id.type /\ d.owner = t.id.owner
  BY <1>1 DEF AreFetched, IsDocument
<1>4. new = [d EXCEPT !.revision = t.revision, !.data = t.data, !.updated = t.updated]
  BY DEF document_from_fetched
<1>5. t.revision \in 1 .. MaxRevision
  <2>1. PICK c \in copies : c.revision < MaxRevision /\ t.revision = c.revision + 1
    BY DEF Made
  <2>2. c.revision \in 1 .. MaxRevision BY DEF StateInv, IsDocument, Document
  <2> QED BY <2>1, <2>2, BoundAssumption
<1>6. t.data \in UNION {UNION {c.data[type] : type \in DOMAIN c.data} : c \in Clients}
  <2>1. clients \in Clients /\ t.data \in clients.data[t.type] BY DEF StateInv, Made
  <2>2. t.type \in DOMAIN clients.data BY <2>1, ClientsAssumption DEF Made, Ids
  <2> QED BY <2>1, <2>2
<1>7. t.updated \in Nat \cup {NoTime} BY DEF Made
<1> HIDE DEF d, new
<1>8. /\ new \in Document /\ new.id = d.id /\ new.type = d.type /\ new.owner = d.owner
      /\ new.created = d.created /\ new.revision = t.revision
      /\ new.data = t.data /\ new.updated = t.updated
  BY <1>3, <1>4, <1>5, <1>6, <1>7 DEF Document
<1> QED BY <1>1, <1>2, <1>3, <1>8 DEF new, IsDocument

\* A replace whose document the batch has not touched, and that was never
\* removed, was made from the version that is stored (check_revision).
LEMMA ReplaceSawStored ==
  ASSUME StateInv, BatchInv, VersionsInv, running # NoBatch, Current.action = "replace",
         ~ Touched(Current.id), Current.id \notin removed
  PROVE  \E c \in copies : /\ c.id = Current.id /\ c.data = Current.base
                           /\ docs[Current.id] # NoDocument /\ docs[Current.id].data = c.data
<1>1. PICK id : id = Current.id OBVIOUS
<1>2. /\ Made(Current) /\ id \in Ids /\ running.next \in DOMAIN running.batch
  BY <1>1, CurrentIsSent DEF BatchInv
<1>3. PICK c \in copies : /\ c.id = id /\ Current.base = c.data
                          /\ Current.revision = c.revision + 1
  BY <1>1, <1>2 DEF Made
<1>4. PICK d \in running.fetched : d.id = id /\ Current.revision = d.revision + 1
  BY <1>1, <1>2 DEF BatchInv, FetchedInv, Current
<1>5. docs[id] = d BY <1>1, <1>4 DEF BatchInv, FetchedInv
<1>6. d \in Document /\ c \in Document
  BY <1>4 DEF BatchInv, FetchedInv, AreFetched, StateInv, IsDocument
<1>7. c.revision = d.revision /\ c.revision \in Nat
  BY <1>3, <1>4, <1>6 DEF Document
<1>8. /\ kept.docs[id] # NoDocument /\ Follows(kept.docs[id], c)
      /\ docs[id] # NoDocument /\ Follows(docs[id], kept.docs[id])
  BY <1>1, <1>2, <1>3 DEF VersionsInv
<1>9. kept.docs[id].revision \in Nat
  BY <1>2, <1>8 DEF StateInv, IsTable, IsDocument, Document
<1>10. docs[id].data = c.data
  BY <1>5, <1>7, <1>8, <1>9 DEF Follows
<1> QED BY <1>1, <1>3, <1>8, <1>10

\* A step that writes keeps the invariant.
LEMMA ApplyKeeps ==
  ASSUME BatchesInv, ApplyCreate \/ ApplyReplace \/ ApplyDelete
  PROVE  BatchesInv'
<1>1. StateInv /\ BatchInv /\ VersionsInv /\ DomainsInv BY DEF BatchesInv
<1>2. running # NoBatch /\ ~ running.stopped /\ Advance /\ Elsewhere
  BY DEF ApplyCreate, ApplyReplace, ApplyDelete, Applying, Elsewhere
<1>3. PICK t : t = Current OBVIOUS
<1>4. PICK id : id = t.id OBVIOUS
<1>5. /\ running.next \in DOMAIN running.batch
      /\ Made(t) /\ Admitted(t) /\ id \in Ids /\ id.owner = running.owner
      /\ t = running.batch[running.next]
      /\ running.owner \in Owners
  BY <1>1, <1>2, <1>3, <1>4, CurrentIsSent DEF BatchInv, Current, SentInv
<1>6. StopsOnlyOnClash'
  <2>1. running' # NoBatch => running'.stopped = running.stopped
    BY <1>1, <1>2, AdvanceNext DEF BatchInv
  <2> QED BY <1>2, <2>1 DEF StopsOnlyOnClash
<1>7. /\ clients \in Clients /\ id \in clients.ids
      /\ t.contract = id.contract /\ t.type = id.type
      /\ id.type \in DOMAIN clients.data
  BY <1>1, <1>4, <1>5, ClientsAssumption DEF StateInv, Made, Ids
<1>8. CASE ApplyCreate
  <2> DEFINE d == document_from_transition_create(t, running.owner)
  <2>1. /\ t.action = "create" /\ docs[id] = NoDocument /\ removed' = removed
        /\ docs' = [docs EXCEPT ![id] = Created(d)]
    BY <1>3, <1>4, <1>8 DEF ApplyCreate, Applying, create_document,
                            document_from_transition_create
  <2>2. /\ d.id = id /\ d.type = id.type /\ d.owner = id.owner
        /\ d.data = t.data /\ d.revision = 1
    BY <1>4, <1>5, <1>7 DEF document_from_transition_create, INITIAL_REVISION
  <2>3. d \in Document
    <3>1. {} \in SUBSET IndexDefinition OBVIOUS
    <3>2. t.data \in UNION {UNION {c.data[type] : type \in DOMAIN c.data} : c \in Clients}
      BY <1>5, <1>7, <2>1 DEF Made
    <3>3. 1 \in 1 .. MaxRevision BY BoundAssumption
    <3>4. t.created \in Nat \cup {NoTime} /\ t.updated \in Nat \cup {NoTime}
      BY <1>5 DEF Made
    <3>5. /\ t.id \in UNION {c.ids : c \in Clients}
          /\ t.type \in UNION {DOMAIN c.data : c \in Clients}
      BY <1>4, <1>7
    <3>6. d = [id |-> t.id, type |-> t.type, owner |-> running.owner, revision |-> 1,
               created |-> t.created, updated |-> t.updated, data |-> t.data,
               indexed |-> {}, lodged |-> {}]
      BY DEF document_from_transition_create, INITIAL_REVISION
    <3> HIDE DEF d
    <3> QED BY <1>5, <3>1, <3>2, <3>3, <3>4, <3>5, <3>6 DEF Document
  <2>4. d = Written(t, running) BY <2>1 DEF Written
  <2> HIDE DEF d
  <2> DEFINE new == Created(d)
  <2>5. /\ new \in Document /\ Same(new, d) /\ new.revision = 1
        /\ FitsIn(new, contracts)
    BY <1>1, <1>5, <1>7, <2>1, <2>2, <2>3, CreatedFits
  <2> HIDE DEF new
  <2>11. /\ new.id = id /\ new.type = id.type /\ new.owner = id.owner /\ new.data = t.data
    BY <2>2, <2>5 DEF Same
  <2>12. IsDocument(new, id) BY <2>5, <2>11 DEF IsDocument
  <2>13. docs' = [docs EXCEPT ![id] = new] BY <2>1 DEF new
  <2>6. StateInv' BY <1>1, <1>2, <1>5, <2>5, <2>12, <2>13, WriteKeepsState
  <2>7. \A f \in running.fetched : f.id # id
    BY <1>1, <1>2, <1>4, <1>5, <2>1 DEF BatchInv, FetchedInv
  <2>8. BatchInv'
    <3>1. \A f \in running.fetched : f.id = id => new.created = f.created BY <2>7
    <3>2. Current.action # "delete" /\ Same(new, Written(Current, running))
      BY <1>3, <2>1, <2>4, <2>5
    <3>3. id = Current.id BY <1>3, <1>4
    <3> QED BY <1>1, <1>2, <2>13, <3>1, <3>2, <3>3, WriteKeepsBatch
  <2>9. VersionsInv'
    <3>1. ~ (id \notin removed' /\ kept.docs[id] # NoDocument)
      BY <1>1, <1>5, <2>1 DEF VersionsInv
    <3> QED BY <1>1, <1>2, <1>5, <2>1, <2>13, <3>1, WriteKeepsVersions
  <2>10. DomainsInv'
    <3>1. ~ Settled(id) BY <2>1 DEF Settled
    <3>2. new # NoDocument /\ ChildDomain(new) => HasParent(new)
      <4> SUFFICES ASSUME ChildDomain(new) PROVE HasParent(new)
        OBVIOUS
      <4>1. IsDomain(t) /\ t.data.parent # <<>>
        BY <1>4, <1>7, <2>11 DEF ChildDomain, IsDomain
      <4>2. HasParent(t)
        BY <1>1, <1>2, <1>5, <2>1, <4>1 DEF DomainsInv
      <4>3. \A e : IsParent(e, t) <=> IsParent(e, new)
        BY <2>11 DEF IsParent
      <4> QED BY <4>2, <4>3 DEF HasParent
    <3> QED BY <1>1, <1>2, <1>3, <1>4, <1>5, <2>1, <2>13, <3>1, <3>2, WriteKeepsDomains
  <2> QED BY <1>6, <2>6, <2>8, <2>9, <2>10 DEF BatchesInv
<1>9. CASE ApplyReplace
  <2> DEFINE e == document_from_fetched(t, running.fetched)
  <2>1. t.action = "replace" /\ removed' = removed
    BY <1>3, <1>9 DEF ApplyReplace, Applying
  <2>2. /\ AreFetched(running.fetched)
        /\ \E f \in running.fetched : f.id = t.id /\ t.revision = f.revision + 1
    BY <1>1, <1>2, <1>5, <2>1 DEF BatchInv, FetchedInv
  <2>3. PICK d \in running.fetched :
          /\ d.id = t.id /\ t.revision = d.revision + 1
          /\ IsDocument(e, t.id)
          /\ e.created = d.created /\ e.revision = t.revision
          /\ e.data = t.data /\ e.updated = t.updated
    BY <1>1, <1>5, <2>1, <2>2, ReplacedFields
  <2>4. e.id = id /\ e.type = t.type /\ e \in Document
    BY <1>4, <1>7, <2>3 DEF IsDocument
  <2>5. docs' = [docs EXCEPT ![id] = Updated(e)] /\ docs[id] # NoDocument
    BY <1>3, <1>9, <2>4 DEF ApplyReplace, update_document
  <2>6. e = Written(t, running) BY <2>1 DEF Written
  <2> HIDE DEF e
  <2> DEFINE new == Updated(e)
  <2>7. /\ new \in Document /\ Same(new, e) /\ new.revision = e.revision
        /\ FitsIn(new, contracts)
    BY <1>1, <1>4, <1>5, <1>7, <2>1, <2>3, <2>4, <2>5, UpdatedFits
  <2> HIDE DEF new
  <2>13. /\ IsDocument(new, id) /\ new.created = d.created /\ new.revision = t.revision
         /\ new.data = t.data
    BY <1>4, <2>3, <2>7 DEF IsDocument, Same
  <2>14. docs' = [docs EXCEPT ![id] = new] BY <2>5 DEF new
  <2>8. StateInv' BY <1>1, <1>2, <1>5, <2>7, <2>13, <2>14, WriteKeepsState
  <2>9. \A f \in running.fetched : f.id = id => new.created = f.created
    BY <1>4, <2>2, <2>3, <2>13 DEF AreFetched
  <2>10. BatchInv'
    BY <1>1, <1>2, <1>3, <1>4, <2>1, <2>6, <2>7, <2>9, <2>14, WriteKeepsBatch
  <2>11. VersionsInv'
    <3>1. ASSUME id \notin removed', kept.docs[id] # NoDocument
          PROVE  new # NoDocument /\ Follows(new, kept.docs[id])
      <4>1. kept.docs[id].revision <= d.revision
        BY <1>1, <1>2, <1>4, <2>1, <2>3, <3>1 DEF VersionsInv
      <4>2. d.revision \in Nat
        BY <2>2, <2>3 DEF AreFetched, IsDocument, Document
      <4>3. kept.docs[id].revision \in Nat
        BY <1>1, <1>5, <3>1 DEF StateInv, IsTable, IsDocument, Document
      <4>4. new # NoDocument BY <2>7, NoDocumentAssumption
      <4> QED BY <2>3, <2>13, <4>1, <4>2, <4>3, <4>4 DEF Follows
    <3> QED BY <1>1, <1>2, <1>5, <2>1, <2>14, <3>1, WriteKeepsVersions
  <2>12. DomainsInv'
    <3>1. ASSUME Settled(id), IsDomain(docs[id])
          PROVE  DomainRemoved' \/ \E c \in copies : IsDomain(c) /\ c.data = docs[id].data
      <4>1. ~ Touched(id) /\ docs[id].type = id.type /\ docs[id].id = id
        BY <1>1, <1>2, <1>5, <3>1 DEF Settled, StateInv, IsTable, IsDocument
      <4>2. CASE id \in removed
        BY <2>1, <3>1, <4>1, <4>2 DEF DomainRemoved, IsDomain
      <4>3. CASE id \notin removed
        <5>1. PICK c \in copies : c.id = id /\ docs[id].data = c.data
          BY <1>1, <1>2, <1>3, <1>4, <2>1, <4>1, <4>3, ReplaceSawStored
        <5>2. c.type = id.type BY <1>1, <5>1 DEF StateInv, IsDocument
        <5> QED BY <3>1, <4>1, <5>1, <5>2 DEF IsDomain
      <4> QED BY <4>2, <4>3
    <3>2. ~ ChildDomain(new)
      <4>1. d.revision \in Nat \ {0}
        BY <2>2, <2>3 DEF AreFetched, IsDocument, Document
      <4> QED BY <2>3, <2>13, <4>1 DEF ChildDomain, INITIAL_REVISION
    <3> QED BY <1>1, <1>2, <1>3, <1>4, <1>5, <2>1, <2>14, <3>1, <3>2, WriteKeepsDomains
  <2> QED BY <1>6, <2>8, <2>10, <2>11, <2>12 DEF BatchesInv
<1>10. CASE ApplyDelete
  <2>1. PICK new : new = NoDocument OBVIOUS
  <2>2. /\ docs' = [docs EXCEPT ![id] = new] /\ removed' = removed \cup {id}
        /\ docs[id] # NoDocument
    BY <1>3, <1>4, <1>10, <2>1 DEF ApplyDelete, remove_document
  <2>3. StateInv' BY <1>1, <1>2, <1>5, <2>1, <2>2, WriteKeepsState
  <2>4. BatchInv' BY <1>1, <1>2, <1>3, <1>4, <2>1, <2>2, WriteKeepsBatch
  <2>5. VersionsInv' BY <1>1, <1>2, <1>5, <2>2, WriteKeepsVersions
  <2>6. docs[id].type = id.type /\ docs[id].id = id BY <1>1, <1>5, <2>2 DEF StateInv, IsTable, IsDocument
  <2>7. IsDomain(docs[id]) => DomainRemoved' BY <2>2, <2>6 DEF DomainRemoved, IsDomain
  <2>8. DomainsInv'
    BY <1>1, <1>2, <1>3, <1>4, <1>5, <2>1, <2>2, <2>7, WriteKeepsDomains
  <2> QED BY <1>6, <2>3, <2>4, <2>5, <2>8 DEF BatchesInv
<1> QED BY <1>8, <1>9, <1>10

-----------------------------------------------------------------------------
(* A batch is validated: what the validation sees, until the first          *)
(* transition is applied.                                                   *)

\* Stored documents are those of the table.
LEMMA StoredAre ==
  ASSUME StateInv, NEW d \in Stored
  PROVE  /\ d.id \in Ids /\ docs[d.id] = d /\ d # NoDocument
         /\ IsDocument(d, d.id)
<1>1. PICK id \in Ids : docs[id] = d /\ d # NoDocument
  BY DEF Stored
<1>2. IsDocument(d, id) BY <1>1 DEF StateInv, IsTable
<1> QED BY <1>1, <1>2 DEF IsDocument

\* What passes the validation of a transition (validate_raw_transition,
\* validate_transition): all transitions are of the sender's documents.
LEMMA ValidTransition ==
  ASSUME StateInv, NEW owner, NEW batch, NEW k \in DOMAIN batch, Made(batch[k]),
         ValidBasic(batch, owner), ValidState(batch, owner)
  PROVE  LET t == batch[k] IN
         /\ Admitted(t)
         /\ t.id.owner = owner
         /\ t.action = "create" => check_if_timestamps_are_equal(t)
         /\ t.action = "create" <=> docs[t.id] = NoDocument
         /\ t.action # "create" =>
              /\ docs[t.id] \in fetch_documents(batch) /\ docs[t.id].id = t.id
              /\ t.action = "replace" => t.revision = docs[t.id].revision + 1
<1>1. PICK t : t = batch[k] OBVIOUS
<1>2. t \in ToSet(batch) BY <1>1 DEF ToSet
<1>3. t.contract \in DOMAIN contracts /\ validate_raw_transition(t, owner)
  BY <1>2 DEF ValidBasic
<1>4. Admitted(t) BY <1>3 DEF validate_raw_transition, Admitted
<1>5. validate_transition(t, fetch_documents(batch), owner)
  BY <1>2 DEF ValidState
<1>6. t.id \in Ids /\ t.action \in {"create", "replace", "delete"}
  BY <1>1 DEF Made
<1>7. ASSUME NEW d \in fetch_documents(batch)
      PROVE  d \in Stored
  BY DEF fetch_documents
<1>8. CASE t.action = "create"
  <2>1. t.id = [t.id EXCEPT !.owner = owner]
    BY <1>3, <1>8 DEF validate_raw_transition, generate_document_id
  <2>2. "owner" \in DOMAIN t.id
    BY <1>6, ClientsAssumption DEF StateInv, Ids
  <2>3. t.id.owner = owner BY <2>1, <2>2
  <2>4. /\ check_if_timestamps_are_equal(t)
        /\ \A d \in fetch_documents(batch) : d.id # t.id
    BY <1>5, <1>8 DEF validate_transition, check_if_document_is_already_present
  <2>5. ASSUME docs[t.id] # NoDocument PROVE FALSE
    <3>1. docs[t.id] \in Stored BY <1>6, <2>5 DEF Stored
    <3>2. docs[t.id].id = t.id BY <1>6, <2>5 DEF StateInv, IsTable, IsDocument
    <3>3. docs[t.id] \in fetch_documents(batch) BY <1>1, <3>1, <3>2 DEF fetch_documents
    <3> QED BY <2>4, <3>2, <3>3
  <2> QED BY <1>1, <1>4, <1>8, <2>3, <2>4, <2>5
<1>9. CASE t.action \in {"replace", "delete"}
  <2>1. /\ check_if_document_can_be_found(t, fetch_documents(batch))
        /\ check_ownership(t, fetch_documents(batch), owner)
        /\ t.action = "replace" => check_revision(t, fetch_documents(batch))
    BY <1>5, <1>9 DEF validate_transition
  <2>2. PICK d \in fetch_documents(batch) : d.id = t.id
    BY <2>1 DEF check_if_document_can_be_found
  <2>3. d \in Stored BY <1>7
  <2>4. docs[t.id] = d /\ d # NoDocument /\ IsDocument(d, t.id)
    BY <2>2, <2>3, StoredAre
  <2>5. d.owner = owner BY <2>1, <2>2 DEF check_ownership
  <2>6. t.action = "replace" => t.revision = d.revision + 1
    BY <2>1, <2>2 DEF check_revision
  <2> QED BY <1>1, <1>4, <1>9, <2>2, <2>4, <2>5, <2>6 DEF IsDocument
<1> QED BY <1>6, <1>8, <1>9

\* The check of uniqueness finds every stored document that agrees with what a
\* transition writes on a unique index
\* (validate_documents_uniqueness_by_indices).
LEMMA RivalsAreFound ==
  ASSUME StateInv, NEW owner, NEW batch, NEW k \in DOMAIN batch,
         Made(batch[k]), Admitted(batch[k]), batch[k].action # "delete",
         NEW d, d.id = batch[k].id, d.type = batch[k].type, d.owner = owner,
         d.data = batch[k].data, d.updated = batch[k].updated,
         batch[k].action = "create" => /\ d.created = batch[k].created
                                       /\ check_if_timestamps_are_equal(batch[k]),
         NEW id \in Ids, docs[id] # NoDocument, Rival(batch[k].action, d, docs[id])
  PROVE  batch[k].id \in validate_documents_uniqueness_by_indices(batch, owner)
<1>1. PICK t : t = batch[k] OBVIOUS
<1>2. PICK o : o = docs[id] OBVIOUS
<1> DEFINE schema == SchemaOf(t.contract, t.type)
<1>0. t.contract = t.id.contract BY <1>1 DEF Made
<1>00. SchemaFor(d) = schema BY <1>0, <1>1 DEF SchemaFor
<1>3. PICK index \in UniqueIndices(schema) :
        /\ Values(d, index) = Values(o, index) /\ ~ Lacks(d, index)
        /\ t.action = "replace" => \E p \in ToSet(index.properties) : p # "$createdAt"
  BY <1>00, <1>1, <1>2 DEF Rival
<1>4. o \in Stored /\ o.id # t.id /\ o.type = t.type /\ o.id.contract = t.contract
  BY <1>0, <1>1, <1>2 DEF Rival, Stored
<1>5. /\ t.contract \in DOMAIN contracts
      /\ t.type \in DOMAIN contracts[t.contract].documents
      /\ DOMAIN t.data \subseteq DOMAIN schema.properties
  BY <1>1 DEF Admitted, Conforms, SchemaOf
<1>6. WellFormed(contracts[t.contract])
  BY <1>5 DEF StateInv, AreContracts
<1>7. DOMAIN schema.properties \cap (SystemTimes \cup BaseRequired) = {}
  BY <1>5, <1>6 DEF WellFormed, SchemaOf
<1>8. \E p : p \in ToSet(index.properties)
  <2>1. index \in ToSet(schema.indices) BY <1>3 DEF UniqueIndices
  <2> QED BY <1>5, <2>1, IndexHasProperty DEF StateInv
<1> HIDE DEF schema
<1>9. {"$ownerId", "$createdAt", "$updatedAt"} \cap DOMAIN t.data = {}
  BY <1>5, <1>7 DEF SystemTimes, BaseRequired
<1>10. \A p \in ToSet(index.properties) : Property(d, p) = Property(o, p) /\ Property(d, p) # {}
  BY <1>3, EqualValues DEF Lacks
<1> DEFINE query == build_query_for_index_definition(index, t, owner)
<1>11. ASSUME NEW p \in ToSet(index.properties), p = "$createdAt" => t.action = "create"
       PROVE  \E v \in Property(d, p) : <<p, v>> \in query
  <2>1. CASE p = "$ownerId"
    <3>1. <<p, owner>> \in query BY <2>1 DEF build_query_for_index_definition
    <3>2. owner \in Property(d, p) BY <2>1 DEF Property
    <3> QED BY <3>1, <3>2
  <2>2. CASE p = "$createdAt"
    <3>1. Property(d, p) = {t.created} \ {NoTime} BY <1>1, <1>11, <2>2 DEF Property
    <3>2. t.created # NoTime BY <1>10, <3>1
    <3>3. <<p, t.created>> \in query
      BY <1>11, <2>2, <3>2 DEF build_query_for_index_definition
    <3> QED BY <3>1, <3>2, <3>3
  <2>3. CASE p = "$updatedAt"
    <3>1. Property(d, p) = {t.updated} \ {NoTime} BY <1>1, <2>3 DEF Property
    <3>2. t.updated # NoTime BY <1>10, <3>1
    <3>3. t.action = "create" /\ t.created # NoTime /\ t.created = t.updated
      BY <1>1, <3>2 DEF Made, check_if_timestamps_are_equal
    <3>4. <<p, t.created>> \in query
      BY <2>3, <3>3 DEF build_query_for_index_definition
    <3> QED BY <3>1, <3>2, <3>3, <3>4
  <2>4. CASE p \notin {"$ownerId", "$createdAt", "$updatedAt"}
    <3>1. Property(d, p) = {t.data[q] : q \in {p} \cap DOMAIN t.data}
      BY <1>1, <2>4 DEF Property
    <3>2. p \in DOMAIN t.data BY <1>10, <3>1
    <3>3. <<p, t.data[p]>> \in query
      BY <3>2 DEF build_query_for_index_definition
    <3> QED BY <3>1, <3>2, <3>3
  <2> QED BY <2>1, <2>2, <2>3, <2>4
<1>12. ASSUME NEW q \in query
       PROVE  q[1] \in ToSet(index.properties) /\ q[2] \in Property(d, q[1])
  <2>1. CASE \E p \in ToSet(index.properties) \cap {"$ownerId"} : q = <<p, owner>>
    BY <2>1 DEF Property
  <2>2. CASE \E p \in ToSet(index.properties) \cap {"$createdAt", "$updatedAt"} :
               q = <<p, t.created>> /\ t.action = "create" /\ t.created # NoTime
    <3>1. PICK p \in ToSet(index.properties) \cap {"$createdAt", "$updatedAt"} :
            q = <<p, t.created>> /\ t.action = "create" /\ t.created # NoTime
      BY <2>2
    <3>2. t.updated # NoTime /\ t.created = t.updated
      BY <1>1, <3>1 DEF Made, check_if_timestamps_are_equal
    <3>3. d.created = t.created /\ d.updated = t.updated BY <1>1, <3>1
    <3> QED BY <3>1, <3>2, <3>3 DEF Property
  <2>3. CASE \E p \in ToSet(index.properties) \cap DOMAIN t.data : q = <<p, t.data[p]>>
    <3>1. PICK p \in ToSet(index.properties) \cap DOMAIN t.data : q = <<p, t.data[p]>>
      BY <2>3
    <3>2. p \notin {"$ownerId", "$createdAt", "$updatedAt"} BY <1>9
    <3>3. Property(d, p) = {t.data[r] : r \in {p} \cap DOMAIN t.data}
      BY <1>1, <3>2 DEF Property
    <3> QED BY <3>1, <3>3
  <2> QED BY <1>12, <2>1, <2>2, <2>3 DEF build_query_for_index_definition
<1> HIDE DEF query
<1>13. query # {}
  <2>1. \E p \in ToSet(index.properties) : p = "$createdAt" => t.action = "create"
    BY <1>1, <1>3, <1>8 DEF Made
  <2> QED BY <1>11, <2>1
<1>14. o \in Answers(query, t)
  <2>1. \A q \in query : q[2] \in Property(o, q[1]) BY <1>10, <1>12
  <2> QED BY <1>4, <2>1 DEF Answers
<1>15. ~ validate_uniqueness(t, Answers(query, t))
  BY <1>4, <1>14 DEF validate_uniqueness
<1>16. t \in ToSet(batch) BY <1>1 DEF ToSet
<1> QED BY <1>1, <1>3, <1>13, <1>15, <1>16
        DEF validate_documents_uniqueness_by_indices, query, schema

\* A domain below another one passes its trigger only when the domain above it
\* is stored (create_domain_data_trigger).
LEMMA TriggerFindsParent ==
  ASSUME StateInv, NEW owner, NEW batch, NEW k \in DOMAIN batch, Made(batch[k]),
         ValidState(batch, owner), batch[k].action = "create", IsDomain(batch[k]),
         batch[k].data.parent # <<>>
  PROVE  \E d \in Stored : IsParent(d, batch[k])
<1>1. PICK t : t = batch[k] OBVIOUS
<1>2. t \in ToSet(batch) BY <1>1 DEF ToSet
<1>3. PICK trigger : trigger = data_triggers[1] OBVIOUS
<1>4. trigger = Trigger("dpns", "domain", "create", "CreateDomain", DpnsOwner)
      /\ trigger \in ToSet(data_triggers)
  BY <1>3 DEF data_triggers, ToSet
<1>5. t.contract = "dpns" /\ t.type = "domain" /\ t.action = "create"
  BY <1>1 DEF Made, IsDomain
<1>6. trigger \in get_data_triggers(t)
  BY <1>4, <1>5 DEF get_data_triggers, is_matching_trigger_for_data, Trigger
<1>7. execute(trigger, t, owner, Stored, Block).accepted
  BY <1>2, <1>6 DEF ValidState, execute_data_triggers
<1>8. PICK result : result = create_domain_data_trigger(t, owner, trigger.top, Stored)
  OBVIOUS
<1>9. execute_trigger(trigger, t, owner, Stored, Block) = result
  BY <1>4, <1>8 DEF execute_trigger, Trigger
<1>10. ~ result.failed /\ ~ result.panics
  BY <1>7, <1>9 DEF execute
<1>11. {d \in {d \in Stored : d.id.contract = t.contract /\ d.type = t.type} :
          d.data.label = Head(t.data.parent) /\ d.data.parent = Tail(t.data.parent)} # {}
  BY <1>1, <1>5, <1>8, <1>10 DEF create_domain_data_trigger, Failure, Panic
<1>12. PICK d \in Stored : /\ d.id.contract = t.contract /\ d.type = t.type
                           /\ d.data.label = Head(t.data.parent)
                           /\ d.data.parent = Tail(t.data.parent)
  BY <1>11
<1> QED BY <1>1, <1>5, <1>12 DEF IsParent, IsDomain

\* The step that takes a batch in.
LEMMA DeliverKeeps ==
  ASSUME BatchesInv, NEW owner \in Owners, NEW batch \in Batches, Deliver(owner, batch)
  PROVE  BatchesInv'
<1>1. StateInv /\ VersionsInv /\ DomainsInv BY DEF BatchesInv
<1>2. /\ ValidBasic(batch, owner) /\ ValidState(batch, owner)
      /\ running = NoBatch
      /\ batches < MaxBatches /\ batches' = batches + 1
      /\ clients' = clients /\ docs' = docs /\ contracts' = contracts /\ kept' = kept
      /\ copies' = copies /\ removed' = removed /\ now' = now
      /\ Ids' = Ids
  BY DEF Deliver, Ids
<1>3. PICK fetched : fetched = {d \in fetch_documents(batch) :
                                  \E t \in ToSet(batch) : t.action = "replace" /\ t.id = d.id}
  OBVIOUS
<1>4. PICK duplicates : duplicates = validate_documents_uniqueness_by_indices(batch, owner)
  OBVIOUS
<1>5. running' = [owner |-> owner, batch |-> batch, next |-> 1, stopped |-> FALSE,
                  fetched |-> fetched, duplicates |-> duplicates]
  BY <1>3, <1>4 DEF Deliver
<1>6. /\ running'.owner = owner /\ running'.batch = batch /\ running'.next = 1
      /\ running'.stopped = FALSE /\ running'.fetched = fetched
      /\ running'.duplicates = duplicates
      /\ DOMAIN running' = {"owner", "batch", "next", "stopped", "fetched", "duplicates"}
  BY <1>5
<1>7. /\ Len(batch) \in Nat \ {0} /\ DOMAIN batch = 1 .. Len(batch)
      /\ \A k \in DOMAIN batch : Made(batch[k])
  BY <1>1, BatchesAreMade
<1>8. ASSUME NEW k \in DOMAIN batch
      PROVE  /\ Admitted(batch[k]) /\ batch[k].id.owner = owner
             /\ batch[k].action = "create" => check_if_timestamps_are_equal(batch[k])
             /\ batch[k].action = "create" <=> docs[batch[k].id] = NoDocument
             /\ batch[k].action # "create" =>
                  /\ docs[batch[k].id] \in fetch_documents(batch)
                  /\ docs[batch[k].id].id = batch[k].id
                  /\ batch[k].action = "replace" =>
                       batch[k].revision = docs[batch[k].id].revision + 1
  BY <1>1, <1>2, <1>7, ValidTransition
<1>9. \A d \in fetched : /\ d.id \in Ids /\ docs[d.id] = d /\ d # NoDocument
                         /\ IsDocument(d, d.id)
  BY <1>1, <1>3, StoredAre DEF fetch_documents
<1>10. \A id : ~ Touched(id)'
  BY <1>6 DEF Touched
<1>11. StateInv'
  <2>1. batches' \in 0 .. MaxBatches BY <1>1, <1>2, BoundAssumption DEF StateInv
  <2> QED BY <1>1, <1>2, <2>1 DEF StateInv, IsTable, AreContracts, AllFit
<1>12. SentInv'
  <2>1. \A k \in DOMAIN batch : Made(batch[k])' /\ Admitted(batch[k])'
    <3> SUFFICES ASSUME NEW k \in DOMAIN batch PROVE Made(batch[k])' /\ Admitted(batch[k])'
      OBVIOUS
    <3>1. Made(batch[k]) /\ Admitted(batch[k]) BY <1>7, <1>8
    <3> QED BY <1>2, <3>1, SentStays
  <2>2. 1 \in 1 .. Len(batch) BY <1>7
  <2>3. \A k \in DOMAIN batch :
          Made(running.batch[k])' /\ Admitted(running.batch[k])' /\ batch[k].id.owner = owner
    <3> SUFFICES ASSUME NEW k \in DOMAIN batch
                 PROVE  Made(running.batch[k])' /\ Admitted(running.batch[k])'
      BY <1>8
    <3>1. Made(batch[k])' /\ Admitted(batch[k])' BY <2>1
    <3> QED BY <1>6, <3>1 DEF Made, Admitted
  <2> QED BY <1>6, <1>7, <2>2, <2>3 DEF SentInv
<1>13. FetchedInv'
  <2>1. \A d, e \in fetched : d.id = e.id => d = e BY <1>9
  <2>2. ASSUME NEW k \in DOMAIN batch, batch[k].action = "replace"
        PROVE  \E d \in fetched : d.id = batch[k].id /\ batch[k].revision = d.revision + 1
    <3>1. docs[batch[k].id] \in fetched BY <1>3, <1>8, <2>2 DEF ToSet
    <3> QED BY <1>8, <2>2, <3>1
  <2>3. ASSUME NEW k \in DOMAIN batch, batch[k].action = "create"
        PROVE  \A d \in fetched : d.id # batch[k].id
    BY <1>8, <1>9, <2>3
  <2> QED BY <1>2, <1>6, <1>9, <2>1, <2>2, <2>3 DEF FetchedInv, AreFetched, IsDocument
<1>14. PresenceInv'
  BY <1>2, <1>6, <1>8 DEF PresenceInv
<1>15. RivalsInv'
  <2> SUFFICES ASSUME NEW k \in DOMAIN batch, batch[k].action # "delete",
                      NEW id \in Ids, docs[id] # NoDocument,
                      Rival(batch[k].action, Written(batch[k], running'), docs[id])
               PROVE  batch[k].id \in duplicates
    BY <1>2, <1>6 DEF RivalsInv, Rival, SchemaFor, SchemaOf
  <2>1. PICK t : t = batch[k] OBVIOUS
  <2>2. PICK d : d = Written(t, running') OBVIOUS
  <2>3. /\ Made(t) /\ Admitted(t) /\ t.id.owner = owner /\ t.action # "delete"
        /\ t.action = "create" => check_if_timestamps_are_equal(t)
    BY <1>7, <1>8, <2>1
  <2>4. /\ d.id = t.id /\ d.type = t.type /\ d.owner = owner /\ d.data = t.data
        /\ d.updated = t.updated
        /\ t.action = "create" => d.created = t.created
    <3>1. CASE t.action = "create"
      BY <1>6, <2>2, <3>1 DEF Written, document_from_transition_create
    <3>2. CASE t.action = "replace"
      <4>1. d = document_from_fetched(t, fetched) BY <1>6, <2>2, <3>2 DEF Written
      <4>2. AreFetched(fetched) BY <1>9 DEF AreFetched
      <4>3. \E e \in fetched : e.id = t.id /\ t.revision = e.revision + 1
        <5>1. docs[t.id] \in fetched BY <1>3, <1>8, <2>1, <3>2 DEF ToSet
        <5> QED BY <1>8, <2>1, <3>2, <5>1
      <4>4. IsDocument(d, t.id) /\ d.data = t.data /\ d.updated = t.updated
        BY <1>1, <2>3, <3>2, <4>1, <4>2, <4>3, ReplacedFields
      <4> QED BY <2>3, <3>2, <4>4 DEF IsDocument, Made
    <3> QED BY <2>3, <3>1, <3>2 DEF Made
  <2>5. Rival(batch[k].action, d, docs[id]) BY <2>1, <2>2
  <2>6. /\ Made(batch[k]) /\ Admitted(batch[k]) /\ batch[k].action # "delete"
        /\ d.id = batch[k].id /\ d.type = batch[k].type /\ d.owner = owner
        /\ d.data = batch[k].data /\ d.updated = batch[k].updated
    BY <2>1, <2>3, <2>4
  <2>8. batch[k].action = "create" => /\ d.created = batch[k].created
                                      /\ check_if_timestamps_are_equal(batch[k])
    BY <2>1, <2>3, <2>4
  <2>7. batch[k].id \in validate_documents_uniqueness_by_indices(batch, owner)
    BY <1>1, <2>5, <2>6, <2>8, RivalsAreFound
  <2> QED BY <1>4, <2>7
<1>16. VersionsInv'
  <2>1. ASSUME NEW d \in fetched, d.id \notin removed, kept.docs[d.id] # NoDocument
        PROVE  kept.docs[d.id].revision <= d.revision
    <3>1. d.id \in Ids /\ docs[d.id] = d BY <1>9
    <3>2. Follows(d, kept.docs[d.id]) BY <1>1, <2>1, <3>1 DEF VersionsInv
    <3>3. d.revision \in Nat BY <1>9 DEF IsDocument, Document
    <3>4. kept.docs[d.id].revision \in Nat
      BY <1>1, <2>1, <3>1 DEF StateInv, IsTable, IsDocument, Document
    <3> QED BY <3>2, <3>3, <3>4 DEF Follows
  <2> QED BY <1>1, <1>2, <1>6, <2>1 DEF VersionsInv, Follows
<1>17. DomainsInv'
  <2>1. ASSUME NEW x \in Ids, docs[x] # NoDocument
        PROVE  Settled(x)'
    <3>1. ~ Touched(x)' BY <1>10
    <3> QED BY <1>2, <2>1, <3>1 DEF Settled
  <2>2. ASSUME NEW d, (\E c \in copies : IsParent(c, d))
                      \/ (\E x \in Ids : docs[x] # NoDocument /\ IsParent(docs[x], d))
                      \/ DomainRemoved
        PROVE  HasParent(d)'
    <3>1. CASE \E c \in copies : IsParent(c, d) BY <1>2, <3>1 DEF HasParent
    <3>2. CASE DomainRemoved BY <1>2, <3>2 DEF HasParent, DomainRemoved
    <3>3. CASE \E x \in Ids : docs[x] # NoDocument /\ IsParent(docs[x], d)
      <4>1. PICK x \in Ids : docs[x] # NoDocument /\ IsParent(docs[x], d) BY <3>3
      <4>2. Settled(x)' BY <2>1, <4>1
      <4> QED BY <1>2, <4>1, <4>2 DEF HasParent
    <3> QED BY <2>2, <3>1, <3>2, <3>3
  <2>3. ASSUME NEW x \in Ids, docs[x] # NoDocument, ChildDomain(docs[x])
        PROVE  HasParent(docs[x])'
    <3>1. PICK d : d = docs[x] OBVIOUS
    <3>2. HasParent(d) BY <1>1, <2>3, <3>1 DEF DomainsInv
    <3>3. HasParent(d)' BY <2>2, <3>2 DEF HasParent, Settled
    <3> QED BY <1>2, <3>1, <3>3 DEF HasParent
  <2>4. ASSUME NEW k \in DOMAIN batch, batch[k].action = "create", IsDomain(batch[k]),
               batch[k].data.parent # <<>>
        PROVE  HasParent(batch[k])'
    <3>1. PICK d \in Stored : IsParent(d, batch[k])
      BY <1>1, <1>2, <1>7, <2>4, TriggerFindsParent
    <3>2. d.id \in Ids /\ docs[d.id] = d /\ d # NoDocument BY <1>1, StoredAre
    <3> QED BY <2>2, <3>1, <3>2
  <2>5. (\A id \in Ids : docs[id] # NoDocument /\ ChildDomain(docs[id]) => HasParent(docs[id]))'
    <3> SUFFICES ASSUME NEW x \in Ids', (docs[x] # NoDocument /\ ChildDomain(docs[x]))'
                 PROVE  HasParent(docs[x])'
      OBVIOUS
    <3> QED BY <1>2, <2>3 DEF ChildDomain
  <2>6. (\A x \in Ids : kept.docs[x] # NoDocument /\ ChildDomain(kept.docs[x]) =>
           (\E c \in copies : IsParent(c, kept.docs[x])) \/ DomainRemoved)'
    BY <1>1, <1>2 DEF DomainsInv, ChildDomain, IsParent, DomainRemoved
  <2>7. (\A x \in Ids : kept.docs[x] # NoDocument => kept.docs[x] \in copies)'
    BY <1>1, <1>2 DEF DomainsInv
  <2>8. ASSUME NEW k \in DOMAIN batch, batch[k].action = "create", IsDomain(batch[k]),
               batch[k].data.parent # <<>>
        PROVE  HasParent(running.batch[k])'
    BY <1>6, <2>4, <2>8 DEF HasParent
  <2> QED BY <1>6, <2>5, <2>6, <2>7, <2>8 DEF DomainsInv, IsDomain
<1>18. StopsOnlyOnClash' BY <1>6 DEF StopsOnlyOnClash
<1> QED BY <1>11, <1>12, <1>13, <1>14, <1>15, <1>16, <1>17, <1>18 DEF BatchesInv, BatchInv

-----------------------------------------------------------------------------
(* The application stops, and what happens outside of a batch.             *)

\* A stored document that agrees with what a transition writes on a unique index,
\* all of whose properties are given, was found by the check of uniqueness or
\* written by the batch (validate_documents_uniqueness_by_indices).
LEMMA ClashesWithRival ==
  ASSUME StateInv, BatchInv, running # NoBatch, Current.action # "delete",
         NEW d, d = Written(Current, running), d.id = Current.id, d.type = Current.type,
         NEW index \in UniqueIndices(SchemaFor(d)), NEW other \in Twins(d, index),
         ~ Lacks(d, index),
         Current.action = "replace" => \E p \in ToSet(index.properties) : p # "$createdAt"
  PROVE  \/ Current.id \in running.duplicates
         \/ \E k \in 1 .. running.next - 1 :
              running.batch[k].action # "delete" /\ Clash(d, Written(running.batch[k], running))
<1>1. running.next \in DOMAIN running.batch /\ Current = running.batch[running.next]
  BY CurrentIsSent DEF BatchInv, Current
<1>2. /\ other \in Stored /\ other.id # d.id /\ other.type = d.type
      /\ other.id.contract = d.id.contract /\ Values(other, index) = Values(d, index)
  BY DEF Twins
<1>3. other.id \in Ids /\ docs[other.id] = other /\ other # NoDocument
  BY <1>2, StoredAre
<1>4. Rival(Current.action, d, other) BY <1>2 DEF Rival
<1>5. SUFFICES ASSUME Current.id \notin running.duplicates
               PROVE  \E k \in 1 .. running.next - 1 :
                        running.batch[k].action # "delete"
                        /\ Clash(d, Written(running.batch[k], running))
  OBVIOUS
<1>6. PICK j \in 1 .. running.next - 1 :
        running.batch[j].action # "delete" /\ Same(Written(running.batch[j], running), other)
  BY <1>1, <1>3, <1>4, <1>5 DEF BatchInv, RivalsInv
<1>7. PICK w : w = Written(running.batch[j], running) OBVIOUS
<1>8. Values(w, index) = Values(other, index) BY <1>6, <1>7, SameValues
<1>9. Clash(d, w) BY <1>2, <1>6, <1>7, <1>8 DEF Clash, Same
<1> QED BY <1>6, <1>7, <1>9

\* A stored document is lodged as its values demand.
LEMMA StoredIsLodged ==
  ASSUME StateInv, NEW id \in Ids, docs[id] # NoDocument
  PROVE  LodgedIn(docs[id], UniqueIndices(SchemaFor(docs[id])))
BY DEF StateInv, AllFit, FitsIn, SchemaFor, SchemaOf

\* A document that the batch has touched is named twice.
LEMMA TouchedIsTwice ==
  ASSUME SentInv, running # NoBatch, Touched(Current.id)
  PROVE  NamesTwice(running.batch, Current.id)
<1>1. /\ Len(running.batch) \in Nat /\ DOMAIN running.batch = 1 .. Len(running.batch)
      /\ running.next \in 1 .. Len(running.batch)
  BY DEF SentInv
<1>2. PICK j \in 1 .. running.next - 1 : running.batch[j].id = Current.id
  BY DEF Touched
<1>3. j \in 1 .. Len(running.batch) /\ j # running.next
  BY <1>1, <1>2
<1> QED BY <1>1, <1>2, <1>3, TwiceNamed DEF Current

\* The application stops only where the property says.
LEMMA StopKeeps ==
  ASSUME BatchesInv, ApplyStops
  PROVE  BatchesInv'
<1>1. StateInv /\ BatchInv /\ VersionsInv /\ DomainsInv BY DEF BatchesInv
<1>2. /\ running # NoBatch
      /\ running' = [running EXCEPT !.stopped = TRUE]
      /\ clients' = clients /\ docs' = docs /\ contracts' = contracts /\ kept' = kept
      /\ copies' = copies /\ removed' = removed /\ now' = now /\ batches' = batches
      /\ Ids' = Ids
  BY DEF ApplyStops, Applying, Ids
<1>3. /\ DOMAIN running' = DOMAIN running
      /\ running'.owner = running.owner /\ running'.batch = running.batch
      /\ running'.next = running.next /\ running'.fetched = running.fetched
      /\ running'.duplicates = running.duplicates
  BY <1>1, <1>2 DEF BatchInv, SentInv
<1>4. PICK t : t = Current OBVIOUS
<1>5. /\ running.next \in DOMAIN running.batch /\ t = running.batch[running.next]
      /\ Made(t) /\ Admitted(t) /\ t.id \in Ids
  BY <1>1, <1>2, <1>4, CurrentIsSent DEF BatchInv, Current
<1>6. ASSUME ~ NamesTwice(running.batch, t.id)
      PROVE  \/ t.id \in running.duplicates
             \/ /\ t.action # "delete"
                /\ \/ Crowded(Written(t, running))
                   \/ \E k \in 1 .. running.next - 1 :
                        /\ running.batch[k].action # "delete"
                        /\ Clash(Written(t, running), Written(running.batch[k], running))
             \/ t.action # "create" /\ Stuck(t.id)
  <2> DEFINE d == Written(t, running)
             old == docs[t.id]
  <2>1. ~ Touched(t.id)
    BY <1>1, <1>2, <1>4, <1>6, TouchedIsTwice DEF BatchInv
  <2>2. t.action = "create" <=> old = NoDocument
    BY <1>1, <1>2, <1>5, <2>1 DEF BatchInv, PresenceInv
  <2>3. old # NoDocument => /\ old.id = t.id /\ old.type = t.type
                            /\ LodgedIn(old, UniqueIndices(SchemaFor(old)))
    BY <1>1, <1>5, StoredIsLodged DEF StateInv, IsTable, IsDocument, Made
  <2>4. CASE Applying("create") /\ ~ create_document(document_from_transition_create(Current, running.owner))
    <3>1. t.action = "create" BY <1>4, <2>4 DEF Applying
    <3>2. d = document_from_transition_create(t, running.owner) BY <3>1 DEF Written
    <3>3. d.id = t.id /\ d.type = t.type BY <3>2 DEF document_from_transition_create
    <3>4. ~ create_document(d) BY <1>4, <2>4, <3>2
    <3> HIDE DEF d
    <3>5. PICK index \in UniqueIndices(SchemaFor(d)) : \E o \in Twins(d, index) : index \notin o.lodged
      BY <2>2, <3>1, <3>3, <3>4 DEF create_document
    <3>6. PICK other \in Twins(d, index) : index \notin other.lodged BY <3>5
    <3>7. /\ other \in Stored /\ other.type = d.type /\ other.id.contract = d.id.contract
          /\ Values(other, index) = Values(d, index)
      BY DEF Twins
    <3>8. other.id \in Ids /\ docs[other.id] = other /\ other # NoDocument
      BY <1>1, <3>7, StoredAre
    <3>9. SchemaFor(other) = SchemaFor(d) BY <3>7 DEF SchemaFor
    <3>10. ~ LacksAll(other, index)
      BY <1>1, <3>6, <3>8, <3>9, StoredIsLodged DEF LodgedIn
    <3>11. ~ LacksAll(d, index) BY <3>7, <3>10, EqualValues
    <3>12. CASE Lacks(d, index)
      <4>1. Crowded(d) BY <3>6, <3>11, <3>12 DEF Crowded
      <4> QED BY <3>1, <4>1 DEF d
    <3>13. CASE ~ Lacks(d, index)
      <4>1. d = Written(Current, running) BY <1>4 DEF d
      <4>2. \/ t.id \in running.duplicates
            \/ \E k \in 1 .. running.next - 1 :
                 running.batch[k].action # "delete" /\ Clash(d, Written(running.batch[k], running))
        BY <1>1, <1>2, <1>4, <3>1, <3>3, <3>13, <4>1, ClashesWithRival
      <4> QED BY <3>1, <4>2 DEF d
    <3> QED BY <3>12, <3>13
  <2>5. CASE Applying("replace") /\ ~ update_document(document_from_fetched(Current, running.fetched))
    <3>1. t.action = "replace" BY <1>4, <2>5 DEF Applying
    <3>2. d = document_from_fetched(t, running.fetched) BY <3>1 DEF Written
    <3>3. ~ update_document(d) BY <1>4, <2>5, <3>2
    <3>4. /\ AreFetched(running.fetched)
          /\ \E f \in running.fetched : f.id = t.id /\ t.revision = f.revision + 1
      BY <1>1, <1>2, <1>5, <3>1 DEF BatchInv, FetchedInv
    <3> HIDE DEF d
    <3>5. PICK f \in running.fetched : f.id = t.id /\ IsDocument(d, t.id) /\ d.created = f.created
      BY <1>1, <1>5, <3>1, <3>2, <3>4, ReplacedFields
    <3>6. d.id = t.id /\ d.type = t.type BY <1>5, <3>5 DEF IsDocument, Made
    <3>7. old # NoDocument /\ old.created = d.created
      BY <1>1, <1>2, <2>2, <3>1, <3>5 DEF BatchInv, FetchedInv
    <3>8. SchemaFor(old) = SchemaFor(d) BY <2>3, <3>6, <3>7 DEF SchemaFor
    <3>9. LodgedIn(old, UniqueIndices(SchemaFor(d))) BY <2>3, <3>7, <3>8
    <3>10. CASE ~ Mutable(t.id) BY <3>1, <3>10 DEF Stuck
    <3>11. CASE Mutable(t.id)
      <4>1. PICK index \in ToSet(SchemaFor(d).indices) :
              /\ Moves(d, index)
              /\ \/ index \notin old.indexed
                 \/ index.unique /\ index \in old.lodged
                 \/ index.unique /\ ~ LacksAll(d, index) /\ Twins(d, index) # {}
        BY <3>3, <3>6, <3>7, <3>11 DEF update_document
      <4>2. CASE index \notin old.indexed
        BY <3>1, <3>8, <4>1, <4>2 DEF Stuck
      <4>3. CASE index.unique /\ index \in old.lodged
        <5>1. index \in UniqueIndices(SchemaFor(d)) BY <4>1, <4>3 DEF UniqueIndices
        <5>2. Lacks(old, index) BY <3>9, <4>3, <5>1 DEF LodgedIn
        <5> QED BY <3>1, <3>8, <5>1, <5>2 DEF Stuck
      <4>4. CASE index.unique /\ ~ LacksAll(d, index) /\ Twins(d, index) # {}
        <5>1. index \in UniqueIndices(SchemaFor(d)) BY <4>1, <4>4 DEF UniqueIndices
        <5>2. CASE Lacks(d, index)
          <6>1. Crowded(d) BY <4>4, <5>1, <5>2 DEF Crowded
          <6> QED BY <3>1, <6>1 DEF d
        <5>3. CASE ~ Lacks(d, index)
          <6>1. d = Written(Current, running) BY <1>4 DEF d
          <6>2. PICK other \in Twins(d, index) : TRUE BY <4>4
          <6>3. \E p \in ToSet(index.properties) : p # "$createdAt"
            <7>1. PICK p \in ToSet(index.properties) : Property(old, p) # Property(d, p)
              <8>1. Values(old, index) # Values(d, index) BY <3>6, <4>1 DEF Moves
              <8> QED BY <8>1 DEF Values
            <7>2. p # "$createdAt" BY <3>7, <7>1 DEF Property
            <7> QED BY <7>2
          <6>4. \/ t.id \in running.duplicates
                \/ \E k \in 1 .. running.next - 1 :
                     running.batch[k].action # "delete" /\ Clash(d, Written(running.batch[k], running))
            BY <1>1, <1>2, <1>4, <3>1, <3>6, <5>1, <5>3, <6>1, <6>2, <6>3, ClashesWithRival
          <6> QED BY <3>1, <6>4 DEF d
        <5> QED BY <5>2, <5>3
      <4> QED BY <4>1, <4>2, <4>3, <4>4
    <3> QED BY <3>10, <3>11
  <2>6. CASE Applying("delete") /\ ~ remove_document(Current.id)
    <3>1. t.action = "delete" /\ ~ remove_document(t.id) BY <1>4, <2>6 DEF Applying
    <3>2. old # NoDocument BY <2>2, <3>1
    <3>3. Stuck(t.id) BY <2>3, <3>1, <3>2 DEF remove_document, Stuck, LodgedIn
    <3> QED BY <3>1, <3>3
  <2> QED BY <2>4, <2>5, <2>6 DEF ApplyStops
<1>7. Current' = t BY <1>3, <1>4 DEF Current
<1>16. \A u : Written(u, running') = Written(u, running)
  BY <1>3 DEF Written
<1>17. /\ \A u, v : Clash(u, v)' <=> Clash(u, v)
       /\ \A u : Crowded(u)' <=> Crowded(u)
       /\ \A id : Stuck(id)' <=> Stuck(id)
  BY <1>2 DEF Clash, Crowded, Stuck, Twins, Stored, SchemaFor, SchemaOf
<1>8. StopsOnlyOnClash'
  BY <1>3, <1>6, <1>7, <1>16, <1>17 DEF StopsOnlyOnClash
<1>9. StateInv' BY <1>1, <1>2 DEF StateInv, IsTable, AreContracts, AllFit
<1>10. \A id : Touched(id)' <=> Touched(id) BY <1>3 DEF Touched
<1>11. SentInv'
  BY <1>1, <1>2, <1>3 DEF BatchInv, SentInv, Made, Admitted
<1>12. FetchedInv'
  BY <1>1, <1>2, <1>3 DEF BatchInv, FetchedInv, AreFetched, Touched
<1>13. PresenceInv'
  BY <1>1, <1>2, <1>3 DEF BatchInv, PresenceInv, Touched
<1>18. RivalsInv'
  <2>1. \A action, u, o : Rival(action, u, o)' <=> Rival(action, u, o)
    BY <1>2 DEF Rival, SchemaFor, SchemaOf
  <2> QED BY <1>1, <1>2, <1>3, <1>16, <2>1 DEF BatchInv, RivalsInv
<1>14. VersionsInv' BY <1>1, <1>2, <1>3 DEF VersionsInv, Follows
<1>15. DomainsInv'
  BY <1>1, <1>2, <1>3 DEF DomainsInv, ChildDomain, HasParent, Settled, Touched, IsParent, DomainRemoved
<1> QED BY <1>8, <1>9, <1>11, <1>12, <1>13, <1>14, <1>15, <1>18 DEF BatchesInv, BatchInv

\* Outside of a batch every stored document may be a parent.
LEMMA QuietParents ==
  ASSUME running' = NoBatch, docs' = docs, copies \subseteq copies', removed' = removed,
         clients' = clients, NEW d, HasParent(d)
  PROVE  HasParent(d)'
BY DEF HasParent, Settled, DomainRemoved, Ids

\* The caller goes on after an error.
LEMMA GoOnKeeps ==
  ASSUME BatchesInv, GoOn
  PROVE  BatchesInv'
<1>1. StateInv /\ VersionsInv /\ DomainsInv BY DEF BatchesInv
<1>2. /\ running' = NoBatch
      /\ clients' = clients /\ docs' = docs /\ contracts' = contracts /\ kept' = kept
      /\ copies' = copies /\ removed' = removed /\ now' = now /\ batches' = batches
      /\ Ids' = Ids
  BY DEF GoOn, Ids
<1>3. StateInv' BY <1>1, <1>2 DEF StateInv, IsTable, AreContracts, AllFit
<1>4. VersionsInv' BY <1>1, <1>2 DEF VersionsInv, Follows
<1>5. ASSUME NEW x \in Ids, docs[x] # NoDocument, ChildDomain(docs[x])
      PROVE  HasParent(docs[x])'
  <2>1. PICK d : d = docs[x] OBVIOUS
  <2>2. HasParent(d) BY <1>1, <1>5, <2>1 DEF DomainsInv
  <2>3. HasParent(d)' BY <1>2, <2>2, QuietParents
  <2> QED BY <1>2, <2>1, <2>3 DEF HasParent
<1>6. DomainsInv'
  <2>1. (\A id \in Ids : docs[id] # NoDocument /\ ChildDomain(docs[id]) => HasParent(docs[id]))'
    <3> SUFFICES ASSUME NEW x \in Ids', (docs[x] # NoDocument /\ ChildDomain(docs[x]))'
                 PROVE  HasParent(docs[x])'
      OBVIOUS
    <3> QED BY <1>2, <1>5 DEF ChildDomain
  <2>2. (\A x \in Ids : kept.docs[x] # NoDocument /\ ChildDomain(kept.docs[x]) =>
           (\E c \in copies : IsParent(c, kept.docs[x])) \/ DomainRemoved)'
    BY <1>1, <1>2 DEF DomainsInv, ChildDomain, IsParent, DomainRemoved
  <2> QED BY <1>1, <1>2, <2>1, <2>2 DEF DomainsInv
<1> QED BY <1>2, <1>3, <1>4, <1>6
        DEF BatchesInv, BatchInv, SentInv, FetchedInv, PresenceInv, RivalsInv, StopsOnlyOnClash

\* An update of a contract keeps what is stored under it fitting.
LEMMA UpdateKeeps ==
  ASSUME BatchesInv, NEW c \in DOMAIN clients.updates, NEW new \in clients.updates[c],
         UpdateContract(c, new)
  PROVE  BatchesInv'
<1>1. StateInv /\ VersionsInv /\ DomainsInv BY DEF BatchesInv
<1>2. /\ running = NoBatch /\ running' = NoBatch
      /\ c \in DOMAIN contracts /\ UpdateAdmitted(contracts[c], new)
      /\ contracts' = [contracts EXCEPT ![c] = new]
      /\ clients' = clients /\ docs' = docs /\ kept' = kept
      /\ copies' = copies /\ removed' = removed /\ now' = now /\ batches' = batches
      /\ Ids' = Ids
  BY DEF UpdateContract, Ids
<1>3. WellFormed(new) BY <1>1, ClientsAssumption DEF StateInv
<1>4. /\ DOMAIN contracts' = DOMAIN InitialContracts
      /\ \A b \in DOMAIN contracts' : WellFormed(contracts'[b])
  <2>1. /\ DOMAIN contracts = DOMAIN InitialContracts
        /\ \A b \in DOMAIN contracts : WellFormed(contracts[b])
    BY <1>1 DEF StateInv, AreContracts
  <2> QED BY <1>2, <1>3, <2>1
<1>5. ASSUME NEW id \in Ids, docs[id] # NoDocument
      PROVE  FitsIn(docs[id], contracts')
  <2>1. FitsIn(docs[id], contracts) BY <1>1, <1>5 DEF StateInv, AllFit
  <2>2. WellFormed(contracts[c]) BY <1>1, <1>2 DEF StateInv, AreContracts
  <2>3. PICK old : old = contracts[c] OBVIOUS
  <2>4. FitsIn(docs[id], [contracts EXCEPT ![c] = new])
    BY <1>2, <1>3, <2>1, <2>2, <2>3, UpdateKeepsFit
  <2> QED BY <1>2, <2>4
<1>6. AllFit(docs, contracts)' BY <1>2, <1>5 DEF AllFit
<1>7. (AllFit(kept.docs, kept.contracts))' BY <1>1, <1>2 DEF StateInv, AllFit
<1>8. (IsTable(docs) /\ IsTable(kept.docs) /\ AreContracts(kept.contracts))'
  BY <1>1, <1>2 DEF StateInv, IsTable, AreContracts
<1>9. StateInv'
  BY <1>1, <1>2, <1>4, <1>6, <1>7, <1>8 DEF StateInv, AreContracts
<1>10. VersionsInv' BY <1>1, <1>2 DEF VersionsInv, Follows
<1>11. DomainsInv'
  BY <1>1, <1>2 DEF DomainsInv, ChildDomain, HasParent, Settled, IsParent, DomainRemoved
<1> QED BY <1>2, <1>9, <1>10, <1>11
        DEF BatchesInv, BatchInv, SentInv, FetchedInv, PresenceInv, RivalsInv, StopsOnlyOnClash

\* A block is committed: what is stored becomes what is committed.
LEMMA CommitKeeps ==
  ASSUME BatchesInv, CommitBlock
  PROVE  BatchesInv'
<1>1. StateInv /\ VersionsInv /\ DomainsInv BY DEF BatchesInv
<1>2. /\ running = NoBatch /\ running' = NoBatch
      /\ kept'.docs = docs /\ kept'.contracts = contracts
      /\ copies' = copies \cup Stored
      /\ now' \in {now, now + 1} /\ now' <= MaxTime
      /\ clients' = clients /\ docs' = docs /\ contracts' = contracts
      /\ removed' = removed /\ batches' = batches
      /\ Ids' = Ids
  BY DEF CommitBlock, Ids
<1>3. \A d \in Stored : d.id \in Ids /\ docs[d.id] = d /\ d # NoDocument /\ IsDocument(d, d.id)
  BY <1>1, StoredAre
<1>4. \A x \in Ids : docs[x] # NoDocument => docs[x] \in Stored /\ docs[x].id = x
  BY <1>1 DEF Stored, StateInv, IsTable, IsDocument
<1>5. StateInv'
  <2>1. now' \in 0 .. MaxTime BY <1>1, <1>2, BoundAssumption DEF StateInv
  <2>2. (\A c \in copies : c.id \in Ids /\ IsDocument(c, c.id))'
    BY <1>1, <1>2, <1>3 DEF StateInv, IsDocument
  <2> QED BY <1>1, <1>2, <2>1, <2>2 DEF StateInv, IsTable, AreContracts, AllFit
<1>6. VersionsInv'
  <2>1. ASSUME NEW x \in Ids \ removed, NEW c \in copies', c.id = x
        PROVE  docs[x] # NoDocument /\ Follows(docs[x], c)
    <3>1. CASE c \in copies
      <4>1. kept.docs[x] # NoDocument /\ Follows(kept.docs[x], c)
        BY <1>1, <2>1, <3>1 DEF VersionsInv
      <4>2. docs[x] # NoDocument /\ Follows(docs[x], kept.docs[x])
        BY <1>1, <2>1, <4>1 DEF VersionsInv
      <4>3. c.revision \in Nat /\ docs[x].revision \in Nat /\ kept.docs[x].revision \in Nat
        BY <1>1, <2>1, <3>1, <4>1, <4>2 DEF StateInv, IsTable, IsDocument, Document
      <4> QED BY <4>1, <4>2, <4>3 DEF Follows
    <3>2. CASE c \in Stored
      BY <1>3, <2>1, <3>2 DEF Follows
    <3> QED BY <1>2, <2>1, <3>1, <3>2
  <2> QED BY <1>2, <2>1 DEF VersionsInv, Follows
<1>7. ASSUME NEW d, HasParent(d)
      PROVE  (\E c \in copies' : IsParent(c, d)) \/ DomainRemoved
  <2>1. CASE \E x \in Ids : Settled(x) /\ IsParent(docs[x], d)
    BY <1>2, <1>4, <2>1 DEF Settled
  <2> QED BY <1>2, <1>7, <2>1 DEF HasParent
<1>8. DomainsInv'
  <2>1. ASSUME NEW x \in Ids, docs[x] # NoDocument, ChildDomain(docs[x])
        PROVE  (\E c \in copies' : IsParent(c, docs[x])) \/ DomainRemoved
    BY <1>1, <1>7, <2>1 DEF DomainsInv
  <2>2. (\A id \in Ids : docs[id] # NoDocument /\ ChildDomain(docs[id]) => HasParent(docs[id]))'
    <3> SUFFICES ASSUME NEW x \in Ids', (docs[x] # NoDocument /\ ChildDomain(docs[x]))'
                 PROVE  HasParent(docs[x])'
      OBVIOUS
    <3>1. (\E c \in copies' : IsParent(c, docs[x])) \/ DomainRemoved
      BY <1>2, <2>1 DEF ChildDomain
    <3> QED BY <1>2, <3>1 DEF HasParent, DomainRemoved, IsParent
  <2>3. (\A x \in Ids : kept.docs[x] # NoDocument /\ ChildDomain(kept.docs[x]) =>
           (\E c \in copies : IsParent(c, kept.docs[x])) \/ DomainRemoved)'
    BY <1>2, <2>1 DEF ChildDomain, IsParent, DomainRemoved
  <2>4. (\A x \in Ids : kept.docs[x] # NoDocument => kept.docs[x] \in copies)'
    BY <1>2, <1>4
  <2> QED BY <1>2, <2>2, <2>3, <2>4 DEF DomainsInv
<1> QED BY <1>2, <1>5, <1>6, <1>8
        DEF BatchesInv, BatchInv, SentInv, FetchedInv, PresenceInv, RivalsInv, StopsOnlyOnClash

\* A block is given up: what was committed is stored again.
LEMMA AbortKeeps ==
  ASSUME BatchesInv, AbortBlock
  PROVE  BatchesInv'
<1>1. StateInv /\ VersionsInv /\ DomainsInv BY DEF BatchesInv
<1>2. /\ running' = NoBatch
      /\ docs' = kept.docs /\ contracts' = kept.contracts
      /\ clients' = clients /\ kept' = kept
      /\ copies' = copies /\ removed' = removed /\ now' = now /\ batches' = batches
      /\ Ids' = Ids
  BY DEF AbortBlock, Ids
<1>3. StateInv' BY <1>1, <1>2 DEF StateInv, IsTable, AreContracts, AllFit
<1>4. VersionsInv' BY <1>1, <1>2 DEF VersionsInv, Follows
<1>5. DomainsInv'
  <2>1. (\A id \in Ids : docs[id] # NoDocument /\ ChildDomain(docs[id]) => HasParent(docs[id]))'
    <3> SUFFICES ASSUME NEW x \in Ids', (docs[x] # NoDocument /\ ChildDomain(docs[x]))'
                 PROVE  HasParent(docs[x])'
      OBVIOUS
    <3>1. (\E c \in copies : IsParent(c, kept.docs[x])) \/ DomainRemoved
      BY <1>1, <1>2 DEF DomainsInv, ChildDomain
    <3> QED BY <1>2, <3>1 DEF HasParent, DomainRemoved, IsParent
  <2>2. (\A x \in Ids : kept.docs[x] # NoDocument /\ ChildDomain(kept.docs[x]) =>
           (\E c \in copies : IsParent(c, kept.docs[x])) \/ DomainRemoved)'
    BY <1>1, <1>2 DEF DomainsInv, ChildDomain, IsParent, DomainRemoved
  <2> QED BY <1>1, <1>2, <2>1, <2>2 DEF DomainsInv
<1> QED BY <1>2, <1>3, <1>4, <1>5
        DEF BatchesInv, BatchInv, SentInv, FetchedInv, PresenceInv, RivalsInv, StopsOnlyOnClash

-----------------------------------------------------------------------------
(* Theorems.                                                               *)

\* The inductive invariant: what is stored fits its contracts, the batch that
\* is applied is as its validation saw it up to what it wrote itself
\* (apply_documents_batch_transition).
THEOREM BatchesInvariant == Spec => []BatchesInv
<1>1. Init => BatchesInv
  <2> SUFFICES ASSUME Init PROVE BatchesInv
    OBVIOUS
  <2>1. /\ clients \in Clients /\ running = NoBatch /\ copies = {} /\ removed = {}
        /\ docs = [id \in Ids |-> NoDocument] /\ kept.docs = docs
        /\ contracts = InitialContracts /\ kept.contracts = contracts
        /\ now = 0 /\ batches = 0
    BY DEF Init, Ids
  <2>2. StateInv
    BY <2>1, BoundAssumption, ContractsAssumption DEF StateInv, IsTable, AreContracts, AllFit
  <2> QED BY <2>1, <2>2
          DEF BatchesInv, BatchInv, SentInv, FetchedInv, PresenceInv, RivalsInv, VersionsInv,
              DomainsInv, StopsOnlyOnClash
<1>2. BatchesInv /\ [Next]_vars => BatchesInv'
  <2> SUFFICES ASSUME BatchesInv, [Next]_vars PROVE BatchesInv'
    OBVIOUS
  <2>1. ASSUME NEW owner \in Owners, NEW batch \in Batches, Deliver(owner, batch) PROVE BatchesInv'
    BY <2>1, DeliverKeeps
  <2>2. CASE ApplyCreate \/ ApplyReplace \/ ApplyDelete
    BY <2>2, ApplyKeeps
  <2>3. CASE ApplyStops BY <2>3, StopKeeps
  <2>4. CASE GoOn BY <2>4, GoOnKeeps
  <2>5. ASSUME NEW c \in DOMAIN clients.updates, NEW new \in clients.updates[c],
               UpdateContract(c, new)
        PROVE  BatchesInv'
    BY <2>5, UpdateKeeps
  <2>6. CASE CommitBlock BY <2>6, CommitKeeps
  <2>7. CASE AbortBlock BY <2>7, AbortKeeps
  <2>8. CASE UNCHANGED vars
    <3>1. /\ clients' = clients /\ docs' = docs /\ contracts' = contracts /\ kept' = kept
          /\ copies' = copies /\ removed' = removed /\ now' = now /\ running' = running
          /\ batches' = batches
      BY <2>8 DEF vars
    <3>2. StateInv'
      BY <3>1 DEF BatchesInv, StateInv, IsTable, AreContracts, AllFit, Ids
    <3>3. SentInv' BY <3>1 DEF BatchesInv, BatchInv, SentInv, Made, Admitted, Ids
    <3>4. FetchedInv' /\ PresenceInv'
      BY <3>1 DEF BatchesInv, BatchInv, FetchedInv, AreFetched, PresenceInv, Touched, Ids
    <3>5. RivalsInv'
      BY <3>1 DEF BatchesInv, BatchInv, RivalsInv, Rival, SchemaFor, SchemaOf, Ids
    <3>6. VersionsInv' BY <3>1 DEF BatchesInv, VersionsInv, Ids
    <3>7. DomainsInv'
      BY <3>1 DEF BatchesInv, DomainsInv, HasParent, Settled, Touched, DomainRemoved, Ids
    <3>8. /\ \A u, v : Clash(u, v)' <=> Clash(u, v)
          /\ \A u : Crowded(u)' <=> Crowded(u)
          /\ \A id : Stuck(id)' <=> Stuck(id)
      BY <3>1 DEF Clash, Crowded, Stuck, Twins, Stored, SchemaFor, SchemaOf, Ids
    <3>9. StopsOnlyOnClash'
      BY <3>1, <3>8 DEF BatchesInv, StopsOnlyOnClash, Current
    <3> QED BY <3>2, <3>3, <3>4, <3>5, <3>6, <3>7, <3>9 DEF BatchesInv, BatchInv
  <2> QED BY <2>1, <2>2, <2>3, <2>4, <2>5, <2>6, <2>7, <2>8 DEF Next
<1> QED BY <1>1, <1>2, PTL DEF Spec

\* Stored documents fit their contracts whatever updates were admitted
\* (validate_data_contract_update_transition_basic).
THEOREM StoredDocumentsFit == Spec => []DocumentsFit
<1>1. BatchesInv => DocumentsFit
  <2> SUFFICES ASSUME BatchesInv PROVE DocumentsFit
    OBVIOUS
  <2>1. StateInv /\ SentInv BY DEF BatchesInv, BatchInv
  <2>2. TypeOK
    BY <2>1 DEF TypeOK, StateInv, IsTable, AreContracts, SentInv
  <2>3. ASSUME NEW d \in Stored PROVE FitsIn(d, contracts)
    BY <2>1, StoredAre DEF StateInv, AllFit
  <2>4. StoredValid BY <2>3 DEF StoredValid, FitsIn, InPlace, SchemaOf
  <2>5. UniqueStillIndexed BY <2>3 DEF UniqueStillIndexed, FitsIn, SchemaOf
  <2> QED BY <2>2, <2>4, <2>5 DEF DocumentsFit
<1> QED BY <1>1, BatchesInvariant, PTL

\* A batch that passed its validation stops in the middle only at a clash that
\* was found and dropped, at one inside itself, or at a document that the store
\* does not take or let go for what it lacks
\* (validate_documents_uniqueness_by_indices; the store's create, update and
\* remove).
THEOREM BatchesStopOnlyOnClash == Spec => []StopsOnlyOnClash
<1>1. BatchesInv => StopsOnlyOnClash BY DEF BatchesInv
<1> QED BY <1>1, BatchesInvariant, PTL

\* A domain is created under the domain above it, as long as none was deleted
\* (create_domain_data_trigger).
THEOREM DomainsHaveParents == Spec => []DomainsUnderParents
<1>1. BatchesInv => DomainsUnderParents
  <2> SUFFICES ASSUME BatchesInv, NEW d \in Stored, IsDomain(d),
                      d.revision = INITIAL_REVISION, d.data.parent # <<>>
               PROVE  \/ \E e \in Stored \cup copies : IsParent(e, d)
                      \/ \E id \in removed : id.contract = "dpns" /\ id.type = "domain"
    BY DEF DomainsUnderParents
  <2>1. StateInv /\ DomainsInv BY DEF BatchesInv
  <2>2. d.id \in Ids /\ docs[d.id] = d /\ d # NoDocument BY <2>1, StoredAre
  <2>3. HasParent(d) BY <2>1, <2>2 DEF DomainsInv, ChildDomain
  <2>4. \A x \in Ids : docs[x] # NoDocument => docs[x] \in Stored BY DEF Stored
  <2> QED BY <2>3, <2>4 DEF HasParent, Settled, DomainRemoved
<1> QED BY <1>1, BatchesInvariant, PTL

\* A replace writes over the version that its sender had seen, unless the batch
\* names the document twice or the document was deleted (check_revision).
THEOREM NoUpdateIsLost == Spec => NoLostUpdate
<1> DEFINE Act == ApplyReplace => \/ Current.base = docs[Current.id].data
                                  \/ NamesTwice(running.batch, Current.id)
                                  \/ Current.id \in removed
<1>1. BatchesInv /\ [Next]_vars => Act
  <2> SUFFICES ASSUME BatchesInv, ApplyReplace,
                      ~ NamesTwice(running.batch, Current.id), Current.id \notin removed
               PROVE  Current.base = docs[Current.id].data
    OBVIOUS
  <2>1. StateInv /\ BatchInv /\ VersionsInv BY DEF BatchesInv
  <2>2. running # NoBatch /\ Current.action = "replace" BY DEF ApplyReplace, Applying
  <2>3. ~ Touched(Current.id) BY <2>1, <2>2, TouchedIsTwice DEF BatchInv
  <2> QED BY <2>1, <2>2, <2>3, ReplaceSawStored
<1>2. Spec => [][Act]_vars
  <2>1. BatchesInv /\ [Next]_vars => [Act]_vars BY <1>1
  <2> QED BY <2>1, BatchesInvariant, PTL DEF Spec
<1> QED BY <1>2 DEF NoLostUpdate

\* Only a batch of the owner changes or removes a stored document, and the
\* owner, the type and the time of creation stay (check_ownership).
THEOREM OnlyOwnersWrite == Spec => OwnersOnly
<1> DEFINE Act == \A id \in Ids :
       docs[id] # NoDocument /\ docs'[id] # docs[id] /\ ~ AbortsBlock =>
         /\ running # NoBatch /\ running.owner = docs[id].owner
         /\ docs'[id] # NoDocument => /\ docs'[id].owner = docs[id].owner
                                      /\ docs'[id].type = docs[id].type
                                      /\ docs'[id].created = docs[id].created
<1>1. BatchesInv /\ [Next]_vars => Act
  <2> SUFFICES ASSUME BatchesInv, [Next]_vars, NEW x \in Ids,
                      docs[x] # NoDocument, docs'[x] # docs[x], ~ AbortsBlock
               PROVE  /\ running # NoBatch /\ running.owner = docs[x].owner
                      /\ docs'[x] # NoDocument => /\ docs'[x].owner = docs[x].owner
                                                   /\ docs'[x].type = docs[x].type
                                                   /\ docs'[x].created = docs[x].created
    OBVIOUS
  <2>1. StateInv /\ BatchInv BY DEF BatchesInv
  <2>2. IsDocument(docs[x], x) BY <2>1 DEF StateInv, IsTable
  <2>3. ApplyCreate \/ ApplyReplace \/ ApplyDelete
    BY DEF Next, vars, Deliver, ApplyStops, GoOn, UpdateContract, CommitBlock, AbortBlock,
           AbortsBlock
  <2>4. running # NoBatch /\ StateInv'
    BY <2>3, ApplyKeeps DEF ApplyCreate, ApplyReplace, ApplyDelete, Applying, BatchesInv
  <2>5. PICK t : t = Current OBVIOUS
  <2>6. Made(t) /\ Admitted(t) /\ t.id \in Ids /\ t.id.owner = running.owner
        /\ running.next \in DOMAIN running.batch /\ t = running.batch[running.next]
    BY <2>1, <2>4, <2>5, CurrentIsSent DEF BatchInv, Current
  <2>7. Ids' = Ids BY <2>3 DEF ApplyCreate, ApplyReplace, ApplyDelete, Ids
  <2>8. docs'[x] # NoDocument => docs'[x].owner = x.owner /\ docs'[x].type = x.type
    BY <2>4, <2>7 DEF StateInv, IsTable, IsDocument
  <2>9. CASE ApplyCreate
    <3>1. PICK new : new = Created(document_from_transition_create(t, running.owner)) OBVIOUS
    <3>2. docs' = [docs EXCEPT ![t.id] = new] /\ docs[t.id] = NoDocument
      BY <2>5, <2>9, <3>1 DEF ApplyCreate, create_document, document_from_transition_create
    <3> QED BY <2>1, <3>2 DEF StateInv, IsTable
  <2>10. CASE ApplyReplace
    <3> DEFINE e == document_from_fetched(t, running.fetched)
    <3>1. t.action = "replace" BY <2>5, <2>10 DEF ApplyReplace, Applying
    <3>2. /\ AreFetched(running.fetched)
          /\ \E f \in running.fetched : f.id = t.id /\ t.revision = f.revision + 1
      BY <2>1, <2>4, <2>6, <3>1 DEF BatchInv, FetchedInv
    <3>3. PICK d \in running.fetched :
            /\ d.id = t.id /\ IsDocument(e, t.id) /\ e.data = t.data /\ e.created = d.created
      BY <2>1, <2>6, <3>1, <3>2, ReplacedFields
    <3>4. e.id = t.id /\ e.type = t.type /\ e \in Document
          /\ t.contract = t.id.contract /\ t.type = t.id.type
      BY <2>6, <3>3 DEF IsDocument, Made
    <3>5. docs' = [docs EXCEPT ![t.id] = Updated(e)] /\ docs[t.id] # NoDocument
      BY <2>5, <2>10, <3>4 DEF ApplyReplace, update_document
    <3> HIDE DEF e
    <3>6. Same(Updated(e), e)
      BY <2>1, <2>6, <3>1, <3>3, <3>4, <3>5, UpdatedFits
    <3>7. x = t.id /\ docs'[x] = Updated(e)
      BY <2>1, <2>6, <3>5 DEF StateInv, IsTable
    <3>8. docs'[x].created = d.created BY <3>3, <3>6, <3>7 DEF Same
    <3>9. docs[x].created = d.created
      BY <2>1, <2>4, <3>3, <3>7 DEF BatchInv, FetchedInv
    <3> QED BY <2>2, <2>4, <2>6, <2>8, <3>7, <3>8, <3>9 DEF IsDocument
  <2>11. CASE ApplyDelete
    <3>1. docs' = [docs EXCEPT ![t.id] = NoDocument]
      BY <2>5, <2>11 DEF ApplyDelete
    <3>2. x = t.id /\ docs'[x] = NoDocument
      BY <2>1, <2>6, <3>1 DEF StateInv, IsTable
    <3> QED BY <2>2, <2>4, <2>6, <3>2 DEF IsDocument
  <2> QED BY <2>3, <2>9, <2>10, <2>11
<1>2. Spec => [][Act]_vars
  <2>1. BatchesInv /\ [Next]_vars => [Act]_vars BY <1>1
  <2> QED BY <2>1, BatchesInvariant, PTL DEF Spec
<1> QED BY <1>2 DEF OwnersOnly
=============================================================================
