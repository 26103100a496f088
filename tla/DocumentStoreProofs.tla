------------------------- MODULE DocumentStoreProofs -------------------------
(***************************************************************************)
(* Theorems about DocumentStore, for any document types, ids, values and   *)
(* number of blocks: what primary storage keeps; that the indices hold     *)
(* exactly the stored documents; that the stored documents alone decide    *)
(* what is refused; that the store implements DocumentTable; and that the  *)
(* queries of DocumentQuery leave the store alone and find in its indices  *)
(* exactly the documents that have the values they look up.                *)
(*                                                                         *)
(* Every operation takes one document from what it is to what it is to be, *)
(* index after index.  The argument about the indices is an invariant of   *)
(* these stages: the trees of the batch are those above its references,    *)
(* and its references are the entries of the documents, the indices that   *)
(* are done holding the document as it is to be and the others as it was.  *)
(***************************************************************************)
EXTENDS DocumentQuery, SequenceTheorems, WellFoundedInduction, TLAPS

\* Items of primary storage are documents of past or present blocks, and the
\* latest of them exists.
PrimaryOK ==
  /\ type \in DocumentTypes
  /\ now \in 1 .. MaxTime
  /\ primary \in [Ids -> Storage \cup {NoDocument}]
  /\ \A id \in Ids : Present(id) =>
       /\ DOMAIN primary[id].items \subseteq 0 .. now
       /\ primary[id].latest \in DOMAIN primary[id].items

\* What an add or an update stores under an id, and which items stay.
LEMMA StoredItem ==
    ASSUME PrimaryOK, NEW id \in Ids, NEW data \in Data
    PROVE  /\ Stored(id, data) \in Storage
           /\ Stored(id, data) # NoDocument
           /\ DOMAIN Stored(id, data).items \subseteq 0 .. now
           /\ Stored(id, data).latest \in DOMAIN Stored(id, data).items
           /\ type.keepsHistory /\ Present(id) =>
                \A t \in DOMAIN primary[id].items :
                  t < now => /\ t \in DOMAIN Stored(id, data).items
                             /\ Stored(id, data).items[t] = primary[id].items[t]
<1> DEFINE S == {ItemKey} \cup EarlierTimes(id)
           items == [t \in S |-> IF t = ItemKey THEN data ELSE primary[id].items[t]]
<1>1. now \in 1 .. MaxTime /\ MaxTime \in Nat /\ now \in Nat
  BY BoundAssumption DEF PrimaryOK
<1>2. ItemKey \in 0 .. now /\ 0 .. now \subseteq 0 .. MaxTime
  BY <1>1 DEF ItemKey
<1>3. Stored(id, data) = [items |-> items, latest |-> ItemKey]
  BY DEF Stored
<1>4. Present(id) => /\ primary[id] \in Storage
                     /\ DOMAIN primary[id].items \subseteq 0 .. now
  BY DEF PrimaryOK, Present
<1>5. ASSUME Present(id), NEW t \in DOMAIN primary[id].items PROVE primary[id].items[t] \in Data
  BY <1>4, <1>5 DEF Storage
<1>6. S \subseteq 0 .. now /\ EarlierTimes(id) \subseteq 0 .. now
  BY <1>2, <1>4 DEF EarlierTimes
<1>7. \A t \in S : (IF t = ItemKey THEN data ELSE primary[id].items[t]) \in Data
  BY <1>5 DEF EarlierTimes
<1> HIDE DEF S
<1>8. items \in [S -> Data] /\ DOMAIN items = S
  BY <1>7
<1> HIDE DEF items
<1>9. S \in SUBSET (0 .. MaxTime) /\ ItemKey \in 0 .. MaxTime
  BY <1>2, <1>6
<1>10. items \in UNION {[T -> Data] : T \in SUBSET (0 .. MaxTime)}
  BY <1>8, <1>9
<1>11. Stored(id, data) \in Storage
  BY <1>3, <1>9, <1>10 DEF Storage
<1>12. Stored(id, data) # NoDocument
  BY <1>11, DocumentAssumption
<1>13. /\ DOMAIN Stored(id, data).items \subseteq 0 .. now
       /\ Stored(id, data).latest \in DOMAIN Stored(id, data).items
  BY <1>3, <1>6, <1>8 DEF S
<1>14. ASSUME type.keepsHistory, Present(id), NEW t \in DOMAIN primary[id].items, t < now
       PROVE  /\ t \in DOMAIN Stored(id, data).items
              /\ Stored(id, data).items[t] = primary[id].items[t]
  <2>1. t \in S
    BY <1>14 DEF S, EarlierTimes
  <2>2. t # ItemKey
    BY <1>1, <1>14 DEF ItemKey
  <2>3. items[t] = primary[id].items[t]
    BY <2>1, <2>2 DEF items
  <2> QED BY <1>3, <1>8, <2>1, <2>3
<1> QED BY <1>11, <1>12, <1>13, <1>14

\* A step stores one document anew, deletes one of a type without history, or
\* leaves primary storage alone.
LEMMA PrimarySteps ==
    ASSUME PrimaryOK, [Next]_vars
    PROVE  /\ type' = type /\ now' \in Nat /\ now <= now' /\ now' <= MaxTime
           /\ \/ primary' = primary
              \/ \E id \in Ids, data \in Data :
                   primary' = [primary EXCEPT ![id] = Stored(id, data)] /\ now' = now
              \/ \E id \in Ids : /\ ~ type.keepsHistory
                                 /\ primary' = [primary EXCEPT ![id] = NoDocument]
                                 /\ now' = now
<1>1. now \in Nat /\ now <= MaxTime /\ MaxTime \in Nat
  BY BoundAssumption DEF PrimaryOK
<1>2. CASE NextBlock
  BY <1>1, <1>2 DEF NextBlock
<1>3. ASSUME NEW id \in Ids, DeleteDocument(id)
      PROVE  /\ type' = type /\ now' = now /\ ~ type.keepsHistory
             /\ primary' = [primary EXCEPT ![id] = NoDocument]
  BY <1>3 DEF DeleteDocument, Deletable
<1>4. ASSUME NEW id \in Ids, NEW data \in Data, NEW override,
             AddDocument(id, data, override) \/ UpdateDocument(id, data)
      PROVE  /\ type' = type /\ now' = now
             /\ primary' = [primary EXCEPT ![id] = Stored(id, data)]
  BY <1>4 DEF AddDocument, InsertDocument, UpdateDocument
<1>5. CASE \E id \in Ids : DeleteDocument(id)
  BY <1>1, <1>3, <1>5
<1>6. CASE \E id \in Ids, data \in Data, override \in BOOLEAN :
             AddDocument(id, data, override) \/ UpdateDocument(id, data)
  BY <1>1, <1>4, <1>6
<1>7. CASE UNCHANGED vars
  BY <1>1, <1>7 DEF vars
<1> QED BY <1>2, <1>5, <1>6, <1>7 DEF Next

\* Every step keeps primary storage in order.
LEMMA PrimaryKept == PrimaryOK /\ [Next]_vars => PrimaryOK'
<1> SUFFICES ASSUME PrimaryOK, [Next]_vars PROVE PrimaryOK'
  OBVIOUS
<1>1. /\ type' = type /\ now' \in Nat /\ now <= now' /\ now' <= MaxTime
      /\ \/ primary' = primary
         \/ \E id \in Ids, data \in Data :
              primary' = [primary EXCEPT ![id] = Stored(id, data)] /\ now' = now
         \/ \E id \in Ids : /\ ~ type.keepsHistory
                            /\ primary' = [primary EXCEPT ![id] = NoDocument]
                            /\ now' = now
  BY PrimarySteps
<1>2. type' \in DocumentTypes /\ now' \in 1 .. MaxTime
  BY <1>1, BoundAssumption DEF PrimaryOK
<1>3. CASE primary' = primary
  BY <1>1, <1>2, <1>3, BoundAssumption DEF PrimaryOK, Present
<1>4. ASSUME NEW id \in Ids, NEW data \in Data,
             primary' = [primary EXCEPT ![id] = Stored(id, data)], now' = now
      PROVE  PrimaryOK'
  <2>1. PICK s : s = Stored(id, data)
    OBVIOUS
  <2>2. s \in Storage /\ DOMAIN s.items \subseteq 0 .. now /\ s.latest \in DOMAIN s.items
    BY <2>1, StoredItem
  <2>3. primary' = [primary EXCEPT ![id] = s]
    BY <1>4, <2>1
  <2> QED BY <1>2, <1>4, <2>2, <2>3 DEF PrimaryOK, Present
<1>5. ASSUME NEW id \in Ids, primary' = [primary EXCEPT ![id] = NoDocument], now' = now
      PROVE  PrimaryOK'
  BY <1>2, <1>5 DEF PrimaryOK, Present
<1> QED BY <1>1, <1>3, <1>4, <1>5

\* Primary storage is always in order: whatever was added, updated and deleted,
\* the reference to the latest item of a document leads to a document.
THEOREM PrimaryStorageSound == Spec => []PrimaryOK
<1>1. Init => PrimaryOK
  BY BoundAssumption DEF Init, PrimaryOK, Present
<1> QED
  BY <1>1, PrimaryKept, PTL DEF Spec

\* A type that keeps history never loses what a document was at an earlier
\* time, for any number of blocks and updates (HistoryKept).
THEOREM HistoryIsKept == Spec => HistoryKept
<1> DEFINE Keeps ==
      \A id \in Ids : type.keepsHistory /\ Present(id) =>
        /\ primary'[id] # NoDocument
        /\ \A t \in DOMAIN primary[id].items :
             t < now => /\ t \in DOMAIN primary'[id].items
                        /\ primary'[id].items[t] = primary[id].items[t]
<1>1. PrimaryOK /\ [Next]_vars => [Keeps]_vars
  <2> SUFFICES ASSUME PrimaryOK, [Next]_vars, NEW i \in Ids, type.keepsHistory, Present(i)
               PROVE  /\ primary'[i] # NoDocument
                      /\ \A t \in DOMAIN primary[i].items :
                           t < now => /\ t \in DOMAIN primary'[i].items
                                      /\ primary'[i].items[t] = primary[i].items[t]
    OBVIOUS
  <2>1. \/ primary' = primary
        \/ \E id \in Ids, data \in Data : primary' = [primary EXCEPT ![id] = Stored(id, data)]
    BY PrimarySteps
  <2>2. CASE primary' = primary
    BY <2>2 DEF Present
  <2>3. ASSUME NEW id \in Ids, NEW data \in Data,
               primary' = [primary EXCEPT ![id] = Stored(id, data)]
        PROVE  /\ primary'[i] # NoDocument
               /\ \A t \in DOMAIN primary[i].items :
                    t < now => /\ t \in DOMAIN primary'[i].items
                               /\ primary'[i].items[t] = primary[i].items[t]
    <3>1. i \in DOMAIN primary
      BY DEF PrimaryOK
    <3>2. CASE i # id
      BY <2>3, <3>1, <3>2 DEF Present
    <3>3. CASE i = id
      <4>1. PICK s : s = Stored(i, data)
        OBVIOUS
      <4>2. primary'[i] = s
        BY <2>3, <3>1, <3>3, <4>1
      <4>3. /\ s # NoDocument
            /\ \A t \in DOMAIN primary[i].items :
                 t < now => /\ t \in DOMAIN s.items
                            /\ s.items[t] = primary[i].items[t]
        BY <4>1, StoredItem
      <4> QED BY <4>2, <4>3
    <3> QED BY <3>2, <3>3
  <2> QED BY <2>1, <2>2, <2>3
<1>2. Spec => [][Keeps]_vars
  BY <1>1, PrimaryStorageSound, PTL DEF Spec
<1> QED
  BY <1>2 DEF HistoryKept

-----------------------------------------------------------------------------
(* Paths and their prefixes.                                               *)

\* The names, values and keys paths are made of.
Keys == Properties \cup Values \cup Ids \cup {"0"}
Paths == Seq(Keys)

\* Path q is p or leads to it.
Leads(q, p) == Len(q) <= Len(p) /\ \A t \in 1 .. Len(q) : q[t] = p[t]

\* The trees above the paths of R.
Above(R) == {q \in Paths : Len(q) > 0 /\ \E p \in R : Len(q) < Len(p) /\ Leads(q, p)}

\* The length of a path, and its keys.
LEMMA PathType ==
  ASSUME NEW p \in Paths
  PROVE  Len(p) \in Nat /\ \A t \in 1 .. Len(p) : p[t] \in Keys
BY DEF Paths

\* A path that leads to one of the same length is that path.
LEMMA PathsEqual ==
  ASSUME NEW p \in Paths, NEW q \in Paths, Leads(p, q), Len(p) = Len(q)
  PROVE  p = q
BY SeqEqual DEF Paths, Leads

\* The first keys of a path.
LEMMA CutPath ==
  ASSUME NEW p \in Paths, NEW k \in 0 .. Len(p)
  PROVE  /\ SubSeq(p, 1, k) \in Paths
         /\ Len(SubSeq(p, 1, k)) = k
         /\ Leads(SubSeq(p, 1, k), p)
         /\ \A q \in Paths : Leads(q, p) /\ Len(q) = k => q = SubSeq(p, 1, k)
<1>1. Len(p) \in Nat /\ k \in Int /\ 1 \in Int /\ \A t \in 1 .. k : p[t] \in Keys
  BY PathType
<1>2. PICK c : c = SubSeq(p, 1, k)
  OBVIOUS
<1>3. /\ c \in Seq(Keys)
      /\ Len(c) = IF 1 <= k THEN k - 1 + 1 ELSE 0
      /\ \A i \in 1 .. k - 1 + 1 : c[i] = p[1 + i - 1]
  BY <1>1, <1>2, SubSeqProperties
<1>4. c \in Paths /\ Len(c) = k /\ \A i \in 1 .. k : c[i] = p[i]
  BY <1>1, <1>3 DEF Paths
<1>5. Leads(c, p)
  BY <1>1, <1>4 DEF Leads
<1>6. ASSUME NEW q \in Paths, Leads(q, p), Len(q) = k PROVE q = c
  <2>1. Leads(q, c)
    BY <1>4, <1>6 DEF Leads
  <2> QED BY <1>4, <1>6, <2>1, PathsEqual
<1> QED BY <1>2, <1>4, <1>5, <1>6

\* Leading is transitive.
LEMMA LeadsOn ==
  ASSUME NEW p \in Paths, NEW q \in Paths, NEW r \in Paths, Leads(p, q), Leads(q, r)
  PROVE  Leads(p, r)
BY PathType DEF Leads

\* Of two paths that lead to a third the shorter leads to the longer.
LEMMA LeadsBetween ==
  ASSUME NEW p \in Paths, NEW q \in Paths, NEW r \in Paths, Leads(p, r), Leads(q, r),
         Len(p) <= Len(q)
  PROVE  Leads(p, q)
BY PathType DEF Leads

\* The prefixes of sequences are the paths that lead to them.
LEMMA PrefixLeads ==
  ASSUME NEW p \in Paths, NEW q \in Paths
  PROVE  IsPrefix(p, q) <=> Leads(p, q)
<1>1. Len(p) \in Nat /\ Len(q) \in Nat
  BY PathType
<1>2. SubSeq(p, 1, Len(p)) = p
  <2>1. Leads(p, p)
    BY <1>1 DEF Leads
  <2> QED BY <1>1, <2>1, CutPath
<1>3. ASSUME IsPrefix(p, q) PROVE Leads(p, q)
  <2>1. Len(p) \in 0 .. Len(q) /\ p = SubSeq(q, 1, Len(p))
    BY <1>1, <1>2, <1>3 DEF IsPrefix
  <2> QED BY <2>1, CutPath
<1>4. ASSUME Leads(p, q) PROVE IsPrefix(p, q)
  <2>1. Len(p) \in 0 .. Len(q)
    BY <1>1, <1>4 DEF Leads
  <2>2. p = SubSeq(q, 1, Len(p))
    BY <1>4, <2>1, CutPath
  <2> QED BY <1>1, <1>2, <2>1, <2>2 DEF IsPrefix
<1> QED BY <1>3, <1>4

\* A path with one more key.
LEMMA AppendPath ==
  ASSUME NEW p \in Paths, NEW x \in Keys
  PROVE  /\ Append(p, x) \in Paths
         /\ Len(Append(p, x)) = Len(p) + 1
         /\ Append(p, x)[Len(p) + 1] = x
         /\ Leads(p, Append(p, x))
         /\ \A q \in Paths : Leads(q, Append(p, x)) /\ Len(q) <= Len(p) => Leads(q, p)
<1>1. PICK a : a = Append(p, x)
  OBVIOUS
<1>2. /\ a \in Seq(Keys) /\ Len(a) = Len(p) + 1
      /\ \A i \in 1 .. Len(p) : a[i] = p[i]
      /\ a[Len(p) + 1] = x
  BY <1>1, AppendProperties DEF Paths
<1>3. a \in Paths /\ Len(p) \in Nat
  BY <1>2, PathType DEF Paths
<1>4. Leads(p, a)
  BY <1>2, <1>3 DEF Leads
<1>5. \A q \in Paths : Leads(q, a) /\ Len(q) <= Len(p) => Leads(q, p)
  BY <1>3, <1>4, LeadsBetween
<1> QED BY <1>1, <1>2, <1>3, <1>4, <1>5

\* The trees above a set of paths are the ones the specification names.
LEMMA AboveIsUnion ==
  ASSUME NEW R \in SUBSET Paths
  PROVE  UNION {{SubSeq(p, 1, k) : k \in 1 .. Len(p) - 1} : p \in R} = Above(R)
<1>1. ASSUME NEW p \in R, NEW k \in 1 .. Len(p) - 1 PROVE SubSeq(p, 1, k) \in Above(R)
  <2>1. p \in Paths /\ Len(p) \in Nat
    BY PathType
  <2>2. k \in 0 .. Len(p) /\ k > 0 /\ k < Len(p)
    BY <2>1
  <2>3. SubSeq(p, 1, k) \in Paths /\ Len(SubSeq(p, 1, k)) = k /\ Leads(SubSeq(p, 1, k), p)
    BY <2>1, <2>2, CutPath
  <2> QED BY <2>2, <2>3 DEF Above
<1>2. ASSUME NEW q \in Above(R)
      PROVE  \E p \in R : q \in {SubSeq(p, 1, k) : k \in 1 .. Len(p) - 1}
  <2>1. PICK p \in R : Len(q) > 0 /\ Len(q) < Len(p) /\ Leads(q, p)
    BY DEF Above
  <2>2. q \in Paths /\ p \in Paths /\ Len(q) \in Nat /\ Len(p) \in Nat
    BY PathType DEF Above
  <2>3. Len(q) \in 0 .. Len(p) /\ Len(q) \in 1 .. Len(p) - 1
    BY <2>1, <2>2
  <2>4. q = SubSeq(p, 1, Len(q))
    BY <2>1, <2>2, <2>3, CutPath
  <2> QED BY <2>3, <2>4
<1> DEFINE cuts(p) == {SubSeq(p, 1, k) : k \in 1 .. Len(p) - 1}
<1>3. \A p \in R : \A q \in cuts(p) : q \in Above(R)
  BY <1>1
<1>4. \A q \in Above(R) : \E p \in R : q \in cuts(p)
  BY <1>2
<1> HIDE DEF cuts
<1>5. UNION {cuts(p) : p \in R} = Above(R)
  BY <1>3, <1>4
<1> QED BY <1>5 DEF cuts

-----------------------------------------------------------------------------
(* The entries of the indices.                                             *)

\* An index of a document type.
LEMMA IndexType ==
  ASSUME PrimaryOK, NEW i \in DOMAIN type.indices
  PROVE  /\ type.indices[i].properties \in Seq(Properties)
         /\ Len(type.indices[i].properties) \in Nat \ {0}
         /\ type.indices[i].unique \in BOOLEAN
         /\ i \in Nat
         /\ \A j \in DOMAIN type.indices :
              type.indices[i].properties = type.indices[j].properties => i = j
<1>1. type \in DocumentType /\ WellFormedIndices(type.indices)
  BY TypeAssumption DEF PrimaryOK
<1>2. type.indices \in Seq(Index)
  BY <1>1 DEF DocumentType
<1>3. type.indices[i] \in Index /\ i \in Nat
  BY <1>2
<1>4. type.indices[i].properties \in Seq(Properties) /\ type.indices[i].unique \in BOOLEAN
  BY <1>3 DEF Index
<1>5. type.indices[i].properties # <<>>
      /\ \A j \in DOMAIN type.indices :
           type.indices[i].properties = type.indices[j].properties => i = j
  BY <1>1 DEF WellFormedIndices
<1>6. Len(type.indices[i].properties) \in Nat \ {0}
  BY <1>4, <1>5, EmptySeq
<1> QED BY <1>3, <1>4, <1>5, <1>6

\* The path of a document in an index: names and values in turn.
LEMMA IndexPathType ==
  ASSUME NEW ps \in Seq(Properties), NEW data \in Data
  PROVE  /\ IndexPath(ps, data) \in Paths
         /\ Len(IndexPath(ps, data)) = 2 * Len(ps)
         /\ \A t \in 1 .. Len(ps) : /\ IndexPath(ps, data)[2 * t - 1] = ps[t]
                                    /\ IndexPath(ps, data)[2 * t] = data[ps[t]]
                                    /\ ps[t] \in Properties
<1>1. PICK n \in Nat : n = Len(ps)
  BY LenProperties
<1>2. \A t \in 1 .. n : ps[t] \in Properties
  BY <1>1, ElementOfSeq
<1>3. PICK f : f = IndexPath(ps, data)
  OBVIOUS
<1>4. f = [k \in 1 .. 2 * n |-> IF k % 2 = 1 THEN ps[(k + 1) \div 2] ELSE data[ps[(k + 1) \div 2]]]
  BY <1>1, <1>3 DEF IndexPath
<1>5. ASSUME NEW k \in 1 .. 2 * n PROVE f[k] \in Keys
  <2>1. (k + 1) \div 2 \in 1 .. n
    BY <1>1
  <2>2. ps[(k + 1) \div 2] \in Properties
    BY <1>2, <2>1
  <2>3. data[ps[(k + 1) \div 2]] \in Values
    BY <2>2 DEF Data
  <2> QED BY <1>4, <2>2, <2>3 DEF Keys
<1>6. f \in Seq(Keys) /\ Len(f) = 2 * n
  <2>1. f \in [1 .. 2 * n -> Keys]
    BY <1>4, <1>5
  <2>2. 2 * n \in Nat
    BY <1>1
  <2> QED BY <2>1, <2>2
<1>7. ASSUME NEW t \in 1 .. n PROVE f[2 * t - 1] = ps[t] /\ f[2 * t] = data[ps[t]]
  <2>1. 2 * t - 1 \in 1 .. 2 * n /\ 2 * t \in 1 .. 2 * n
    BY <1>1
  <2>2. (2 * t - 1) % 2 = 1 /\ (2 * t) % 2 # 1 /\ ((2 * t - 1) + 1) \div 2 = t /\ (2 * t + 1) \div 2 = t
    BY <1>1
  <2> QED BY <1>4, <2>1, <2>2
<1> QED BY <1>1, <1>2, <1>3, <1>6, <1>7 DEF Paths

\* Every key of an index path is a name or the value of the name before it.
LEMMA PathPositions ==
  ASSUME NEW n \in Nat, NEW t \in 1 .. 2 * n
  PROVE  \E m \in 1 .. n : t = 2 * m - 1 \/ t = 2 * m
<1>1. PICK m \in Int : m = (t + 1) \div 2
  OBVIOUS
<1>2. m \in 1 .. n /\ (t = 2 * m - 1 \/ t = 2 * m)
  BY <1>1
<1> QED BY <1>2

\* A document with the indices in which it stands in a tree below the key 0.
\* Where there is none, there is nothing.
Docs == [data : Data, within : SUBSET Nat]
Nothing == <<>>

\* Nothing is no document.
LEMMA NothingApart == Nothing \notin Docs
<1> SUFFICES ASSUME Nothing \in Docs PROVE FALSE
  OBVIOUS
<1>1. DOMAIN Nothing = {}
  BY DEF Nothing
<1>2. "data" \in DOMAIN Nothing
  BY DEF Docs
<1> QED BY <1>1, <1>2

\* What is stored under an id, and where its references stand.
Kept(id) ==
  IF Present(id)
  THEN [data   |-> Current(id),
        within |-> {i \in DOMAIN type.indices : InTree(type.indices[i], id)}]
  ELSE Nothing

\* The path of a document in index i, its end, and its place.
PathOf(i, d) == IndexPath(type.indices[i].properties, d.data)
Place(i, id, d) ==
  IF i \in d.within THEN Append(Terminal(PathOf(i, d)), id) ELSE Terminal(PathOf(i, d))
Depth(i) == 2 * Len(type.indices[i].properties)

\* The parts of an entry.
LEMMA PlaceType ==
  ASSUME PrimaryOK, NEW i \in DOMAIN type.indices, NEW id \in Ids, NEW data \in Docs
  PROVE  /\ Depth(i) \in Nat /\ Depth(i) >= 2
         /\ PathOf(i, data) \in Paths /\ Len(PathOf(i, data)) = Depth(i)
         /\ Terminal(PathOf(i, data)) \in Paths
         /\ Len(Terminal(PathOf(i, data))) = Depth(i) + 1
         /\ Terminal(PathOf(i, data))[Depth(i) + 1] = "0"
         /\ Leads(PathOf(i, data), Terminal(PathOf(i, data)))
         /\ Place(i, id, data) \in Paths
         /\ Leads(Terminal(PathOf(i, data)), Place(i, id, data))
         /\ Leads(PathOf(i, data), Place(i, id, data))
         /\ Place(i, id, data)[Depth(i) + 1] = "0"
         /\ i \notin data.within => Place(i, id, data) = Terminal(PathOf(i, data))
         /\ i \in data.within =>
              /\ Place(i, id, data) = Append(Terminal(PathOf(i, data)), id)
              /\ Len(Place(i, id, data)) = Depth(i) + 2
              /\ Place(i, id, data)[Depth(i) + 2] = id
<1>1. PICK ps \in Seq(Properties), n \in Nat \ {0} :
        ps = type.indices[i].properties /\ n = Len(ps)
  BY IndexType
<1>2. PICK d \in Nat : d = 2 * n
  BY <1>1
<1>3. Depth(i) = d /\ d >= 2
  BY <1>1, <1>2 DEF Depth
<1>4. PICK p \in Paths : p = PathOf(i, data) /\ Len(p) = d
  BY <1>1, <1>2, IndexPathType DEF PathOf, Docs
<1>5. PICK z : z = Terminal(p)
  OBVIOUS
<1>6. z \in Paths /\ Len(z) = d + 1 /\ z[d + 1] = "0" /\ Leads(p, z)
  <2>1. "0" \in Keys
    BY DEF Keys
  <2> QED BY <1>4, <1>5, <2>1, AppendPath DEF Terminal
<1>7. PICK e : e = Place(i, id, data)
  OBVIOUS
<1>8. e = IF i \in data.within THEN Append(z, id) ELSE z
  BY <1>4, <1>5, <1>7 DEF Place
<1>9. CASE i \notin data.within
  <2>1. e = z
    BY <1>8, <1>9
  <2>2. Leads(z, z)
    BY <1>6, PathType DEF Leads
  <2> QED BY <1>3, <1>4, <1>5, <1>6, <1>7, <1>9, <2>1, <2>2
<1>10. CASE i \in data.within
  <2>1. e = Append(z, id) /\ id \in Keys
    BY <1>8, <1>10 DEF Keys
  <2>2. e \in Paths /\ Len(e) = Len(z) + 1 /\ e[Len(z) + 1] = id /\ Leads(z, e)
    BY <1>6, <2>1, AppendPath
  <2>3. Len(e) = d + 2 /\ e[d + 2] = id
    BY <1>6, <2>2
  <2>4. Leads(p, e)
    BY <1>4, <1>6, <2>2, LeadsOn
  <2>5. e[d + 1] = "0"
    BY <1>6, <2>2 DEF Leads
  <2> QED BY <1>3, <1>4, <1>5, <1>6, <1>7, <1>10, <2>1, <2>2, <2>3, <2>4, <2>5
<1> QED BY <1>9, <1>10

\* The names of an index.
Names(i) == type.indices[i].properties

\* The names and values along the path of an index.
LEMMA PathKeys ==
  ASSUME PrimaryOK, NEW i \in DOMAIN type.indices, NEW data \in Docs
  PROVE  /\ Names(i) \in Seq(Properties) /\ Len(Names(i)) \in Nat \ {0}
         /\ Depth(i) = 2 * Len(Names(i))
         /\ PathOf(i, data) \in Paths /\ Len(PathOf(i, data)) = 2 * Len(Names(i))
         /\ \A t \in 1 .. Len(Names(i)) :
              /\ PathOf(i, data)[2 * t - 1] = Names(i)[t]
              /\ PathOf(i, data)[2 * t] = data.data[Names(i)[t]]
              /\ Names(i)[t] # "0"
<1>1. PICK ps : ps = Names(i)
  OBVIOUS
<1>2. ps \in Seq(Properties) /\ Len(ps) \in Nat \ {0}
  BY <1>1, IndexType DEF Names
<1>3. PICK p : p = PathOf(i, data)
  OBVIOUS
<1>4. p = IndexPath(ps, data.data) /\ data.data \in Data
  BY <1>1, <1>3 DEF PathOf, Names, Docs
<1>5. /\ p \in Paths /\ Len(p) = 2 * Len(ps)
      /\ \A t \in 1 .. Len(ps) : /\ p[2 * t - 1] = ps[t] /\ p[2 * t] = data.data[ps[t]]
                                 /\ ps[t] \in Properties
  BY <1>2, <1>4, IndexPathType
<1>6. Depth(i) = 2 * Len(ps)
  BY <1>1 DEF Depth, Names
<1>7. \A t \in 1 .. Len(ps) : ps[t] # "0"
  BY <1>5, PathAssumption
<1> QED BY <1>1, <1>2, <1>3, <1>5, <1>6, <1>7

\* A path that leads along one index and to an entry of another stays on the
\* names and values of that one.
LEMMA LevelStops ==
  ASSUME PrimaryOK, NEW i \in DOMAIN type.indices, NEW j \in DOMAIN type.indices,
         NEW id \in Ids, NEW d \in Docs, NEW e \in Docs, NEW q \in Paths,
         Leads(q, Place(i, id, d)), Leads(q, PathOf(j, e))
  PROVE  Len(q) <= Depth(i) /\ Leads(q, PathOf(i, d))
<1>1. PICK n \in Nat \ {0} : n = Len(Names(i)) /\ Depth(i) = 2 * n
  BY PathKeys
<1>2. PICK m \in Nat \ {0} : /\ m = Len(Names(j)) /\ Len(PathOf(j, e)) = 2 * m
                             /\ \A t \in 1 .. m : PathOf(j, e)[2 * t - 1] # "0"
  <2>1. Len(Names(j)) \in Nat \ {0} /\ Len(PathOf(j, e)) = 2 * Len(Names(j))
    BY PathKeys
  <2>2. \A t \in 1 .. Len(Names(j)) : PathOf(j, e)[2 * t - 1] = Names(j)[t] /\ Names(j)[t] # "0"
    BY PathKeys
  <2> QED BY <2>1, <2>2
<1>3. Len(q) \in Nat /\ Len(q) <= 2 * m
  BY <1>2, PathType DEF Leads
<1>4. Place(i, id, d)[2 * n + 1] = "0"
  BY <1>1, PlaceType
<1>5. Len(q) <= 2 * n
  <2> SUFFICES ASSUME Len(q) >= 2 * n + 1 PROVE FALSE
    BY <1>1, <1>3
  <2>1. 2 * n + 1 \in 1 .. Len(q) /\ n + 1 \in 1 .. m /\ 2 * (n + 1) - 1 = 2 * n + 1
    BY <1>1, <1>2, <1>3
  <2>2. q[2 * n + 1] = "0"
    BY <1>4, <2>1 DEF Leads
  <2>3. q[2 * n + 1] = PathOf(j, e)[2 * n + 1]
    BY <2>1 DEF Leads
  <2>4. PathOf(j, e)[2 * (n + 1) - 1] # "0"
    BY <1>2, <2>1
  <2> QED BY <2>1, <2>2, <2>3, <2>4
<1>6. Leads(q, PathOf(i, d))
  BY <1>1, <1>5, PlaceType, LeadsBetween
<1> QED BY <1>1, <1>5, <1>6

\* The end of an index path leads to entries of that index with that path.
LEMMA ZeroMeets ==
  ASSUME PrimaryOK, NEW i \in DOMAIN type.indices, NEW j \in DOMAIN type.indices,
         NEW id \in Ids, NEW d \in Docs, NEW e \in Docs,
         Leads(Terminal(PathOf(j, e)), Place(i, id, d))
  PROVE  i = j /\ PathOf(i, d) = PathOf(j, e)
<1>1. PICK ps \in Seq(Properties), n \in Nat \ {0} :
        /\ ps = Names(i) /\ n = Len(ps) /\ Depth(i) = 2 * n
        /\ PathOf(i, d) \in Paths /\ Len(PathOf(i, d)) = 2 * n
        /\ \A t \in 1 .. n : PathOf(i, d)[2 * t - 1] = ps[t] /\ ps[t] # "0"
  <2>1. /\ Names(i) \in Seq(Properties) /\ Len(Names(i)) \in Nat \ {0}
        /\ Depth(i) = 2 * Len(Names(i))
        /\ PathOf(i, d) \in Paths /\ Len(PathOf(i, d)) = 2 * Len(Names(i))
    BY PathKeys
  <2>2. \A t \in 1 .. Len(Names(i)) : PathOf(i, d)[2 * t - 1] = Names(i)[t] /\ Names(i)[t] # "0"
    BY PathKeys
  <2> QED BY <2>1, <2>2
<1>2. PICK qs \in Seq(Properties), m \in Nat \ {0} :
        /\ qs = Names(j) /\ m = Len(qs) /\ Depth(j) = 2 * m
        /\ PathOf(j, e) \in Paths /\ Len(PathOf(j, e)) = 2 * m
        /\ \A t \in 1 .. m : PathOf(j, e)[2 * t - 1] = qs[t]
  <2>1. /\ Names(j) \in Seq(Properties) /\ Len(Names(j)) \in Nat \ {0}
        /\ Depth(j) = 2 * Len(Names(j))
        /\ PathOf(j, e) \in Paths /\ Len(PathOf(j, e)) = 2 * Len(Names(j))
    BY PathKeys
  <2>2. \A t \in 1 .. Len(Names(j)) : PathOf(j, e)[2 * t - 1] = Names(j)[t]
    BY PathKeys
  <2> QED BY <2>1, <2>2
<1>3. PICK x \in Paths : /\ x = Place(i, id, d) /\ Leads(PathOf(i, d), x)
                         /\ Len(x) <= 2 * n + 2
  <2>1. Place(i, id, d) \in Paths /\ Leads(PathOf(i, d), Place(i, id, d))
    BY PlaceType
  <2>2. Len(Place(i, id, d)) <= 2 * n + 2
    <3>1. CASE i \notin d.within
      BY <1>1, <3>1, PlaceType
    <3>2. CASE i \in d.within
      BY <1>1, <3>2, PlaceType
    <3> QED BY <3>1, <3>2
  <2> QED BY <2>1, <2>2
<1>4. PICK z \in Paths : /\ z = Terminal(PathOf(j, e)) /\ Len(z) = 2 * m + 1
                         /\ z[2 * m + 1] = "0" /\ Leads(PathOf(j, e), z) /\ Leads(z, x)
  BY <1>2, <1>3, PlaceType
<1>5. Len(x) \in Nat /\ 2 * m + 1 <= Len(x) /\ x[2 * m + 1] = "0"
  <2>1. 2 * m + 1 \in 1 .. Len(z)
    BY <1>2, <1>4
  <2> QED BY <1>3, <1>4, <2>1, PathType DEF Leads
<1>6. m <= n
  BY <1>1, <1>2, <1>3, <1>5
<1>7. m = n
  <2> SUFFICES ASSUME m + 1 <= n PROVE FALSE
    BY <1>1, <1>2, <1>6
  <2>1. m + 1 \in 1 .. n /\ 2 * (m + 1) - 1 = 2 * m + 1 /\ 2 * m + 1 \in 1 .. 2 * n
    BY <1>1, <1>2
  <2>2. x[2 * m + 1] = PathOf(i, d)[2 * m + 1]
    BY <1>1, <1>3, <2>1 DEF Leads
  <2>3. PathOf(i, d)[2 * (m + 1) - 1] # "0"
    BY <1>1, <2>1
  <2> QED BY <1>5, <2>1, <2>2, <2>3
<1>8. PathOf(i, d) = PathOf(j, e)
  <2>1. Leads(PathOf(j, e), x)
    BY <1>2, <1>3, <1>4, LeadsOn
  <2>2. Leads(PathOf(i, d), PathOf(j, e))
    BY <1>1, <1>2, <1>3, <1>7, <2>1, LeadsBetween
  <2> QED BY <1>1, <1>2, <1>7, <2>2, PathsEqual
<1>9. ps = qs
  <2>1. \A t \in 1 .. n : ps[t] = qs[t]
    BY <1>1, <1>2, <1>7, <1>8
  <2> QED BY <1>1, <1>2, <1>7, <2>1, SeqEqual
<1>10. i = j
  BY <1>1, <1>2, <1>9, IndexType DEF Names
<1> QED BY <1>8, <1>10

\* Entries are leaves, and an entry belongs to one index and, when it stands in
\* a tree, to one document; provided that documents with the same path stand
\* there all in a tree or none of them.
LEMMA PlacesApart ==
  ASSUME PrimaryOK, NEW i \in DOMAIN type.indices, NEW j \in DOMAIN type.indices,
         NEW a \in Ids, NEW b \in Ids, NEW d \in Docs, NEW e \in Docs,
         Leads(Place(j, b, e), Place(i, a, d)),
         i = j /\ PathOf(i, d) = PathOf(j, e) => (i \in d.within <=> j \in e.within)
  PROVE  /\ i = j /\ PathOf(i, d) = PathOf(j, e) /\ Place(i, a, d) = Place(j, b, e)
         /\ i \in d.within => a = b
<1>1. /\ Place(j, b, e) \in Paths /\ Place(i, a, d) \in Paths
      /\ Terminal(PathOf(j, e)) \in Paths
      /\ Leads(Terminal(PathOf(j, e)), Place(j, b, e))
  BY PlaceType
<1>2. Leads(Terminal(PathOf(j, e)), Place(i, a, d))
  BY <1>1, LeadsOn
<1>3. i = j /\ PathOf(i, d) = PathOf(j, e)
  BY <1>2, ZeroMeets
<1>4. CASE i \notin d.within
  BY <1>3, <1>4, PlaceType
<1>5. CASE i \in d.within
  <2>1. Len(Place(i, a, d)) = Depth(i) + 2 /\ Place(i, a, d)[Depth(i) + 2] = a
    BY <1>5, PlaceType
  <2>2. Len(Place(j, b, e)) = Depth(i) + 2 /\ Place(j, b, e)[Depth(i) + 2] = b
    BY <1>3, <1>5, PlaceType
  <2>3. Place(j, b, e) = Place(i, a, d)
    BY <1>1, <2>1, <2>2, PathsEqual
  <2> QED BY <1>3, <2>1, <2>2, <2>3
<1> QED BY <1>4, <1>5

\* A level of the old path of one index and of the new path of another is a
\* level of the new path of the first.
LEMMA ShiftedLevel ==
  ASSUME PrimaryOK, NEW i \in DOMAIN type.indices, NEW j \in DOMAIN type.indices,
         NEW old \in Docs, NEW new \in Docs, NEW q \in Paths,
         Leads(q, PathOf(i, old)), Leads(q, PathOf(j, new))
  PROVE  Leads(q, PathOf(i, new))
<1>1. PICK ps \in Seq(Properties), n \in Nat \ {0} :
        /\ ps = Names(i) /\ n = Len(ps) /\ Len(PathOf(i, old)) = 2 * n
        /\ \A t \in 1 .. n : PathOf(i, old)[2 * t - 1] = ps[t]
  BY PathKeys
<1>2. /\ Len(PathOf(i, new)) = 2 * n
      /\ \A t \in 1 .. n : /\ PathOf(i, new)[2 * t - 1] = ps[t]
                           /\ PathOf(i, new)[2 * t] = new.data[ps[t]]
  BY <1>1, PathKeys
<1>3. PICK qs \in Seq(Properties), m \in Nat \ {0} :
        /\ qs = Names(j) /\ m = Len(qs) /\ Len(PathOf(j, new)) = 2 * m
        /\ \A t \in 1 .. m : /\ PathOf(j, new)[2 * t - 1] = qs[t]
                             /\ PathOf(j, new)[2 * t] = new.data[qs[t]]
  <2>1. /\ Names(j) \in Seq(Properties) /\ Len(Names(j)) \in Nat \ {0}
        /\ Len(PathOf(j, new)) = 2 * Len(Names(j))
    BY PathKeys
  <2>2. \A t \in 1 .. Len(Names(j)) : /\ PathOf(j, new)[2 * t - 1] = Names(j)[t]
                                      /\ PathOf(j, new)[2 * t] = new.data[Names(j)[t]]
    BY PathKeys
  <2> QED BY <2>1, <2>2
<1>4. Len(q) \in Nat /\ Len(q) <= 2 * n /\ Len(q) <= 2 * m
  BY <1>1, <1>3, PathType DEF Leads
<1>5. ASSUME NEW t \in 1 .. Len(q) PROVE q[t] = PathOf(i, new)[t]
  <2>1. t \in 1 .. 2 * n /\ t \in 1 .. 2 * m
    BY <1>1, <1>3, <1>4
  <2>2. PICK k \in 1 .. n : t = 2 * k - 1 \/ t = 2 * k
    BY <1>1, <2>1, PathPositions
  <2>3. k \in 1 .. m /\ k \in Nat
    BY <1>1, <1>3, <2>1, <2>2
  <2>4. CASE t = 2 * k - 1
    <3>1. q[t] = PathOf(i, old)[t]
      BY DEF Leads
    <3> QED BY <1>1, <1>2, <2>2, <2>4, <3>1
  <2>5. CASE t = 2 * k
    <3>1. 2 * k - 1 \in 1 .. Len(q)
      BY <1>4, <2>3, <2>5
    <3>2. q[2 * k - 1] = ps[k] /\ q[2 * k - 1] = qs[k]
      BY <1>1, <1>3, <2>2, <2>3, <3>1 DEF Leads
    <3>3. q[t] = new.data[qs[k]]
      BY <1>3, <2>3, <2>5 DEF Leads
    <3> QED BY <1>2, <2>2, <2>5, <3>2, <3>3
  <2> QED BY <2>2, <2>4, <2>5
<1> QED BY <1>2, <1>4, <1>5 DEF Leads

\* A non-empty set of naturals has a least element, the one Min chooses.
LEMMA MinProperties ==
  ASSUME NEW S \in SUBSET Nat, S # {}
  PROVE  /\ Min(S) \in S
         /\ \A y \in S : Min(S) <= y
<1> DEFINE R == {ss \in Nat \X Nat : ss[1] < ss[2]}
<1>1. IsWellFoundedOn(R, Nat)
  BY NatLessThanWellFounded DEF OpToRel
<1>2. PICK x \in S : \A y \in S : ~(<<y, x>> \in R)
  <2> HIDE DEF R
  <2> QED BY <1>1, WFMin
<1>3. ASSUME NEW y \in S PROVE x <= y
  <2>1. x \in Nat /\ y \in Nat
    OBVIOUS
  <2>2. ~(y < x)
    BY <1>2, <2>1
  <2> QED BY <2>1, <2>2
<1>4. QED
  BY <1>3 DEF Min

\* Induction from 0 to n, with a set Good.
LEMMA UpTo ==
  ASSUME NEW n \in Nat, NEW Good, 0 \in Good,
         \A i \in Nat : i < n /\ i \in Good => i + 1 \in Good
  PROVE  \A i \in 0 .. n : i \in Good
<1> DEFINE Bad == {i \in 0 .. n : i \notin Good}
<1>1. SUFFICES ASSUME Bad # {} PROVE FALSE
  OBVIOUS
<1>2. Bad \in SUBSET Nat
  OBVIOUS
<1>3. Min(Bad) \in Bad /\ \A y \in Bad : Min(Bad) <= y
  <2> HIDE DEF Bad
  <2> QED BY <1>1, <1>2, MinProperties
<1>4. PICK m \in Bad : \A y \in Bad : m <= y
  BY <1>3
<1>5. m - 1 \in Nat /\ m - 1 < n /\ m - 1 \in Good
  BY <1>4
<1> QED BY <1>4, <1>5

\* Where two paths of which neither leads to the other part.
LEMMA PathsPart ==
  ASSUME NEW r \in Paths, NEW x \in Paths, ~ Leads(r, x), ~ Leads(x, r)
  PROVE  \E t \in Nat : /\ t < Len(r) /\ t < Len(x) /\ r[t + 1] # x[t + 1]
                        /\ \A u \in 1 .. t : r[u] = x[u]
<1>1. Len(r) \in Nat /\ Len(x) \in Nat
  BY PathType
<1> DEFINE D == {t \in Nat : t < Len(r) /\ t < Len(x) /\ r[t + 1] # x[t + 1]}
<1>2. D # {}
  <2>1. CASE Len(r) <= Len(x)
    <3>1. PICK u \in 1 .. Len(r) : r[u] # x[u]
      BY <2>1 DEF Leads
    <3>2. u - 1 \in Nat /\ u - 1 < Len(r) /\ u - 1 < Len(x) /\ (u - 1) + 1 = u
      BY <1>1, <2>1, <3>1
    <3>3. u - 1 \in D
      BY <3>1, <3>2
    <3> QED BY <3>3
  <2>2. CASE Len(x) <= Len(r)
    <3>1. PICK u \in 1 .. Len(x) : r[u] # x[u]
      BY <2>2 DEF Leads
    <3>2. u - 1 \in Nat /\ u - 1 < Len(r) /\ u - 1 < Len(x) /\ (u - 1) + 1 = u
      BY <1>1, <2>2, <3>1
    <3>3. u - 1 \in D
      BY <3>1, <3>2
    <3> QED BY <3>3
  <2> QED BY <1>1, <2>1, <2>2
<1>3. D \in SUBSET Nat
  OBVIOUS
<1>4. PICK t \in D : \A y \in D : t <= y
  <2> HIDE DEF D
  <2> QED BY <1>2, <1>3, MinProperties
<1>5. ASSUME NEW u \in 1 .. t PROVE r[u] = x[u]
  <2>1. t \in Nat /\ t < Len(r) /\ t < Len(x)
    BY <1>4
  <2>2. u - 1 \in Nat /\ u - 1 < Len(r) /\ u - 1 < Len(x) /\ (u - 1) + 1 = u /\ ~ (t <= u - 1)
    BY <1>1, <2>1
  <2>3. u - 1 \notin D
    BY <1>4, <2>2
  <2> QED BY <2>2, <2>3
<1> QED BY <1>4, <1>5

\* The paths below the trees of the top properties that are in X or lead there.
Reach(X) == {q \in Paths : Len(q) >= 2 /\ \E p \in X : Leads(q, p)}

\* The nodes of a batch below the trees of the top properties: R are the
\* references, M paths whose trees were inserted for a reference to come.
NodesAre(b, R, M) ==
  /\ \A q \in Nodes(b) : q \in Paths /\ Len(q) > 0
  /\ \A q \in Paths : Len(q) >= 2 => (q \in Nodes(b) <=> q \in Reach(R \cup M))

\* A leaf: neither a path of X leads to r nor r to a path of X.
Leaf(r, X) == \A p \in X : ~ Leads(r, p) /\ ~ Leads(p, r)

\* The reference at r is to be deleted; X are the other paths.
Deleting(b, R, M, r, X) ==
  /\ R \in SUBSET Paths /\ M \in SUBSET Paths /\ r \in R
  /\ NodesAre(b, R, M)
  /\ X = (R \cup M) \ {r} /\ Leaf(r, X)

\* The children of a tree along the path to r.
LEMMA ChildrenAlong ==
  ASSUME NEW b, NEW R, NEW M, NEW r, NEW X, Deleting(b, R, M, r, X),
         NEW l \in 2 .. Len(r) - 1
  PROVE  /\ SubSeq(r, 1, l) \notin Reach(X) =>
              Children(b, SubSeq(r, 1, l)) = {SubSeq(r, 1, l + 1)}
         /\ \A x \in X : Leads(SubSeq(r, 1, l), x) /\ ~ Leads(SubSeq(r, 1, l + 1), x)
              => Children(b, SubSeq(r, 1, l)) # {SubSeq(r, 1, l + 1)}
<1>0. /\ R \in SUBSET Paths /\ M \in SUBSET Paths /\ r \in R /\ NodesAre(b, R, M)
      /\ X = (R \cup M) \ {r} /\ Leaf(r, X)
  BY DEF Deleting
<1>1. r \in Paths /\ Len(r) \in Nat /\ l \in Nat /\ l >= 2 /\ l + 1 <= Len(r)
      /\ l \in 0 .. Len(r) /\ l + 1 \in 0 .. Len(r)
  BY <1>0, PathType
<1>2. PICK c \in Paths : c = SubSeq(r, 1, l) /\ Len(c) = l /\ Leads(c, r)
  BY <1>0, <1>1, CutPath
<1>3. PICK d \in Paths : d = SubSeq(r, 1, l + 1) /\ Len(d) = l + 1 /\ Leads(d, r)
                         /\ \A q \in Paths : Leads(q, r) /\ Len(q) = l + 1 => q = d
  BY <1>0, <1>1, CutPath
<1>4. Leads(c, d)
  <2>1. Len(c) <= Len(d)
    BY <1>0, <1>1, <1>2, <1>3
  <2> QED BY <1>0, <1>1, <1>2, <1>3, <2>1, LeadsBetween
<1>5. Children(b, c) = {q \in Paths : Len(q) = l + 1 /\ Leads(c, q) /\ \E p \in R \cup M : Leads(q, p)}
  <2>1. ASSUME NEW q \in Paths, Len(q) = l + 1
        PROVE  q \in Nodes(b) <=> \E p \in R \cup M : Leads(q, p)
    BY <1>0, <1>1, <2>1 DEF NodesAre, Reach
  <2>2. ASSUME NEW q \in Paths PROVE IsPrefix(c, q) <=> Leads(c, q)
    BY <1>0, <1>2, PrefixLeads
  <2>3. \A q \in Nodes(b) : q \in Paths
    BY <1>0 DEF NodesAre
  <2> QED BY <1>0, <1>2, <2>1, <2>2, <2>3 DEF Children
<1>6. ASSUME c \notin Reach(X) PROVE Children(b, c) = {d}
  <2>1. ASSUME NEW q \in Children(b, c) PROVE q = d
    <3>1. PICK p \in R \cup M : q \in Paths /\ Len(q) = l + 1 /\ Leads(c, q) /\ Leads(q, p)
      BY <1>0, <1>5, <2>1
    <3>2. p \in Paths /\ Leads(c, p)
      BY <1>0, <1>2, <3>1, LeadsOn
    <3>3. p = r
      BY <1>0, <1>1, <1>2, <1>6, <3>2 DEF Reach
    <3> QED BY <1>0, <1>3, <3>1, <3>3
  <2>2. d \in Children(b, c)
    BY <1>0, <1>3, <1>4, <1>5
  <2> QED BY <1>0, <2>1, <2>2
<1>7. ASSUME NEW x \in X, Leads(c, x), ~ Leads(d, x) PROVE Children(b, c) # {d}
  <2>1. x \in Paths /\ Len(x) \in Nat /\ l <= Len(x)
    BY <1>0, <1>1, <1>2, <1>7, PathType DEF Leads
  <2>2. Len(x) # l
    <3> SUFFICES ASSUME Len(x) = l PROVE FALSE
      OBVIOUS
    <3>1. c = x
      BY <1>0, <1>2, <1>7, <2>1, PathsEqual
    <3> QED BY <1>0, <1>2, <3>1 DEF Leaf
  <2>3. l + 1 \in 0 .. Len(x)
    BY <1>0, <1>1, <2>1, <2>2
  <2>4. PICK e \in Paths : Len(e) = l + 1 /\ Leads(e, x)
    BY <1>0, <2>1, <2>3, CutPath
  <2>5. Leads(c, e)
    <3>1. Len(c) <= Len(e)
      BY <1>0, <1>1, <1>2, <2>4
    <3> QED BY <1>0, <1>2, <1>7, <2>1, <2>4, <3>1, LeadsBetween
  <2>6. e \in Children(b, c)
    BY <1>0, <1>5, <2>4, <2>5
  <2>7. e # d
    BY <1>0, <1>7, <2>4
  <2> QED BY <1>0, <2>6, <2>7
<1> QED BY <1>0, <1>2, <1>3, <1>6, <1>7

\* Deleting upwards deletes the leaf and the trees that lead nowhere else.
LEMMA UpTreeGone ==
  ASSUME NEW b, NEW R, NEW M, NEW r, NEW X, Deleting(b, R, M, r, X)
  PROVE  UpTreeWhileEmpty(b, r) = Reach({r}) \ Reach(X)
<1>0. /\ R \in SUBSET Paths /\ M \in SUBSET Paths /\ r \in R /\ NodesAre(b, R, M)
      /\ X = (R \cup M) \ {r} /\ Leaf(r, X)
  BY DEF Deleting
<1>1. r \in Paths /\ Len(r) \in Nat
  BY <1>0, PathType
<1>2. ASSUME NEW k \in 2 .. Len(r), SubSeq(r, 1, k) \notin Reach(X),
             NEW l \in k .. Len(r) - 1
      PROVE  Children(b, SubSeq(r, 1, l)) = {SubSeq(r, 1, l + 1)}
  <2>1. l \in 2 .. Len(r) - 1 /\ k \in 0 .. Len(r) /\ l \in 0 .. Len(r) /\ k <= l /\ k >= 2
    BY <1>0, <1>1
  <2>2. PICK c \in Paths : c = SubSeq(r, 1, k) /\ Len(c) = k /\ Leads(c, r)
    BY <1>0, <1>1, <2>1, CutPath
  <2>3. PICK d \in Paths : d = SubSeq(r, 1, l) /\ Len(d) = l /\ Leads(d, r)
    BY <1>0, <1>1, <2>1, CutPath
  <2>4. Leads(c, d)
    BY <1>0, <1>1, <2>1, <2>2, <2>3, LeadsBetween
  <2>5. d \notin Reach(X)
    <3> SUFFICES ASSUME NEW x \in X, Leads(d, x) PROVE FALSE
      BY <1>0 DEF Reach
    <3>1. x \in Paths /\ Leads(c, x)
      BY <1>0, <2>2, <2>3, <2>4, LeadsOn
    <3> QED BY <1>0, <1>2, <2>1, <2>2, <3>1 DEF Reach
  <2>6. SubSeq(r, 1, l) \notin Reach(X) =>
          Children(b, SubSeq(r, 1, l)) = {SubSeq(r, 1, l + 1)}
    BY <1>0, <2>1, ChildrenAlong
  <2> QED BY <1>0, <2>3, <2>5, <2>6
<1>3. ASSUME NEW k \in 2 .. Len(r), SubSeq(r, 1, k) \in Reach(X)
      PROVE  \E l \in k .. Len(r) - 1 : Children(b, SubSeq(r, 1, l)) # {SubSeq(r, 1, l + 1)}
  <2>1. k \in 0 .. Len(r) /\ k \in Nat /\ k >= 2
    BY <1>0, <1>1
  <2>2. PICK c \in Paths : c = SubSeq(r, 1, k) /\ Len(c) = k /\ Leads(c, r)
    BY <1>0, <1>1, <2>1, CutPath
  <2>3. PICK x \in X : Leads(c, x)
    BY <1>0, <1>3, <2>2 DEF Reach
  <2>4. x \in Paths /\ ~ Leads(r, x) /\ ~ Leads(x, r) /\ Len(x) \in Nat
    BY <1>0, PathType DEF Leaf
  <2>5. PICK t \in Nat : /\ t < Len(r) /\ t < Len(x) /\ r[t + 1] # x[t + 1]
                         /\ \A u \in 1 .. t : r[u] = x[u]
    BY <1>0, <1>1, <2>4, PathsPart
  <2>6. k <= t
    <3> SUFFICES ASSUME t + 1 <= k PROVE FALSE
      BY <1>0, <2>1, <2>5
    <3>1. t + 1 \in 1 .. Len(c)
      BY <1>0, <2>1, <2>2, <2>5
    <3> QED BY <1>0, <2>2, <2>3, <2>5, <3>1 DEF Leads
  <2>7. t \in k .. Len(r) - 1 /\ t \in 2 .. Len(r) - 1 /\ t \in 0 .. Len(r) /\ t + 1 \in 0 .. Len(r)
    BY <1>0, <1>1, <2>1, <2>5, <2>6
  <2>8. PICK d \in Paths : d = SubSeq(r, 1, t) /\ Len(d) = t /\ Leads(d, r)
    BY <1>0, <1>1, <2>7, CutPath
  <2>9. PICK e \in Paths : e = SubSeq(r, 1, t + 1) /\ Len(e) = t + 1 /\ Leads(e, r)
    BY <1>0, <1>1, <2>7, CutPath
  <2>10. Leads(d, x)
    BY <1>0, <2>4, <2>5, <2>8 DEF Leads
  <2>11. ~ Leads(e, x)
    <3>1. t + 1 \in 1 .. Len(e)
      BY <1>0, <2>5, <2>9
    <3> QED BY <1>0, <2>5, <2>9, <3>1 DEF Leads
  <2>12. Children(b, d) # {e}
    <3>1. \A y \in X : Leads(SubSeq(r, 1, t), y) /\ ~ Leads(SubSeq(r, 1, t + 1), y)
            => Children(b, SubSeq(r, 1, t)) # {SubSeq(r, 1, t + 1)}
      BY <1>0, <2>7, ChildrenAlong
    <3> QED BY <1>0, <2>8, <2>9, <2>10, <2>11, <3>1
  <2> QED BY <1>0, <2>7, <2>8, <2>9, <2>12
<1>4. UpTreeWhileEmpty(b, r) = {SubSeq(r, 1, k) : k \in {m \in 2 .. Len(r) : SubSeq(r, 1, m) \notin Reach(X)}}
  <2>1. \A m \in 2 .. Len(r) :
          (\A l \in m .. Len(r) - 1 : Children(b, SubSeq(r, 1, l)) = {SubSeq(r, 1, l + 1)})
          <=> SubSeq(r, 1, m) \notin Reach(X)
    BY <1>0, <1>2, <1>3
  <2>2. {m \in 2 .. Len(r) :
          \A l \in m .. Len(r) - 1 : Children(b, SubSeq(r, 1, l)) = {SubSeq(r, 1, l + 1)}}
        = {m \in 2 .. Len(r) : SubSeq(r, 1, m) \notin Reach(X)}
    BY <1>0, <2>1
  <2> QED BY <1>0, <2>2 DEF UpTreeWhileEmpty
<1>5. ASSUME NEW q \in Reach({r}) PROVE Len(q) \in 2 .. Len(r) /\ q = SubSeq(r, 1, Len(q))
  <2>1. q \in Paths /\ Len(q) \in Nat /\ Len(q) >= 2 /\ Leads(q, r)
    BY <1>0, PathType DEF Reach
  <2>2. Len(q) \in 2 .. Len(r) /\ Len(q) \in 0 .. Len(r)
    BY <1>0, <1>1, <2>1 DEF Leads
  <2> QED BY <1>0, <1>1, <2>1, <2>2, CutPath
<1>6. ASSUME NEW m \in 2 .. Len(r) PROVE SubSeq(r, 1, m) \in Reach({r})
  <2>1. m \in 0 .. Len(r) /\ m >= 2
    BY <1>0, <1>1
  <2> QED BY <1>0, <1>1, <2>1, CutPath DEF Reach
<1> QED BY <1>0, <1>4, <1>5, <1>6

\* A batch whose references are at R and whose trees are the ones above them,
\* the ones at and above M, and those of the top properties, T.
Shaped(b, T, R, M) ==
  /\ R \in SUBSET Paths /\ M \in SUBSET Paths
  /\ \A q \in T : q \in Paths /\ Len(q) = 1
  /\ \A p \in R \cup M : /\ Len(p) >= 2
                         /\ \A q \in Paths : Len(q) = 1 /\ Leads(q, p) => q \in T
  /\ b = [trees |-> T \cup Above(R) \cup Reach(M), refs |-> b.refs, ok |-> b.ok]
  /\ DOMAIN b.refs = R

\* The nodes of such a batch.
LEMMA ShapedNodes ==
  ASSUME NEW b, NEW T, NEW R, NEW M, Shaped(b, T, R, M)
  PROVE  /\ b.trees = T \cup Above(R) \cup Reach(M)
         /\ Nodes(b) = T \cup Above(R) \cup Reach(M) \cup R
         /\ NodesAre(b, R, M)
<1>0. /\ R \in SUBSET Paths /\ M \in SUBSET Paths
      /\ \A q \in T : q \in Paths /\ Len(q) = 1
      /\ \A p \in R \cup M : Len(p) >= 2
  BY DEF Shaped
<1>1. b = [trees |-> T \cup Above(R) \cup Reach(M), refs |-> b.refs, ok |-> b.ok]
      /\ DOMAIN b.refs = R
  BY DEF Shaped
<1>2. b.trees = T \cup Above(R) \cup Reach(M)
  BY <1>1
<1>3. Nodes(b) = T \cup Above(R) \cup Reach(M) \cup R
  BY <1>1, <1>2 DEF Nodes
<1>4. ASSUME NEW q \in Nodes(b) PROVE q \in Paths /\ Len(q) > 0
  <2>1. CASE q \in T
    BY <1>0, <2>1
  <2>2. CASE q \in Above(R)
    BY <2>2 DEF Above
  <2>3. CASE q \in Reach(M)
    BY <2>3, PathType DEF Reach
  <2>4. CASE q \in R
    BY <1>0, <2>4, PathType
  <2> QED BY <1>3, <1>4, <2>1, <2>2, <2>3, <2>4
<1>5. ASSUME NEW q \in Paths, Len(q) >= 2 PROVE q \in Nodes(b) <=> q \in Reach(R \cup M)
  <2>0. Len(q) \in Nat
    BY PathType
  <2>1. q \notin T
    <3> SUFFICES ASSUME q \in T PROVE FALSE
      OBVIOUS
    <3>1. Len(q) = 1
      BY <1>0
    <3> QED BY <1>5, <3>1
  <2>2. ASSUME q \in Above(R) PROVE q \in Reach(R \cup M)
    BY <1>5, <2>2 DEF Above, Reach
  <2>3. ASSUME q \in Reach(M) PROVE q \in Reach(R \cup M)
    BY <2>3 DEF Reach
  <2>4. ASSUME q \in R PROVE q \in Reach(R \cup M)
    BY <1>5, <2>0, <2>4 DEF Reach, Leads
  <2>5. ASSUME q \in Reach(R \cup M) PROVE q \in Nodes(b)
    <3>1. PICK p \in R \cup M : Leads(q, p)
      BY <2>5 DEF Reach
    <3>2. CASE p \in M
      BY <1>3, <1>5, <3>1, <3>2 DEF Reach
    <3>3. CASE p \in R
      <4>1. p \in Paths /\ Len(p) \in Nat /\ Len(q) <= Len(p)
        BY <1>0, <3>1, <3>3, PathType DEF Leads
      <4>2. CASE Len(q) = Len(p)
        <5>1. q = p
          BY <3>1, <4>1, <4>2, PathsEqual
        <5> QED BY <1>3, <3>3, <5>1
      <4>3. CASE Len(q) < Len(p)
        BY <1>3, <1>5, <2>0, <3>1, <3>3, <4>3 DEF Above
      <4> QED BY <2>0, <4>1, <4>2, <4>3
    <3> QED BY <3>1, <3>2, <3>3
  <2> QED BY <1>3, <2>1, <2>2, <2>3, <2>4, <2>5
<1> QED BY <1>2, <1>3, <1>4, <1>5 DEF NodesAre

\* Deleting a reference deletes it and the trees that led to it alone.
LEMMA DeleteOne ==
  ASSUME NEW b, NEW T, NEW R, NEW M, Shaped(b, T, R, M), NEW r \in R, r \notin M,
         Leaf(r, (R \cup M) \ {r})
  PROVE  /\ Shaped(DeleteUpTreeWhileEmpty(b, r), T, R \ {r}, M)
         /\ DeleteUpTreeWhileEmpty(b, r).ok = b.ok
         /\ \A p \in R \ {r} : DeleteUpTreeWhileEmpty(b, r).refs[p] = b.refs[p]
<1>0. /\ R \in SUBSET Paths /\ M \in SUBSET Paths
      /\ \A q \in T : q \in Paths /\ Len(q) = 1
      /\ \A p \in R \cup M : /\ Len(p) >= 2
                             /\ \A q \in Paths : Len(q) = 1 /\ Leads(q, p) => q \in T
  BY DEF Shaped
<1>1. b = [trees |-> T \cup Above(R) \cup Reach(M), refs |-> b.refs, ok |-> b.ok]
      /\ DOMAIN b.refs = R
  BY DEF Shaped
<1>2. /\ b.trees = T \cup Above(R) \cup Reach(M)
      /\ Nodes(b) = T \cup Above(R) \cup Reach(M) \cup R
      /\ NodesAre(b, R, M)
  BY ShapedNodes
<1>3. PICK X : X = (R \cup M) \ {r}
  OBVIOUS
<1>4. Deleting(b, R, M, r, X)
  BY <1>0, <1>2, <1>3 DEF Deleting
<1>5. PICK gone : gone = UpTreeWhileEmpty(b, r) /\ gone = Reach({r}) \ Reach(X)
  BY <1>4, UpTreeGone
<1>6. r \in Nodes(b) /\ r \in Paths /\ Len(r) \in Nat /\ Len(r) >= 2 /\ Leads(r, r)
  BY <1>0, <1>2, PathType DEF Leads
<1>7. Children(b, r) = {}
  <2> SUFFICES ASSUME NEW q \in Nodes(b), Len(q) = Len(r) + 1, IsPrefix(r, q) PROVE FALSE
    BY DEF Children
  <2>1. q \in Paths
    BY <1>2 DEF NodesAre
  <2>2. Leads(r, q) /\ q \in Reach(R \cup M)
    <3>1. Leads(r, q)
      BY <1>6, <2>1, PrefixLeads
    <3>2. Len(q) >= 2
      BY <1>6
    <3>3. \A x \in Paths : Len(x) >= 2 => (x \in Nodes(b) <=> x \in Reach(R \cup M))
      BY <1>2 DEF NodesAre
    <3> QED BY <2>1, <3>1, <3>2, <3>3
  <2>3. PICK p \in R \cup M : Leads(q, p)
    BY <2>2 DEF Reach
  <2>4. p \in Paths /\ Leads(r, p)
    BY <1>0, <1>6, <2>1, <2>2, <2>3, LeadsOn
  <2>5. p = r
    BY <2>4 DEF Leaf
  <2>6. Len(q) <= Len(r)
    BY <2>3, <2>5 DEF Leads
  <2> QED BY <1>6, <2>6
<1>8. R \ gone = R \ {r}
  <2>1. r \in gone
    <3>1. r \notin Reach(X)
      BY <1>3 DEF Leaf, Reach
    <3> QED BY <1>5, <1>6, <3>1 DEF Reach
  <2>2. ASSUME NEW p \in R, p # r PROVE p \notin gone
    <3>1. p \in Paths /\ p \in X /\ Len(p) >= 2 /\ Leads(p, p)
      BY <1>0, <1>3, <2>2, PathType DEF Leads
    <3>2. p \in Reach(X)
      BY <3>1 DEF Reach
    <3> QED BY <1>5, <3>2
  <2> QED BY <2>1, <2>2
<1>9. (T \cup Above(R) \cup Reach(M)) \ gone = T \cup Above(R \ {r}) \cup Reach(M)
  <2>1. ASSUME NEW q \in T PROVE q \notin gone
    <3> SUFFICES ASSUME q \in gone PROVE FALSE
      OBVIOUS
    <3>1. Len(q) = 1
      BY <1>0
    <3>2. Len(q) >= 2
      BY <1>5 DEF Reach
    <3> QED BY <3>1, <3>2
  <2>2. ASSUME NEW q \in Reach(M) PROVE q \notin gone
    BY <1>3, <1>5 DEF Reach
  <2>3. ASSUME NEW q \in Above(R \ {r}) PROVE q \in Above(R) /\ q \notin gone
    <3>1. PICK p \in R \ {r} : q \in Paths /\ Len(q) > 0 /\ Len(q) < Len(p) /\ Leads(q, p)
      BY <2>3 DEF Above
    <3>2. q \in Above(R)
      BY <3>1 DEF Above
    <3>3. p \in X
      BY <1>3, <3>1
    <3>4. q \notin gone
      BY <1>5, <3>1, <3>3 DEF Reach
    <3> QED BY <3>2, <3>4
  <2>4. ASSUME NEW q \in Above(R), q \notin gone PROVE q \in T \/ q \in Above(R \ {r}) \/ q \in Reach(M)
    <3>1. PICK p \in R : q \in Paths /\ Len(q) > 0 /\ Len(q) < Len(p) /\ Leads(q, p)
      BY <2>4 DEF Above
    <3>2. Len(q) \in Nat /\ p \in Paths
      BY <1>0, <3>1, PathType
    <3>3. CASE p # r
      BY <3>1, <3>3 DEF Above
    <3>4. CASE Len(q) = 1
      BY <1>0, <3>1, <3>4
    <3>5. CASE p = r /\ Len(q) >= 2
      <4>1. q \in Reach({r})
        BY <3>1, <3>5 DEF Reach
      <4>2. PICK x \in X : Leads(q, x)
        BY <1>5, <2>4, <4>1 DEF Reach
      <4>3. CASE x \in M
        BY <3>1, <3>5, <4>2, <4>3 DEF Reach
      <4>4. CASE x \in R \ {r}
        <5>1. x \in Paths /\ Len(x) \in Nat /\ Len(q) <= Len(x)
          BY <1>0, <4>2, <4>4, PathType DEF Leads
        <5>2. Len(q) # Len(x)
          <6> SUFFICES ASSUME Len(q) = Len(x) PROVE FALSE
            OBVIOUS
          <6>1. q = x
            BY <3>1, <4>2, <5>1, PathsEqual
          <6> QED BY <1>3, <3>1, <3>5, <6>1 DEF Leaf
        <5> QED BY <3>1, <3>2, <4>2, <4>4, <5>1, <5>2 DEF Above
      <4> QED BY <1>3, <4>3, <4>4
    <3>6. Len(q) = 1 \/ Len(q) >= 2
      <4>1. \A n \in Nat : n > 0 => n = 1 \/ n >= 2
        OBVIOUS
      <4>2. Len(q) \in Nat /\ Len(q) > 0
        BY <3>1, <3>2
      <4> QED BY <4>1, <4>2
    <3> QED BY <3>3, <3>4, <3>5, <3>6
  <2> QED BY <2>1, <2>2, <2>3, <2>4
<1>10. PICK c : c = DeleteUpTreeWhileEmpty(b, r)
  OBVIOUS
<1>11. c = [b EXCEPT !.trees = @ \ gone, !.refs = Restrict(@, DOMAIN @ \ gone)]
  BY <1>5, <1>6, <1>7, <1>10 DEF DeleteUpTreeWhileEmpty
<1>12. c = [trees |-> (T \cup Above(R) \cup Reach(M)) \ gone,
            refs |-> [p \in R \ {r} |-> b.refs[p]], ok |-> b.ok]
  <2>1. Restrict(b.refs, DOMAIN b.refs \ gone) = [p \in R \ {r} |-> b.refs[p]]
    BY <1>1, <1>8 DEF Restrict
  <2>2. PICK t, f, o : b = [trees |-> t, refs |-> f, ok |-> o] /\ t = b.trees /\ f = b.refs /\ o = b.ok
    BY <1>1
  <2>3. c = [trees |-> t \ gone, refs |-> Restrict(f, DOMAIN f \ gone), ok |-> o]
    BY <1>11, <2>2
  <2> QED BY <1>2, <2>1, <2>2, <2>3
<1>13. c = [trees |-> T \cup Above(R \ {r}) \cup Reach(M), refs |-> c.refs, ok |-> c.ok]
       /\ DOMAIN c.refs = R \ {r} /\ c.ok = b.ok /\ \A p \in R \ {r} : c.refs[p] = b.refs[p]
  BY <1>9, <1>12
<1>14. Shaped(c, T, R \ {r}, M)
  BY <1>0, <1>13 DEF Shaped
<1> QED BY <1>10, <1>13, <1>14

\* Inserting those of the trees P that did not exist before the batch makes all
\* trees at and above m.
Completes(T, R, M, P, m) ==
  /\ m \in Paths /\ Len(m) >= 2
  /\ \A q \in Paths : Len(q) = 1 /\ Leads(q, m) => q \in T
  /\ \A q \in P : q \in Reach({m})
  /\ \A q \in Reach(M) : q \in Reach({m})
  /\ \A q \in Reach({m}) : q \in P \/ q \in Above(R) \/ q \in Reach(M)
  /\ \A q \in P : HasRaw(q) => q \in Above(R) \/ q \in Reach(M)

\* Inserting the missing ones of the trees at and above m.
LEMMA InsertTrees ==
  ASSUME NEW b, NEW T, NEW R, NEW M, Shaped(b, T, R, M), NEW P, NEW m, Completes(T, R, M, P, m),
         NEW c, c = InsertEmptyTreesIfNotExist(b, P)
  PROVE  Shaped(c, T, R, {m}) /\ c.ok = b.ok /\ c.refs = b.refs
<1>0. /\ R \in SUBSET Paths /\ M \in SUBSET Paths
      /\ \A q \in T : q \in Paths /\ Len(q) = 1
      /\ \A p \in R \cup M : /\ Len(p) >= 2
                             /\ \A q \in Paths : Len(q) = 1 /\ Leads(q, p) => q \in T
      /\ b = [trees |-> T \cup Above(R) \cup Reach(M), refs |-> b.refs, ok |-> b.ok]
      /\ DOMAIN b.refs = R
  BY DEF Shaped
<1>1. /\ m \in Paths /\ Len(m) >= 2
      /\ \A q \in Paths : Len(q) = 1 /\ Leads(q, m) => q \in T
      /\ \A q \in P : q \in Reach({m})
      /\ \A q \in Reach(M) : q \in Reach({m})
      /\ \A q \in Reach({m}) : q \in P \/ q \in Above(R) \/ q \in Reach(M)
      /\ \A q \in P : HasRaw(q) => q \in Above(R) \/ q \in Reach(M)
  BY DEF Completes
<1>2. c = [trees |-> (T \cup Above(R) \cup Reach(M)) \cup {p \in P : ~ HasRaw(p)},
           refs |-> b.refs, ok |-> b.ok]
  <2>1. PICK t, f, o : b = [trees |-> t, refs |-> f, ok |-> o] /\ f = b.refs /\ o = b.ok
                       /\ t = T \cup Above(R) \cup Reach(M)
    BY <1>0
  <2>2. c = [trees |-> t \cup {p \in P : ~ HasRaw(p)}, refs |-> f, ok |-> o]
    BY <2>1 DEF InsertEmptyTreesIfNotExist
  <2> QED BY <2>1, <2>2
<1>3. (T \cup Above(R) \cup Reach(M)) \cup {p \in P : ~ HasRaw(p)} = T \cup Above(R) \cup Reach({m})
  BY <1>1
<1>4. c = [trees |-> T \cup Above(R) \cup Reach({m}), refs |-> c.refs, ok |-> c.ok]
      /\ c.ok = b.ok /\ c.refs = b.refs
  BY <1>2, <1>3
<1>5. \A p \in R \cup {m} : /\ Len(p) >= 2
                            /\ \A q \in Paths : Len(q) = 1 /\ Leads(q, p) => q \in T
  BY <1>0, <1>1
<1>6. Shaped(c, T, R, {m})
  BY <1>0, <1>1, <1>4, <1>5 DEF Shaped
<1> QED BY <1>4, <1>6

\* The trees at and above m are inserted.
Ready(b, T, R, m) == Shaped(b, T, R, {m})

\* What inserting a leaf n makes of a batch.
Inserted(b, T, R, id, n, c) ==
  /\ Shaped(c, T, R \cup {n}, {}) /\ c.ok = b.ok /\ c.refs[n] = id
  /\ \A p \in R : p # n => c.refs[p] = b.refs[p]

\* Inserting a reference below the trees that were inserted for it.
LEMMA InsertLeaf ==
  ASSUME NEW b, NEW T, NEW R, NEW m \in Paths, Ready(b, T, R, m), NEW x \in Keys, NEW id,
         NEW n, n = Append(m, x), NEW c, c = InsertReference(b, n, id)
  PROVE  Inserted(b, T, R, id, n, c)
<1>0. /\ R \in SUBSET Paths
      /\ \A q \in T : q \in Paths /\ Len(q) = 1
      /\ \A p \in R \cup {m} : /\ Len(p) >= 2
                               /\ \A q \in Paths : Len(q) = 1 /\ Leads(q, p) => q \in T
      /\ b = [trees |-> T \cup Above(R) \cup Reach({m}), refs |-> b.refs, ok |-> b.ok]
      /\ DOMAIN b.refs = R
  BY DEF Ready, Shaped
<1>1. /\ n \in Paths /\ Len(n) = Len(m) + 1 /\ Leads(m, n)
      /\ \A q \in Paths : Leads(q, n) /\ Len(q) <= Len(m) => Leads(q, m)
  BY AppendPath
<1>3. c = [trees |-> T \cup Above(R) \cup Reach({m}),
           refs |-> [p \in {n} \cup R |-> IF p = n THEN id ELSE b.refs[p]], ok |-> b.ok]
  <2>1. PICK t, f, o : b = [trees |-> t, refs |-> f, ok |-> o] /\ f = b.refs /\ o = b.ok
                       /\ t = T \cup Above(R) \cup Reach({m})
    BY <1>0
  <2>2. c = [trees |-> t, refs |-> [p \in {n} \cup DOMAIN f |-> IF p = n THEN id ELSE f[p]], ok |-> o]
    BY <2>1 DEF InsertReference
  <2> QED BY <1>0, <2>1, <2>2
<1>4. Len(m) \in Nat /\ Len(m) >= 2
  BY <1>0, PathType
<1>5. T \cup Above(R) \cup Reach({m}) = T \cup Above(R \cup {n}) \cup Reach({})
  <2>1. ASSUME NEW q \in Reach({m}) PROVE q \in Above(R \cup {n})
    <3>1. q \in Paths /\ Len(q) >= 2 /\ Leads(q, m) /\ Len(q) \in Nat /\ Len(q) <= Len(m)
      BY PathType DEF Reach, Leads
    <3>2. Leads(q, n)
      BY <1>1, <3>1, LeadsOn
    <3>3. Len(q) > 0 /\ Len(q) < Len(n)
      BY <1>1, <1>4, <3>1
    <3> QED BY <3>1, <3>2, <3>3 DEF Above
  <2>2. ASSUME NEW q \in Above(R) PROVE q \in Above(R \cup {n})
    BY DEF Above
  <2>3. ASSUME NEW q \in Above(R \cup {n}) PROVE q \in T \/ q \in Above(R) \/ q \in Reach({m})
    <3>1. PICK p \in R \cup {n} : q \in Paths /\ Len(q) > 0 /\ Len(q) < Len(p) /\ Leads(q, p)
      BY <2>3 DEF Above
    <3>2. CASE p \in R
      BY <3>1, <3>2 DEF Above
    <3>3. CASE p = n
      <4>1. Len(q) \in Nat /\ Len(q) <= Len(m)
        <5>1. \A k, l \in Nat : k < l + 1 => k <= l
          OBVIOUS
        <5>2. Len(q) \in Nat /\ Len(q) < Len(m) + 1
          BY <1>1, <3>1, <3>3, PathType
        <5> QED BY <1>4, <5>1, <5>2
      <4>2. Leads(q, m)
        BY <1>1, <3>1, <3>3, <4>1
      <4>3. Len(q) = 1 \/ Len(q) >= 2
        <5>1. \A k \in Nat : k > 0 => k = 1 \/ k >= 2
          OBVIOUS
        <5> QED BY <3>1, <4>1, <5>1
      <4>4. Len(q) = 1 => q \in T
        BY <1>0, <3>1, <4>2
      <4> QED BY <3>1, <4>2, <4>3, <4>4 DEF Reach
    <3> QED BY <3>1, <3>2, <3>3
  <2>4. Reach({}) = {}
    BY DEF Reach
  <2> QED BY <2>1, <2>2, <2>3, <2>4
<1>6. /\ c = [trees |-> T \cup Above(R \cup {n}) \cup Reach({}), refs |-> c.refs, ok |-> c.ok]
      /\ DOMAIN c.refs = R \cup {n} /\ c.ok = b.ok /\ c.refs[n] = id
      /\ \A p \in R : p # n => c.refs[p] = b.refs[p]
  <2>1. /\ c.refs = [p \in {n} \cup R |-> IF p = n THEN id ELSE b.refs[p]] /\ c.ok = b.ok
        /\ c.trees = T \cup Above(R) \cup Reach({m})
        /\ c = [trees |-> c.trees, refs |-> c.refs, ok |-> c.ok]
    BY <1>3
  <2> QED BY <1>5, <2>1
<1>7. ASSUME NEW p \in (R \cup {n}) \cup {}
      PROVE  Len(p) >= 2 /\ \A q \in Paths : Len(q) = 1 /\ Leads(q, p) => q \in T
  <2>1. CASE p \in R
    BY <1>0, <2>1
  <2>2. CASE p = n
    <3>1. Len(n) >= 2
      BY <1>1, <1>4
    <3>2. ASSUME NEW q \in Paths, Len(q) = 1, Leads(q, n) PROVE q \in T
      <4>1. Len(q) <= Len(m)
        BY <1>4, <3>2
      <4>2. Leads(q, m)
        BY <1>1, <3>2, <4>1
      <4> QED BY <1>0, <3>2, <4>2
    <3> QED BY <2>2, <3>1, <3>2
  <2> QED BY <2>1, <2>2
<1>8. R \cup {n} \in SUBSET Paths /\ {} \in SUBSET Paths
  BY <1>0, <1>1
<1>9. Shaped(c, T, R \cup {n}, {})
  BY <1>0, <1>6, <1>7, <1>8 DEF Shaped
<1> QED BY <1>6, <1>9 DEF Inserted

-----------------------------------------------------------------------------
(* The stages of a batch.  An operation takes the document id from what it *)
(* is, Kept(id), to new, index after index; adding and deleting are taking *)
(* it from Nothing and to Nothing.                                         *)

\* The trees of the top properties.
Roots == {<<type.indices[k].properties[1]>> : k \in DOMAIN type.indices}

\* The document a that index i holds after the first k indices.
At(k, id, new, i, a) == IF a = id /\ i <= k THEN new ELSE Kept(a)

\* The entries of all indices after the first k of them, and the ones of these
\* that stay when index k + 1 is next.
Held(k, id, new) ==
  {p \in Paths : \E i \in DOMAIN type.indices, a \in Ids :
     At(k, id, new, i, a) # Nothing /\ p = Place(i, a, At(k, id, new, i, a))}
Others(k, id, new) ==
  {p \in Paths : \E i \in DOMAIN type.indices, a \in Ids :
     /\ i # k + 1 \/ a # id
     /\ At(k, id, new, i, a) # Nothing /\ p = Place(i, a, At(k, id, new, i, a))}

\* The batch after the first k indices.
Stage(b, k, id, new) ==
  /\ Shaped(b, Roots, Held(k, id, new), {})
  /\ \A i \in DOMAIN type.indices, a \in Ids :
       At(k, id, new, i, a) # Nothing => b.refs[Place(i, a, At(k, id, new, i, a))] = a

\* The batch while index k + 1 does not hold the document.
Without(b, k, id, new, M) ==
  /\ Shaped(b, Roots, Others(k, id, new), M)
  /\ \A i \in DOMAIN type.indices, a \in Ids :
       (i # k + 1 \/ a # id) /\ At(k, id, new, i, a) # Nothing
         => b.refs[Place(i, a, At(k, id, new, i, a))] = a

\* References and trees agree with the stored documents.
StoreOK ==
  /\ PrimaryOK
  /\ ReferencesAgree
  /\ TreesAgree

\* In which indices a document may and must stand in a tree.
Laid(d) ==
  \A i \in DOMAIN type.indices :
    /\ ~ type.indices[i].unique \/ AllFieldsEmpty(type.indices[i], d.data) => i \in d.within
    /\ i \in d.within => ~ type.indices[i].unique \/ AnyFieldEmpty(type.indices[i], d.data)

\* What primary storage has under an id is a document or nothing.
LEMMA CurrentType ==
  ASSUME PrimaryOK, NEW a \in Ids
  PROVE  /\ Current(a) \in Data \cup {NoDocument}
         /\ Present(a) <=> Current(a) # NoDocument
         /\ a \in Storing <=> Present(a)
         /\ NoDocument \notin Data
<1>1. NoDocument \notin Data
  BY DocumentAssumption
<1>2. ASSUME Present(a) PROVE Current(a) \in Data
  <2>1. primary[a] \in Storage /\ primary[a].latest \in DOMAIN primary[a].items
    BY <1>2 DEF PrimaryOK, Present
  <2> QED BY <1>2, <2>1 DEF Current, Storage
<1>3. ASSUME ~ Present(a) PROVE Current(a) = NoDocument
  BY <1>3 DEF Current
<1> QED BY <1>1, <1>2, <1>3 DEF Storing

\* So is what is kept of it.
LEMMA KeptType ==
  ASSUME PrimaryOK, NEW a \in Ids
  PROVE  /\ Kept(a) \in Docs \cup {Nothing}
         /\ Present(a) <=> Kept(a) # Nothing
         /\ a \in Storing <=> Kept(a) # Nothing
         /\ Nothing \notin Docs
         /\ Kept(a) # Nothing =>
              /\ Kept(a).data = Current(a)
              /\ \A i \in DOMAIN type.indices :
                   i \in Kept(a).within <=> InTree(type.indices[i], a)
<1>1. Nothing \notin Docs
  BY NothingApart
<1>2. ASSUME Present(a)
      PROVE  /\ Kept(a) \in Docs /\ Kept(a).data = Current(a)
             /\ Kept(a).within = {i \in DOMAIN type.indices : InTree(type.indices[i], a)}
  <2>1. Current(a) \in Data
    BY <1>2, CurrentType
  <2>2. PICK W : W = {i \in DOMAIN type.indices : InTree(type.indices[i], a)}
    OBVIOUS
  <2>3. W \in SUBSET Nat
    BY <2>2, IndexType
  <2>4. Kept(a) = [data |-> Current(a), within |-> W]
    BY <1>2, <2>2 DEF Kept
  <2> QED BY <2>1, <2>2, <2>3, <2>4 DEF Docs
<1>3. ASSUME ~ Present(a) PROVE Kept(a) = Nothing
  BY <1>3 DEF Kept
<1> QED BY <1>1, <1>2, <1>3 DEF Storing

\* Stored documents are laid out as they must be, and their references stand at
\* their places.
LEMMA KeptPlaces ==
  ASSUME StoreOK, NEW a \in Ids, Kept(a) # Nothing
  PROVE  /\ Laid(Kept(a))
         /\ \A i \in DOMAIN type.indices :
              /\ Entry(type.indices[i], a) = Place(i, a, Kept(a))
              /\ Place(i, a, Kept(a)) \in DOMAIN refs /\ refs[Place(i, a, Kept(a))] = a
<1>1. /\ PrimaryOK /\ a \in Storing /\ Kept(a).data = Current(a)
      /\ \A i \in DOMAIN type.indices : i \in Kept(a).within <=> InTree(type.indices[i], a)
  BY KeptType DEF StoreOK
<1>2. Laid(Kept(a))
  <2>1. \A i \in DOMAIN type.indices :
          /\ ~ type.indices[i].unique \/ AllFieldsEmpty(type.indices[i], Current(a))
               => InTree(type.indices[i], a)
          /\ InTree(type.indices[i], a)
               => ~ type.indices[i].unique \/ AnyFieldEmpty(type.indices[i], Current(a))
    BY <1>1 DEF StoreOK, ReferencesAgree
  <2> QED BY <1>1, <2>1 DEF Laid
<1>3. ASSUME NEW i \in DOMAIN type.indices
      PROVE  /\ Entry(type.indices[i], a) = Place(i, a, Kept(a))
             /\ Place(i, a, Kept(a)) \in DOMAIN refs /\ refs[Place(i, a, Kept(a))] = a
  <2>1. Zero(type.indices[i], Current(a)) = Terminal(PathOf(i, Kept(a)))
    BY <1>1 DEF Zero, PathOf
  <2>2. Entry(type.indices[i], a) = Place(i, a, Kept(a))
    BY <1>1, <2>1 DEF Entry, Place
  <2>3. Entry(type.indices[i], a) \in Entries(a)
    BY DEF Entries
  <2> QED BY <1>1, <2>2, <2>3 DEF StoreOK, ReferencesAgree
<1> QED BY <1>2, <1>3

\* Stored documents with the same path in an index stand there all in a tree, or
\* there is only one of them.
LEMMA Beside ==
  ASSUME StoreOK, NEW a \in Ids, NEW b \in Ids, Kept(a) # Nothing, Kept(b) # Nothing,
         NEW i \in DOMAIN type.indices, PathOf(i, Kept(a)) = PathOf(i, Kept(b))
  PROVE  /\ i \in Kept(a).within <=> i \in Kept(b).within
         /\ i \notin Kept(a).within => a = b
<1>0. PrimaryOK /\ TreesAgree
  BY DEF StoreOK
<1>1. ASSUME NEW x \in Ids, NEW y \in Ids, Kept(x) # Nothing, Kept(y) # Nothing,
             PathOf(i, Kept(x)) = PathOf(i, Kept(y)), i \in Kept(x).within, i \notin Kept(y).within
      PROVE  FALSE
  <2>1. Kept(x) \in Docs /\ Kept(y) \in Docs
    BY <1>0, <1>1, KeptType
  <2>2. PICK p, z : p = Place(i, x, Kept(x)) /\ z = Terminal(PathOf(i, Kept(x)))
    OBVIOUS
  <2>3. p \in DOMAIN refs
    BY <1>1, <2>2, KeptPlaces
  <2>4. z \in DOMAIN refs
    <3>1. Place(i, y, Kept(y)) \in DOMAIN refs
      BY <1>1, KeptPlaces
    <3>2. Place(i, y, Kept(y)) = Terminal(PathOf(i, Kept(y)))
      BY <1>1 DEF Place
    <3> QED BY <1>1, <2>2, <3>1, <3>2
  <2>5. /\ p \in Paths /\ z \in Paths /\ Leads(z, p) /\ Depth(i) \in Nat
        /\ Len(z) = Depth(i) + 1 /\ Len(p) = Depth(i) + 2
    BY <1>0, <1>1, <2>1, <2>2, PlaceType
  <2>6. Len(z) \in 0 .. Len(p) /\ Len(z) \in 1 .. Len(p) - 1
    BY <2>5
  <2>7. z = SubSeq(p, 1, Len(z))
    BY <2>5, <2>6, CutPath
  <2>8. z \in {SubSeq(p, 1, k) : k \in 1 .. Len(p) - 1}
    BY <2>6, <2>7
  <2>9. z \in trees
    BY <1>0, <2>3, <2>8 DEF TreesAgree
  <2> QED BY <1>0, <2>4, <2>9 DEF TreesAgree
<1>2. i \in Kept(a).within <=> i \in Kept(b).within
  BY <1>1
<1>3. ASSUME i \notin Kept(a).within PROVE a = b
  <2>1. Place(i, a, Kept(a)) = Place(i, b, Kept(b))
    BY <1>2, <1>3 DEF Place
  <2>2. refs[Place(i, a, Kept(a))] = a /\ refs[Place(i, b, Kept(b))] = b
    BY KeptPlaces
  <2> QED BY <2>1, <2>2
<1> QED BY <1>2, <1>3

\* The batch's subject: an operation on document id towards new.
Subject(id, new) ==
  StoreOK /\ id \in Ids /\ new \in Docs \cup {Nothing}
  /\ (new # Nothing => Laid(new))

\* What an index holds at a stage is a document or nothing.
LEMMA AtType ==
  ASSUME NEW id, NEW new, Subject(id, new), NEW k, NEW i, NEW a \in Ids,
         At(k, id, new, i, a) # Nothing
  PROVE  At(k, id, new, i, a) \in Docs
BY KeptType DEF Subject, StoreOK, At

\* The trees of the top properties are paths, and every entry is below one.
LEMMA RootsLead ==
  ASSUME PrimaryOK
  PROVE  /\ \A q \in Roots : q \in Paths /\ Len(q) = 1
         /\ \A i \in DOMAIN type.indices, data \in Docs :
              \A q \in Paths : Len(q) = 1 /\ Leads(q, PathOf(i, data)) => q \in Roots
         /\ \A i \in DOMAIN type.indices, data \in Docs, id \in Ids :
              \A q \in Paths : Len(q) = 1 /\ Leads(q, Place(i, id, data)) => q \in Roots
<1>1. ASSUME NEW q \in Roots PROVE q \in Paths /\ Len(q) = 1
  <2>1. PICK i \in DOMAIN type.indices : q = <<type.indices[i].properties[1]>>
    BY DEF Roots
  <2>2. type.indices[i].properties[1] \in Properties
    BY IndexType
  <2>3. type.indices[i].properties[1] \in Keys
    BY <2>2 DEF Keys
  <2> QED BY <2>1, <2>3 DEF Paths
<1>2. ASSUME NEW i \in DOMAIN type.indices, NEW data \in Docs, NEW q \in Paths, Len(q) = 1,
             Leads(q, PathOf(i, data))
      PROVE  q \in Roots
  <2>1. PathOf(i, data)[1] = Names(i)[1]
    <3>1. Len(Names(i)) \in Nat \ {0}
          /\ \A t \in 1 .. Len(Names(i)) : PathOf(i, data)[2 * t - 1] = Names(i)[t]
      BY PathKeys
    <3>2. 1 \in 1 .. Len(Names(i)) /\ 2 * 1 - 1 = 1
      BY <3>1
    <3> QED BY <3>1, <3>2
  <2>2. q[1] = type.indices[i].properties[1]
    BY <1>2, <2>1 DEF Leads, Names
  <2>3. PICK r : r = <<type.indices[i].properties[1]>>
    OBVIOUS
  <2>4. r \in Roots
    BY <2>3 DEF Roots
  <2>5. r \in Paths /\ Len(r) = 1 /\ r[1] = type.indices[i].properties[1]
    BY <1>1, <2>3, <2>4
  <2>6. Leads(q, r)
    BY <1>2, <2>2, <2>5 DEF Leads
  <2>7. q = r
    BY <1>2, <2>5, <2>6, PathsEqual
  <2> QED BY <2>4, <2>7
<1>3. ASSUME NEW i \in DOMAIN type.indices, NEW data \in Docs, NEW id \in Ids,
             NEW q \in Paths, Len(q) = 1, Leads(q, Place(i, id, data))
      PROVE  q \in Roots
  <2>1. /\ PathOf(i, data) \in Paths /\ Len(PathOf(i, data)) >= 2
        /\ Place(i, id, data) \in Paths /\ Leads(PathOf(i, data), Place(i, id, data))
    BY PlaceType
  <2>2. Len(q) <= Len(PathOf(i, data))
    BY <1>3, <2>1, PathType
  <2>3. Leads(q, PathOf(i, data))
    BY <1>3, <2>1, <2>2, LeadsBetween
  <2> QED BY <1>2, <1>3, <2>3
<1> QED BY <1>1, <1>2, <1>3

\* The length of an entry.
LEMMA PlaceLong ==
  ASSUME PrimaryOK, NEW i \in DOMAIN type.indices, NEW id \in Ids, NEW data \in Docs
  PROVE  /\ Len(Place(i, id, data)) \in Nat /\ Len(Place(i, id, data)) >= 3
         /\ Depth(i) < Len(Place(i, id, data))
<1>1. /\ Depth(i) \in Nat /\ Depth(i) >= 2 /\ Place(i, id, data) \in Paths
      /\ Len(Terminal(PathOf(i, data))) = Depth(i) + 1
      /\ Leads(Terminal(PathOf(i, data)), Place(i, id, data))
  BY PlaceType
<1>2. Len(Place(i, id, data)) \in Nat /\ Depth(i) + 1 <= Len(Place(i, id, data))
  BY <1>1, PathType DEF Leads
<1> QED BY <1>1, <1>2

\* The entries of a stage, with and without the one that is next.
LEMMA HeldType ==
  ASSUME NEW id, NEW new, Subject(id, new), NEW k
  PROVE  /\ Held(k, id, new) \in SUBSET Paths /\ Others(k, id, new) \in SUBSET Held(k, id, new)
         /\ \A p \in Held(k, id, new) :
              /\ Len(p) >= 2
              /\ \A q \in Paths : Len(q) = 1 /\ Leads(q, p) => q \in Roots
         /\ \A q \in Roots : q \in Paths /\ Len(q) = 1
<1>1. PrimaryOK
  BY DEF Subject, StoreOK
<1>2. ASSUME NEW p \in Held(k, id, new)
      PROVE  /\ Len(p) >= 2
             /\ \A q \in Paths : Len(q) = 1 /\ Leads(q, p) => q \in Roots
  <2>1. PICK i \in DOMAIN type.indices, a \in Ids :
          At(k, id, new, i, a) # Nothing /\ p = Place(i, a, At(k, id, new, i, a))
    BY DEF Held
  <2>2. PICK d \in Docs : d = At(k, id, new, i, a)
    BY <2>1, AtType
  <2>3. p = Place(i, a, d)
    BY <2>1, <2>2
  <2>4. Len(p) \in Nat /\ Len(p) >= 3
    BY <1>1, <2>3, PlaceLong
  <2>5. Len(p) >= 2
    BY <2>4
  <2> QED BY <1>1, <2>3, <2>5, RootsLead
<1>3. Held(k, id, new) \in SUBSET Paths /\ Others(k, id, new) \in SUBSET Held(k, id, new)
  BY DEF Held, Others
<1> QED BY <1>1, <1>2, <1>3, RootsLead

\* What changes between two stages.
LEMMA AtNext ==
  ASSUME NEW id, NEW new, Subject(id, new), NEW k \in Nat, k + 1 \in DOMAIN type.indices
  PROVE  /\ At(k, id, new, k + 1, id) = Kept(id)
         /\ At(k + 1, id, new, k + 1, id) = new
         /\ \A i \in DOMAIN type.indices, a \in Ids : i # k + 1 \/ a # id =>
              At(k + 1, id, new, i, a) = At(k, id, new, i, a)
<1>1. ASSUME NEW i \in DOMAIN type.indices PROVE i \in Nat
  BY IndexType DEF Subject, StoreOK
<1>2. ~ (k + 1 <= k) /\ k + 1 <= k + 1
  OBVIOUS
<1>3. ASSUME NEW i \in DOMAIN type.indices, i # k + 1 PROVE i <= k + 1 <=> i <= k
  BY <1>1, <1>3
<1> QED BY <1>2, <1>3 DEF At

\* The entries of a stage are those that stay and the one that is next, and
\* those of the next stage the ones that stayed and the new one.
LEMMA HeldIs ==
  ASSUME NEW id, NEW new, Subject(id, new), NEW k \in Nat, k + 1 \in DOMAIN type.indices
  PROVE  /\ Kept(id) = Nothing => Held(k, id, new) = Others(k, id, new)
         /\ Kept(id) # Nothing =>
              Held(k, id, new) = Others(k, id, new) \cup {Place(k + 1, id, Kept(id))}
         /\ new = Nothing => Held(k + 1, id, new) = Others(k, id, new)
         /\ new # Nothing =>
              Held(k + 1, id, new) = Others(k, id, new) \cup {Place(k + 1, id, new)}
<1>0. PrimaryOK /\ id \in Ids /\ new \in Docs \cup {Nothing}
  BY DEF Subject, StoreOK
<1>1. PICK j \in DOMAIN type.indices : j = k + 1
  OBVIOUS
<1>2. /\ At(k, id, new, j, id) = Kept(id) /\ At(k + 1, id, new, j, id) = new
      /\ \A i \in DOMAIN type.indices, a \in Ids : i # j \/ a # id =>
              At(k + 1, id, new, i, a) = At(k, id, new, i, a)
  BY <1>1, AtNext
<1>3. ASSUME Kept(id) # Nothing PROVE Place(j, id, Kept(id)) \in Paths
  BY <1>0, <1>3, KeptType, PlaceType
<1>4. ASSUME new # Nothing PROVE Place(j, id, new) \in Paths
  BY <1>0, <1>4, PlaceType
<1>5. ASSUME NEW p \in Held(k, id, new)
      PROVE  p \in Others(k, id, new) \/ (Kept(id) # Nothing /\ p = Place(j, id, Kept(id)))
  <2>1. PICK i \in DOMAIN type.indices, a \in Ids :
          p \in Paths /\ At(k, id, new, i, a) # Nothing /\ p = Place(i, a, At(k, id, new, i, a))
    BY <1>5 DEF Held
  <2>2. CASE i = j /\ a = id
    BY <1>2, <2>1, <2>2
  <2>3. CASE i # j \/ a # id
    BY <1>1, <2>1, <2>3 DEF Others
  <2> QED BY <2>2, <2>3
<1>6. ASSUME NEW p \in Held(k + 1, id, new)
      PROVE  p \in Others(k, id, new) \/ (new # Nothing /\ p = Place(j, id, new))
  <2>1. PICK i \in DOMAIN type.indices, a \in Ids :
          /\ p \in Paths /\ At(k + 1, id, new, i, a) # Nothing
          /\ p = Place(i, a, At(k + 1, id, new, i, a))
    BY <1>6 DEF Held
  <2>2. CASE i = j /\ a = id
    BY <1>2, <2>1, <2>2
  <2>3. CASE i # j \/ a # id
    BY <1>1, <1>2, <2>1, <2>3 DEF Others
  <2> QED BY <2>2, <2>3
<1>7. ASSUME NEW p \in Others(k, id, new) PROVE p \in Held(k, id, new) /\ p \in Held(k + 1, id, new)
  <2>1. PICK i \in DOMAIN type.indices, a \in Ids :
          /\ p \in Paths
          /\ i # j \/ a # id
          /\ At(k, id, new, i, a) # Nothing /\ p = Place(i, a, At(k, id, new, i, a))
    BY <1>1, <1>7 DEF Others
  <2>2. At(k + 1, id, new, i, a) = At(k, id, new, i, a)
    BY <1>2, <2>1
  <2> QED BY <1>7, <2>1, <2>2 DEF Held
<1>8. ASSUME Kept(id) # Nothing PROVE Place(j, id, Kept(id)) \in Held(k, id, new)
  BY <1>0, <1>2, <1>3, <1>8 DEF Held
<1>9. ASSUME new # Nothing PROVE Place(j, id, new) \in Held(k + 1, id, new)
  BY <1>0, <1>2, <1>4, <1>9 DEF Held
<1>10. Held(k, id, new) = IF Kept(id) = Nothing THEN Others(k, id, new)
                          ELSE Others(k, id, new) \cup {Place(j, id, Kept(id))}
  BY <1>5, <1>7, <1>8
<1>11. Held(k + 1, id, new) = IF new = Nothing THEN Others(k, id, new)
                              ELSE Others(k, id, new) \cup {Place(j, id, new)}
  BY <1>6, <1>7, <1>9
<1> QED BY <1>1, <1>10, <1>11

\* When nothing is to be removed, nothing changes.
LEMMA StageFresh ==
  ASSUME NEW id, NEW new, Subject(id, new), NEW k \in Nat, k + 1 \in DOMAIN type.indices,
         NEW b, Stage(b, k, id, new), Kept(id) = Nothing
  PROVE  Without(b, k, id, new, {})
<1>1. Held(k, id, new) = Others(k, id, new)
  BY HeldIs
<1> QED BY <1>1 DEF Stage, Without

\* When nothing is to be inserted, the next stage is reached.
LEMMA StageGone ==
  ASSUME NEW id, NEW new, Subject(id, new), NEW k \in Nat, k + 1 \in DOMAIN type.indices,
         NEW b, Without(b, k, id, new, {}), new = Nothing
  PROVE  Stage(b, k + 1, id, new)
<1>1. Held(k + 1, id, new) = Others(k, id, new)
  BY HeldIs
<1>2. Shaped(b, Roots, Held(k + 1, id, new), {})
  BY <1>1 DEF Without
<1>3. ASSUME NEW i \in DOMAIN type.indices, NEW a \in Ids, At(k + 1, id, new, i, a) # Nothing
      PROVE  b.refs[Place(i, a, At(k + 1, id, new, i, a))] = a
  <2>0. At(k + 1, id, new, k + 1, id) = new
    BY AtNext
  <2>1. i # k + 1 \/ a # id
    BY <1>3, <2>0
  <2>2. At(k + 1, id, new, i, a) = At(k, id, new, i, a)
    BY <2>1, AtNext
  <2> QED BY <1>3, <2>1, <2>2 DEF Without
<1> QED BY <1>2, <1>3 DEF Stage

\* When the document stays where it is in index k + 1, so does everything.
LEMMA StageSame ==
  ASSUME NEW id, NEW new, Subject(id, new), NEW k \in Nat, k + 1 \in DOMAIN type.indices,
         NEW b, Stage(b, k, id, new), Kept(id) # Nothing, new # Nothing,
         Place(k + 1, id, Kept(id)) = Place(k + 1, id, new)
  PROVE  Stage(b, k + 1, id, new)
<1>1. Held(k + 1, id, new) = Held(k, id, new)
  <2>1. Held(k, id, new) = Others(k, id, new) \cup {Place(k + 1, id, Kept(id))}
    BY HeldIs
  <2>2. Held(k + 1, id, new) = Others(k, id, new) \cup {Place(k + 1, id, new)}
    BY HeldIs
  <2> QED BY <2>1, <2>2
<1>2. Shaped(b, Roots, Held(k + 1, id, new), {})
  BY <1>1 DEF Stage
<1>3. ASSUME NEW i \in DOMAIN type.indices, NEW a \in Ids, At(k + 1, id, new, i, a) # Nothing
      PROVE  b.refs[Place(i, a, At(k + 1, id, new, i, a))] = a
  <2>1. CASE i = k + 1 /\ a = id
    <3>1. At(k + 1, id, new, i, a) = new /\ At(k, id, new, i, a) = Kept(id)
      BY <2>1, AtNext
    <3>2. b.refs[Place(i, a, At(k, id, new, i, a))] = a
      BY <3>1 DEF Stage
    <3> QED BY <2>1, <3>1, <3>2
  <2>2. CASE i # k + 1 \/ a # id
    <3>1. At(k + 1, id, new, i, a) = At(k, id, new, i, a)
      BY <2>2, AtNext
    <3> QED BY <1>3, <3>1 DEF Stage
  <2> QED BY <2>1, <2>2
<1> QED BY <1>2, <1>3 DEF Stage

\* The entry of the document in an index is a leaf.
LEMMA OwnLeaf ==
  ASSUME NEW id, NEW new, Subject(id, new), NEW k \in Nat, k + 1 \in DOMAIN type.indices,
         NEW b, Stage(b, k, id, new), Kept(id) # Nothing
  PROVE  /\ Place(k + 1, id, Kept(id)) \in Held(k, id, new)
         /\ Place(k + 1, id, Kept(id)) \notin Others(k, id, new)
         /\ Leaf(Place(k + 1, id, Kept(id)), Others(k, id, new))
         /\ Held(k, id, new) \ {Place(k + 1, id, Kept(id))} = Others(k, id, new)
<1>0. PrimaryOK /\ id \in Ids /\ Kept(id) \in Docs
  BY KeptType DEF Subject, StoreOK
<1>j. PICK j \in DOMAIN type.indices : j = k + 1
  OBVIOUS
<1>1. PICK r : j = k + 1 /\ r = Place(j, id, Kept(id))
  BY <1>j
<1>2. Held(k, id, new) = Others(k, id, new) \cup {r}
  BY <1>1, HeldIs
<1>3. b.refs[r] = id
  <2>1. At(k, id, new, j, id) = Kept(id)
    BY <1>1, AtNext
  <2>2. At(k, id, new, j, id) # Nothing => b.refs[Place(j, id, At(k, id, new, j, id))] = id
    BY <1>0 DEF Stage
  <2> QED BY <1>1, <2>1, <2>2
<1>4. ASSUME NEW p \in Others(k, id, new), Leads(r, p) \/ Leads(p, r) PROVE FALSE
  <2>1. PICK i \in DOMAIN type.indices, a \in Ids :
          /\ i # j \/ a # id
          /\ At(k, id, new, i, a) # Nothing /\ p = Place(i, a, At(k, id, new, i, a))
    BY <1>1, <1>4 DEF Others
  <2>2. PICK d \in Docs : d = At(k, id, new, i, a)
    BY <2>1, AtType
  <2>3. b.refs[p] = a
    BY <2>1 DEF Stage
  <2>4. p = Place(i, a, d) /\ r = Place(j, id, Kept(id))
    BY <1>1, <2>1, <2>2
  <2>5. i = j /\ p = r
    <3>0. i = j /\ PathOf(i, d) = PathOf(j, Kept(id)) => (i \in d.within <=> j \in Kept(id).within)
      <4>1. i = j => a # id /\ d = Kept(a) /\ d # Nothing
        BY <2>1, <2>2 DEF At
      <4>2. StoreOK
        BY DEF Subject
      <4> QED BY <1>0, <4>1, <4>2, Beside
    <3>1. CASE Leads(r, p)
      BY <1>0, <2>4, <3>0, <3>1, PlacesApart
    <3>2. CASE Leads(p, r)
      <4>1. j = i /\ PathOf(j, Kept(id)) = PathOf(i, d) => (j \in Kept(id).within <=> i \in d.within)
        BY <3>0
      <4> QED BY <1>0, <2>4, <3>2, <4>1, PlacesApart
    <3> QED BY <1>4, <3>1, <3>2
  <2> QED BY <1>3, <2>1, <2>3, <2>5
<1>5. r \notin Others(k, id, new)
  <2>1. r \in Paths
    BY <1>0, <1>1, PlaceType
  <2>2. Leads(r, r)
    BY <2>1, PathType DEF Leads
  <2> QED BY <1>4, <2>2
<1> QED BY <1>1, <1>2, <1>4, <1>5 DEF Leaf

\* Removing the entry of the document from an index leaves the other ones,
\* and the trees that were inserted for one to come.
LEMMA StageRemove ==
  ASSUME NEW id, NEW new, Subject(id, new), NEW k \in Nat, k + 1 \in DOMAIN type.indices,
         NEW b, Stage(b, k, id, new), Kept(id) # Nothing,
         NEW c, NEW M, Shaped(c, Roots, Held(k, id, new), M), c.refs = b.refs,
         Leaf(Place(k + 1, id, Kept(id)), M)
  PROVE  /\ Without(DeleteUpTreeWhileEmpty(c, Place(k + 1, id, Kept(id))), k, id, new, M)
         /\ DeleteUpTreeWhileEmpty(c, Place(k + 1, id, Kept(id))).ok = c.ok
<1>1. PICK r : r = Place(k + 1, id, Kept(id))
  OBVIOUS
<1>2. /\ r \in Held(k, id, new) /\ r \notin Others(k, id, new) /\ Leaf(r, Others(k, id, new))
      /\ Held(k, id, new) \ {r} = Others(k, id, new)
  BY <1>1, OwnLeaf
<1>3. r \in Paths /\ Leads(r, r)
  BY <1>2, HeldType, PathType DEF Leads
<1>4. r \notin M
  BY <1>1, <1>3 DEF Leaf
<1>5. Leaf(r, (Held(k, id, new) \cup M) \ {r})
  BY <1>1, <1>2 DEF Leaf
<1>6. PICK d : d = DeleteUpTreeWhileEmpty(c, r)
  OBVIOUS
<1>7. /\ Shaped(d, Roots, Held(k, id, new) \ {r}, M) /\ d.ok = c.ok
      /\ \A p \in Held(k, id, new) \ {r} : d.refs[p] = c.refs[p]
  BY <1>2, <1>4, <1>5, <1>6, DeleteOne
<1>8. ASSUME NEW i \in DOMAIN type.indices, NEW a \in Ids, i # k + 1 \/ a # id,
             At(k, id, new, i, a) # Nothing
      PROVE  d.refs[Place(i, a, At(k, id, new, i, a))] = a
  <2>1. PICK p : p = Place(i, a, At(k, id, new, i, a))
    OBVIOUS
  <2>2. p \in Paths
    <3>1. At(k, id, new, i, a) \in Docs
      BY <1>8, AtType
    <3> QED BY <2>1, <3>1, PlaceType DEF Subject, StoreOK
  <2>3. p \in Others(k, id, new)
    BY <1>8, <2>1, <2>2 DEF Others
  <2>4. c.refs[p] = a
    BY <1>8, <2>1 DEF Stage
  <2> QED BY <1>2, <1>7, <2>1, <2>3, <2>4
<1>9. Without(d, k, id, new, M)
  BY <1>2, <1>7, <1>8 DEF Without
<1> QED BY <1>1, <1>6, <1>7, <1>9

\* Inserting the new entry reaches the next stage.
LEMMA StageInsert ==
  ASSUME NEW id, NEW new, Subject(id, new), NEW k \in Nat, k + 1 \in DOMAIN type.indices,
         new # Nothing, NEW m \in Paths, NEW x \in Keys,
         NEW b, Without(b, k, id, new, {m}),
         Append(m, x) = Place(k + 1, id, new), Append(m, x) \notin Others(k, id, new)
  PROVE  /\ Stage(InsertReference(b, Append(m, x), id), k + 1, id, new)
         /\ InsertReference(b, Append(m, x), id).ok = b.ok
<1>1. PICK n : n = Append(m, x)
  OBVIOUS
<1>2. PICK d : d = InsertReference(b, n, id)
  OBVIOUS
<1>3. Ready(b, Roots, Others(k, id, new), m)
  BY DEF Without, Ready
<1>4. /\ Shaped(d, Roots, Others(k, id, new) \cup {n}, {}) /\ d.ok = b.ok /\ d.refs[n] = id
      /\ \A p \in Others(k, id, new) : p # n => d.refs[p] = b.refs[p]
  <2>1. ASSUME NEW R, Ready(b, Roots, R, m)
        PROVE  Inserted(b, Roots, R, id, n, d)
    BY <1>1, <1>2, <2>1, InsertLeaf
  <2> QED BY <1>3, <2>1 DEF Inserted
<1>5. Held(k + 1, id, new) = Others(k, id, new) \cup {n}
  BY <1>1, HeldIs
<1>6. ASSUME NEW i \in DOMAIN type.indices, NEW a \in Ids, At(k + 1, id, new, i, a) # Nothing
      PROVE  d.refs[Place(i, a, At(k + 1, id, new, i, a))] = a
  <2>1. CASE i = k + 1 /\ a = id
    <3>1. At(k + 1, id, new, i, a) = new
      BY <2>1, AtNext
    <3> QED BY <1>1, <1>4, <2>1, <3>1
  <2>2. CASE i # k + 1 \/ a # id
    <3>1. At(k + 1, id, new, i, a) = At(k, id, new, i, a)
      BY <2>2, AtNext
    <3>2. PICK p : p = Place(i, a, At(k, id, new, i, a))
      OBVIOUS
    <3>3. p \in Paths
      <4>1. At(k, id, new, i, a) \in Docs
        BY <1>6, <3>1, AtType
      <4> QED BY <3>2, <4>1, PlaceType DEF Subject, StoreOK
    <3>4. p \in Others(k, id, new)
      BY <1>6, <2>2, <3>1, <3>2, <3>3 DEF Others
    <3>5. b.refs[p] = a
      BY <1>6, <2>2, <3>1, <3>2 DEF Without
    <3>6. p # n
      BY <1>1, <3>4
    <3> QED BY <1>4, <3>1, <3>2, <3>4, <3>5, <3>6
  <2> QED BY <2>1, <2>2
<1>7. Stage(d, k + 1, id, new)
  BY <1>4, <1>5, <1>6 DEF Stage
<1> QED BY <1>1, <1>2, <1>4, <1>7

\* Before the first index every document is where it is stored.
LEMMA AtStart ==
  ASSUME NEW id, NEW new, Subject(id, new), NEW i \in DOMAIN type.indices, NEW a
  PROVE  At(0, id, new, i, a) = Kept(a)
<1>1. i \in Nat
  BY IndexType DEF Subject, StoreOK
<1>2. i # 0
  <2>1. type.indices \in Seq(Index)
    BY TypeAssumption DEF Subject, StoreOK, PrimaryOK, DocumentType
  <2> QED BY <2>1
<1>3. ~ (i <= 0)
  BY <1>1, <1>2
<1> QED BY <1>3 DEF At

\* The batch before the first index.
LEMMA StageStart ==
  ASSUME NEW id, NEW new, Subject(id, new)
  PROVE  Stage(NoChange, 0, id, new)
<1>0. PrimaryOK /\ StoreOK /\ ReferencesAgree /\ TreesAgree /\ id \in Ids
  BY DEF Subject, StoreOK
<1>1. PICK R : R = Held(0, id, new)
  OBVIOUS
<1>2. /\ R \in SUBSET Paths
      /\ \A p \in R : Len(p) >= 2 /\ \A q \in Paths : Len(q) = 1 /\ Leads(q, p) => q \in Roots
      /\ \A q \in Roots : q \in Paths /\ Len(q) = 1
  BY <1>1, HeldType
<1>3. ASSUME NEW i \in DOMAIN type.indices, NEW a \in Ids, Kept(a) # Nothing
      PROVE  /\ a \in Storing /\ Place(i, a, Kept(a)) \in Paths
             /\ Entry(type.indices[i], a) = Place(i, a, Kept(a))
  <2>1. a \in Storing /\ Kept(a) \in Docs
    BY <1>0, <1>3, KeptType
  <2> QED BY <1>0, <1>3, <2>1, KeptPlaces, PlaceType
<1>4. DOMAIN refs = R
  <2>1. ASSUME NEW p \in DOMAIN refs PROVE p \in R
    <3>1. PICK a \in Storing : p \in Entries(a)
      BY <1>0 DEF ReferencesAgree
    <3>2. a \in Ids /\ Kept(a) # Nothing
      BY <1>0, KeptType DEF Storing
    <3>3. PICK i \in DOMAIN type.indices : p = Entry(type.indices[i], a)
      BY <3>1 DEF Entries
    <3>4. p = Place(i, a, Kept(a)) /\ p \in Paths
      BY <1>3, <3>2, <3>3
    <3> QED BY <1>1, <3>2, <3>4, AtStart DEF Held
  <2>2. ASSUME NEW p \in R PROVE p \in DOMAIN refs
    <3>1. PICK i \in DOMAIN type.indices, a \in Ids :
            Kept(a) # Nothing /\ p = Place(i, a, Kept(a))
      BY <1>1, <2>2, AtStart DEF Held
    <3>2. a \in Storing /\ p = Entry(type.indices[i], a)
      BY <1>3, <3>1
    <3>3. p \in Entries(a)
      BY <3>2 DEF Entries
    <3> QED BY <1>0, <3>2, <3>3 DEF ReferencesAgree
  <2> QED BY <2>1, <2>2
<1>5. trees = Roots \cup Above(R)
  <2>1. UNION {{SubSeq(p, 1, k) : k \in 1 .. Len(p) - 1} : p \in R} = Above(R)
    BY <1>2, AboveIsUnion
  <2> QED BY <1>0, <1>4, <2>1 DEF TreesAgree, Roots
<1>6. Shaped(NoChange, Roots, R, {})
  <2>1. NoChange.refs = refs /\ NoChange.ok = TRUE
    BY DEF NoChange
  <2>2. Reach({}) = {}
    BY DEF Reach
  <2>3. NoChange = [trees |-> Roots \cup Above(R) \cup Reach({}), refs |-> NoChange.refs, ok |-> NoChange.ok]
    BY <1>5, <2>1, <2>2 DEF NoChange
  <2> QED BY <1>2, <1>4, <2>1, <2>3 DEF Shaped
<1>7. ASSUME NEW i \in DOMAIN type.indices, NEW a \in Ids, At(0, id, new, i, a) # Nothing
      PROVE  NoChange.refs[Place(i, a, At(0, id, new, i, a))] = a
  <2>1. At(0, id, new, i, a) = Kept(a) /\ Kept(a) # Nothing
    BY <1>7, AtStart
  <2>2. a \in Storing /\ Place(i, a, Kept(a)) \in Entries(a)
    BY <1>3, <2>1 DEF Entries
  <2>3. refs[Place(i, a, Kept(a))] = a
    BY <1>0, <2>2 DEF ReferencesAgree
  <2> QED BY <2>1, <2>3 DEF NoChange
<1> QED BY <1>1, <1>6, <1>7 DEF Stage

\* What is in the way of a path is an entry of a stored document or a tree
\* above one.
LEMMA RawLeads ==
  ASSUME NEW id, NEW new, Subject(id, new), NEW q \in Paths, Len(q) >= 2
  PROVE  HasRaw(q) <=> \E i \in DOMAIN type.indices, a \in Ids :
                         Kept(a) # Nothing /\ Leads(q, Place(i, a, Kept(a)))
<1>1. PICK R : R = Held(0, id, new)
  OBVIOUS
<1>2. Shaped(NoChange, Roots, R, {})
  BY <1>1, StageStart DEF Stage
<1>3. /\ Nodes(NoChange) = Roots \cup Above(R) \cup Reach({}) \cup R
      /\ NodesAre(NoChange, R, {})
  BY <1>2, ShapedNodes
<1>4. Nodes(NoChange) = trees \cup DOMAIN refs
  BY DEF Nodes, NoChange
<1>5. HasRaw(q) <=> q \in Reach(R \cup {})
  BY <1>3, <1>4 DEF NodesAre, HasRaw
<1>6. HasRaw(q) <=> \E p \in R : Leads(q, p)
  BY <1>5 DEF Reach
<1>7. ASSUME NEW p \in R, Leads(q, p)
      PROVE  \E i \in DOMAIN type.indices, a \in Ids :
               Kept(a) # Nothing /\ Leads(q, Place(i, a, Kept(a)))
  <2>1. PICK i \in DOMAIN type.indices, a \in Ids :
          Kept(a) # Nothing /\ p = Place(i, a, Kept(a))
    BY <1>1, <1>7, AtStart DEF Held
  <2> QED BY <1>7, <2>1
<1>8. ASSUME NEW i \in DOMAIN type.indices, NEW a \in Ids, Kept(a) # Nothing
      PROVE  Place(i, a, Kept(a)) \in R
  <2>1. Place(i, a, Kept(a)) \in Paths
    BY <1>8, KeptType, PlaceType DEF Subject, StoreOK
  <2> QED BY <1>1, <1>8, <2>1, AtStart DEF Held
<1> QED BY <1>6, <1>7, <1>8

\* A tree on the new path of an index that stood before the batch still stands.
LEMMA LevelRaw ==
  ASSUME NEW id, NEW new \in Docs, Subject(id, new), NEW k, NEW j \in DOMAIN type.indices,
         NEW q \in Paths, Len(q) >= 2, Leads(q, PathOf(j, new)), HasRaw(q)
  PROVE  q \in Above(Held(k, id, new))
<1>0. PrimaryOK /\ id \in Ids /\ Nothing \notin Docs
  BY NothingApart DEF Subject, StoreOK
<1>1. PICK i \in DOMAIN type.indices, a \in Ids :
        Kept(a) # Nothing /\ Leads(q, Place(i, a, Kept(a)))
  BY RawLeads
<1>2. PICK d \in Docs : d = Kept(a)
  BY <1>0, <1>1, KeptType
<1>3. Len(q) <= Depth(i) /\ Leads(q, PathOf(i, d))
  BY <1>0, <1>1, <1>2, LevelStops
<1>4. PICK e \in Docs : e = At(k, id, new, i, a) /\ Leads(q, PathOf(i, e))
  <2>1. CASE At(k, id, new, i, a) = Kept(a)
    BY <1>2, <1>3, <2>1
  <2>2. CASE At(k, id, new, i, a) = new
    <3>1. Leads(q, PathOf(i, new))
      BY <1>0, <1>3, ShiftedLevel
    <3> QED BY <2>2, <3>1
  <2> QED BY <2>1, <2>2 DEF At
<1>5. PICK p : p = Place(i, a, e)
  OBVIOUS
<1>6. p \in Paths /\ PathOf(i, e) \in Paths /\ Leads(PathOf(i, e), p)
  BY <1>0, <1>5, PlaceType
<1>7. Leads(q, p)
  BY <1>4, <1>6, LeadsOn
<1>8. Len(q) < Len(p) /\ Len(q) > 0
  <2>1. Depth(i) \in Nat /\ Len(p) \in Nat /\ Depth(i) < Len(p) /\ Len(q) \in Nat
    BY <1>0, <1>5, PlaceType, PlaceLong, PathType
  <2> QED BY <1>3, <2>1
<1>9. p \in Held(k, id, new)
  BY <1>0, <1>4, <1>5, <1>6 DEF Held
<1> QED BY <1>7, <1>8, <1>9 DEF Above

\* The end of a path is taken when a stored document has that path.
LEMMA ZeroRaw ==
  ASSUME NEW id, NEW new \in Docs, Subject(id, new), NEW j \in DOMAIN type.indices
  PROVE  HasRaw(Terminal(PathOf(j, new))) <=>
           \E a \in Ids : Kept(a) # Nothing /\ PathOf(j, Kept(a)) = PathOf(j, new)
<1>0. PrimaryOK /\ id \in Ids
  BY DEF Subject, StoreOK
<1>1. PICK z : z = Terminal(PathOf(j, new))
  OBVIOUS
<1>2. z \in Paths /\ Len(z) >= 2
  <2>1. z \in Paths /\ Len(z) = Depth(j) + 1 /\ Depth(j) \in Nat /\ Depth(j) >= 2
    BY <1>0, <1>1, PlaceType
  <2> QED BY <2>1
<1>3. HasRaw(z) <=> \E i \in DOMAIN type.indices, a \in Ids :
                         Kept(a) # Nothing /\ Leads(z, Place(i, a, Kept(a)))
  BY <1>2, RawLeads
<1>4. ASSUME NEW i \in DOMAIN type.indices, NEW a \in Ids,
             Kept(a) # Nothing, Leads(z, Place(i, a, Kept(a)))
      PROVE  PathOf(j, Kept(a)) = PathOf(j, new)
  <2>1. Kept(a) \in Docs
    BY <1>0, <1>4, KeptType
  <2>2. i = j /\ PathOf(i, Kept(a)) = PathOf(j, new)
    BY <1>0, <1>1, <1>4, <2>1, ZeroMeets
  <2> QED BY <2>2
<1>5. ASSUME NEW a \in Ids, Kept(a) # Nothing, PathOf(j, Kept(a)) = PathOf(j, new)
      PROVE  Leads(z, Place(j, a, Kept(a)))
  <2>1. Kept(a) \in Docs
    BY <1>0, <1>5, KeptType
  <2>2. Leads(Terminal(PathOf(j, Kept(a))), Place(j, a, Kept(a)))
    BY <1>0, <2>1, PlaceType
  <2> QED BY <1>1, <1>5, <2>2
<1> QED BY <1>1, <1>3, <1>4, <1>5

\* The document has no entry yet at its new path in index j.
Shifts(j, id, new) == Kept(id) = Nothing \/ PathOf(j, Kept(id)) # PathOf(j, new)

\* The new entry is none of the others.
LEMMA NewApart ==
  ASSUME NEW id, NEW new \in Docs, Subject(id, new), NEW k \in Nat, k + 1 \in DOMAIN type.indices,
         k + 1 \notin new.within => ~ HasRaw(Terminal(PathOf(k + 1, new)))
  PROVE  Place(k + 1, id, new) \notin Others(k, id, new)
<1>0. PrimaryOK /\ id \in Ids
  BY DEF Subject, StoreOK
<1>1. PICK j \in DOMAIN type.indices : j = k + 1
  OBVIOUS
<1> SUFFICES ASSUME Place(j, id, new) \in Others(k, id, new) PROVE FALSE
  BY <1>1
<1>2. PICK i \in DOMAIN type.indices, a \in Ids :
        /\ i # j \/ a # id
        /\ At(k, id, new, i, a) # Nothing
        /\ Place(j, id, new) = Place(i, a, At(k, id, new, i, a))
  BY <1>1 DEF Others
<1>3. PICK d \in Docs : d = At(k, id, new, i, a)
  BY <1>2, AtType
<1>4. Place(j, id, new) = Place(i, a, d) /\ Place(j, id, new) \in Paths
  BY <1>0, <1>2, <1>3, PlaceType
<1>5. Leads(Place(j, id, new), Place(i, a, d))
  BY <1>4, PathType DEF Leads
<1>6. i = j /\ PathOf(i, d) = PathOf(j, new) /\ (i \in d.within <=> j \in new.within)
      /\ (i \in d.within => a = id)
  <2>1. Leads(Terminal(PathOf(j, new)), Place(i, a, d))
    BY <1>0, <1>4, PlaceType
  <2>2. i = j /\ PathOf(i, d) = PathOf(j, new)
    BY <1>0, <2>1, ZeroMeets
  <2>3. Depth(i) \in Nat /\ Terminal(PathOf(i, d)) = Terminal(PathOf(j, new))
        /\ Len(Terminal(PathOf(i, d))) = Depth(i) + 1
    BY <1>0, <2>2, PlaceType
  <2>4. i \in d.within => Len(Place(i, a, d)) = Depth(i) + 2
    BY <1>0, PlaceType
  <2>5. i \notin d.within => Len(Place(i, a, d)) = Depth(i) + 1
    BY <2>3 DEF Place
  <2>6. j \in new.within => Len(Place(j, id, new)) = Depth(i) + 2
    BY <1>0, <2>2, PlaceType
  <2>7. j \notin new.within => Len(Place(j, id, new)) = Depth(i) + 1
    BY <2>3 DEF Place
  <2>8. i \in d.within <=> j \in new.within
    BY <1>4, <2>3, <2>4, <2>5, <2>6, <2>7
  <2> QED BY <1>0, <1>5, <2>2, <2>8, PlacesApart
<1>7. a # id /\ j \notin new.within
  BY <1>2, <1>6
<1>8. d = Kept(a)
  BY <1>3, <1>7 DEF At
<1>9. HasRaw(Terminal(PathOf(j, new)))
  BY <1>2, <1>3, <1>6, <1>8, ZeroRaw
<1> QED BY <1>1, <1>7, <1>9

\* The tree at the end of a path that stood before the batch still stands.
LEMMA ZeroStands ==
  ASSUME NEW id, NEW new \in Docs, Subject(id, new), NEW k \in Nat, k + 1 \in DOMAIN type.indices,
         Shifts(k + 1, id, new), Terminal(PathOf(k + 1, new)) \notin DOMAIN refs,
         HasRaw(Terminal(PathOf(k + 1, new)))
  PROVE  Terminal(PathOf(k + 1, new)) \in Above(Others(k, id, new))
<1>0. PrimaryOK /\ id \in Ids
  BY DEF Subject, StoreOK
<1>j. PICK j \in DOMAIN type.indices : j = k + 1
  OBVIOUS
<1>1. PICK z : j = k + 1 /\ z = Terminal(PathOf(j, new))
  BY <1>j
<1>2. PICK a \in Ids : Kept(a) # Nothing /\ PathOf(j, Kept(a)) = PathOf(j, new)
  BY <1>1, ZeroRaw
<1>3. a # id
  BY <1>1, <1>2 DEF Shifts
<1>4. PICK d \in Docs : d = Kept(a)
  BY <1>0, <1>2, KeptType
<1>5. At(k, id, new, j, a) = d
  BY <1>3, <1>4 DEF At
<1>6. PICK p : p = Place(j, a, d)
  OBVIOUS
<1>7. p \in Paths /\ p = Append(z, a) /\ Len(p) = Depth(j) + 2
  <2>1. Terminal(PathOf(j, d)) = z /\ z \notin DOMAIN refs
    BY <1>1, <1>2, <1>4
  <2>2. p \in DOMAIN refs
    BY <1>2, <1>4, <1>6, KeptPlaces DEF Subject
  <2>3. j \in d.within
    BY <1>6, <2>1, <2>2 DEF Place
  <2> QED BY <1>0, <1>6, <2>1, <2>3, PlaceType
<1>8. z \in Paths /\ Len(z) = Depth(j) + 1 /\ Depth(j) \in Nat /\ Leads(z, p)
  <2>1. z = Terminal(PathOf(j, d))
    BY <1>1, <1>2, <1>4
  <2> QED BY <1>0, <1>6, <2>1, PlaceType
<1>9. p \in Others(k, id, new)
  <2>1. d # Nothing
    BY <1>2, <1>4
  <2> QED BY <1>1, <1>3, <1>5, <1>6, <1>7, <2>1 DEF Others
<1>10. Len(z) > 0 /\ Len(z) < Len(p)
  BY <1>7, <1>8
<1> QED BY <1>1, <1>8, <1>9, <1>10 DEF Above

\* The levels of a path.
LEMMA LevelsReach ==
  ASSUME NEW p \in Paths
  PROVE  Levels(p) = Reach({p})
<1>0. Len(p) \in Nat
  BY PathType
<1>1. ASSUME NEW l \in 2 .. Len(p) PROVE SubSeq(p, 1, l) \in Reach({p})
  <2>1. l \in 0 .. Len(p) /\ l >= 2
    BY <1>0
  <2> QED BY <2>1, CutPath DEF Reach
<1>2. ASSUME NEW q \in Reach({p}) PROVE Len(q) \in 2 .. Len(p) /\ q = SubSeq(p, 1, Len(q))
  <2>1. q \in Paths /\ Len(q) \in Nat /\ Len(q) >= 2 /\ Leads(q, p)
    BY PathType DEF Reach
  <2>2. Len(q) \in 2 .. Len(p) /\ Len(q) \in 0 .. Len(p)
    BY <1>0, <2>1 DEF Leads
  <2> QED BY <2>1, <2>2, CutPath
<1> QED BY <1>1, <1>2 DEF Levels

\* The new entry in the tree at the end of a path.
LEMMA InsertShared ==
  ASSUME NEW id, NEW new \in Docs, Subject(id, new), NEW k \in Nat, k + 1 \in DOMAIN type.indices,
         k + 1 \in new.within, Shifts(k + 1, id, new),
         NEW b, Without(b, k, id, new, {PathOf(k + 1, new)}),
         NEW z, z = Terminal(PathOf(k + 1, new)), z \notin DOMAIN refs,
         NEW c, c = InsertReference(InsertEmptyTreesIfNotExist(b, {z}), Append(z, id), id)
  PROVE  Stage(c, k + 1, id, new) /\ c.ok = b.ok
<1>0. PrimaryOK /\ id \in Ids /\ Nothing \notin Docs
  BY NothingApart DEF Subject, StoreOK
<1>j. PICK j \in DOMAIN type.indices : j = k + 1
  OBVIOUS
<1>1. PICK p : j = k + 1 /\ p = PathOf(j, new)
  BY <1>j
<1>2. /\ p \in Paths /\ z \in Paths /\ Leads(p, z) /\ Len(p) = Depth(j) /\ Len(z) = Depth(j) + 1
      /\ Depth(j) \in Nat /\ Depth(j) >= 2
      /\ Place(j, id, new) = Append(z, id)
  BY <1>0, <1>1, PlaceType
<1>3. z = Append(p, "0") /\ "0" \in Keys /\ id \in Keys
  BY <1>0, <1>1 DEF Terminal, Keys
<1>4. \A q \in Paths : Leads(q, z) /\ Len(q) <= Len(p) => Leads(q, p)
  <2>1. \A q \in Paths : Leads(q, Append(p, "0")) /\ Len(q) <= Len(p) => Leads(q, p)
    BY <1>2, <1>3, AppendPath
  <2> QED BY <1>3, <2>1
<1>5. \A q \in Paths : Len(q) = 1 /\ Leads(q, p) => q \in Roots
  BY <1>0, <1>1, RootsLead
<1>6. \A q \in Paths : Len(q) = 1 /\ Leads(q, z) => q \in Roots
  <2>1. ASSUME NEW q \in Paths, Len(q) = 1, Leads(q, z) PROVE q \in Roots
    <3>1. Len(q) <= Len(p)
      BY <1>2, <2>1
    <3> QED BY <1>4, <1>5, <2>1, <3>1
  <2> QED BY <2>1
<1>7. z \in Reach({z}) /\ \A q \in Reach({p}) : q \in Reach({z})
  <2>1. Len(z) >= 2 /\ Leads(z, z)
    BY <1>2 DEF Leads
  <2>2. ASSUME NEW q \in Reach({p}) PROVE q \in Reach({z})
    <3>1. q \in Paths /\ Len(q) >= 2 /\ Leads(q, p)
      BY DEF Reach
    <3>2. Leads(q, z)
      BY <1>2, <3>1, LeadsOn
    <3> QED BY <3>1, <3>2 DEF Reach
  <2> QED BY <1>2, <2>1, <2>2 DEF Reach
<1>8. ASSUME NEW q \in Reach({z}) PROVE q = z \/ q \in Reach({p})
  <2>1. q \in Paths /\ Len(q) \in Nat /\ Len(q) >= 2 /\ Leads(q, z) /\ Len(q) <= Len(z)
    BY PathType DEF Reach, Leads
  <2>2. CASE Len(q) = Len(z)
    BY <1>2, <2>1, <2>2, PathsEqual
  <2>3. CASE Len(q) <= Len(p)
    BY <1>4, <2>1, <2>3 DEF Reach
  <2>4. Len(q) = Len(z) \/ Len(q) <= Len(p)
    <3>1. \A x, y \in Nat : x <= y + 1 => x = y + 1 \/ x <= y
      OBVIOUS
    <3> QED BY <1>2, <2>1, <3>1
  <2> QED BY <2>2, <2>3, <2>4
<1>9. HasRaw(z) => z \in Above(Others(k, id, new))
  BY <1>1, ZeroStands
<1>10. PICK d : d = InsertEmptyTreesIfNotExist(b, {z})
  OBVIOUS
<1>11. /\ Shaped(d, Roots, Others(k, id, new), {z}) /\ d.ok = b.ok /\ d.refs = b.refs
  <2>1. Shaped(b, Roots, Others(k, id, new), {p})
    BY <1>1 DEF Without
  <2>2. Len(z) >= 2
    BY <1>2
  <2>3. \A q \in {z} : q \in Reach({z})
    BY <1>7
  <2>4. \A q \in Reach({z}) : q \in {z} \/ q \in Above(Others(k, id, new)) \/ q \in Reach({p})
    BY <1>8
  <2>5. \A q \in {z} : HasRaw(q) => q \in Above(Others(k, id, new)) \/ q \in Reach({p})
    BY <1>9
  <2>6. Completes(Roots, Others(k, id, new), {p}, {z}, z)
    BY <1>2, <1>6, <1>7, <2>2, <2>3, <2>4, <2>5 DEF Completes
  <2>7. PICK O, M, Z : O = Others(k, id, new) /\ M = {p} /\ Z = {z}
    OBVIOUS
  <2>8. Shaped(b, Roots, O, M) /\ Completes(Roots, O, M, Z, z) /\ d = InsertEmptyTreesIfNotExist(b, Z)
    BY <1>10, <2>1, <2>6, <2>7
  <2>9. Shaped(d, Roots, O, {z}) /\ d.ok = b.ok /\ d.refs = b.refs
    BY <2>8, InsertTrees
  <2> QED BY <2>7, <2>9
<1>12. Without(d, k, id, new, {z})
  BY <1>11 DEF Without
<1>13. Append(z, id) \notin Others(k, id, new)
  BY <1>1, <1>2, NewApart
<1>14. c = InsertReference(d, Append(z, id), id)
  BY <1>10
<1>15. new # Nothing /\ Append(z, id) = Place(k + 1, id, new)
  BY <1>0, <1>1, <1>2
<1> QED BY <1>2, <1>3, <1>11, <1>12, <1>13, <1>14, <1>15, StageInsert

\* The new entry at the end of a path.
LEMMA InsertUnique ==
  ASSUME NEW id, NEW new \in Docs, Subject(id, new), NEW k \in Nat, k + 1 \in DOMAIN type.indices,
         k + 1 \notin new.within,
         NEW b, Without(b, k, id, new, {PathOf(k + 1, new)}),
         NEW z, z = Terminal(PathOf(k + 1, new)), ~ HasRaw(z),
         NEW c, c = InsertReference(b, z, id)
  PROVE  Stage(c, k + 1, id, new) /\ c.ok = b.ok
<1>0. PrimaryOK /\ id \in Ids /\ Nothing \notin Docs
  BY NothingApart DEF Subject, StoreOK
<1>j. PICK j \in DOMAIN type.indices : j = k + 1
  OBVIOUS
<1>1. PICK p : j = k + 1 /\ p = PathOf(j, new)
  BY <1>j
<1>2. p \in Paths /\ Place(j, id, new) = z
  BY <1>0, <1>1, PlaceType
<1>3. z = Append(p, "0") /\ "0" \in Keys
  BY <1>1 DEF Terminal, Keys
<1>4. z \notin Others(k, id, new)
  BY <1>1, <1>2, NewApart
<1>5. new # Nothing /\ Append(p, "0") = Place(k + 1, id, new) /\ Append(p, "0") \notin Others(k, id, new)
      /\ Without(b, k, id, new, {p}) /\ c = InsertReference(b, Append(p, "0"), id)
  BY <1>0, <1>1, <1>2, <1>3, <1>4
<1> QED BY <1>2, <1>3, <1>5, StageInsert

\* A batch of which nothing is known but that it is one.
IsBatch(b) == \E t, f : \E o \in BOOLEAN : b = [trees |-> t, refs |-> f, ok |-> o]

\* Once an operation failed the batch is refused.
KeepsBatch(b, c) == IsBatch(c) /\ (b.ok = FALSE => c.ok = FALSE)

\* Records of the parts of a batch are batches.
LEMMA BatchRecord ==
  ASSUME NEW t, NEW f, NEW o \in BOOLEAN, NEW c, c = [trees |-> t, refs |-> f, ok |-> o]
  PROVE  IsBatch(c) /\ c.ok = o
<1>1. c.ok = o
  OBVIOUS
<1>2. \E t1, f1 : \E o1 \in BOOLEAN : c = [trees |-> t1, refs |-> f1, ok |-> o1]
  BY Zenon
<1> QED BY <1>1, <1>2 DEF IsBatch

\* The operations on trees and references, on any batch.
LEMMA BatchOperations ==
  ASSUME NEW b, IsBatch(b), NEW x, NEW y
  PROVE  /\ KeepsBatch(b, InsertEmptyTreesIfNotExist(b, x))
         /\ KeepsBatch(b, InsertReference(b, x, y))
         /\ KeepsBatch(b, InsertReferenceIfNotExists(b, x, y))
         /\ KeepsBatch(b, DeleteUpTreeWhileEmpty(b, x))
<1>0. PICK t, f, o : o \in BOOLEAN /\ b = [trees |-> t, refs |-> f, ok |-> o]
  BY DEF IsBatch
<1>1. b = [trees |-> t, refs |-> f, ok |-> o]
  BY <1>0
<1>11. o \in BOOLEAN /\ b.ok = o
  BY <1>0
<1>12. ASSUME NEW u, NEW g, NEW v \in BOOLEAN, o = FALSE => v = FALSE,
              NEW c, c = [trees |-> u, refs |-> g, ok |-> v]
       PROVE  KeepsBatch(b, c)
  <2>1. IsBatch(c) /\ c.ok = v
    BY <1>12, BatchRecord
  <2> QED BY <1>11, <1>12, <2>1 DEF KeepsBatch
<1>2. KeepsBatch(b, InsertEmptyTreesIfNotExist(b, x))
  <2>1. PICK u : u = t \cup {p \in x : ~ HasRaw(p)}
    OBVIOUS
  <2>2. PICK c : c = InsertEmptyTreesIfNotExist(b, x)
    OBVIOUS
  <2>3. c = [trees |-> u, refs |-> f, ok |-> o]
    BY <1>1, <2>1, <2>2 DEF InsertEmptyTreesIfNotExist
  <2> QED BY <1>11, <1>12, <2>2, <2>3
<1>3. KeepsBatch(b, InsertReference(b, x, y))
  <2>1. PICK g : g = [p \in {x} \cup DOMAIN f |-> IF p = x THEN y ELSE f[p]]
    OBVIOUS
  <2>2. InsertReference(b, x, y) = [trees |-> t, refs |-> g, ok |-> o]
    BY <1>1, <2>1 DEF InsertReference
  <2> QED BY <1>11, <1>12, <2>2
<1>4. KeepsBatch(b, [b EXCEPT !.ok = FALSE])
  <2>1. PICK v \in BOOLEAN : v = FALSE
    OBVIOUS
  <2>2. PICK c : c = [b EXCEPT !.ok = v]
    OBVIOUS
  <2>3. c = [trees |-> t, refs |-> f, ok |-> v]
    BY <1>1, <2>2
  <2>4. KeepsBatch(b, c)
    BY <1>12, <2>1, <2>3
  <2> QED BY <2>1, <2>2, <2>4
<1>5. KeepsBatch(b, InsertReferenceIfNotExists(b, x, y))
  BY <1>3, <1>4 DEF InsertReferenceIfNotExists
<1>6. KeepsBatch(b, DeleteUpTreeWhileEmpty(b, x))
  <2>1. CASE x \notin Nodes(b)
    BY <1>4, <2>1 DEF DeleteUpTreeWhileEmpty
  <2>2. CASE x \in Nodes(b) /\ Children(b, x) # {}
    BY <1>4, <2>2 DEF DeleteUpTreeWhileEmpty
  <2>3. CASE x \in Nodes(b) /\ Children(b, x) = {}
    <3>1. PICK gone : gone = UpTreeWhileEmpty(b, x)
      OBVIOUS
    <3>2. DeleteUpTreeWhileEmpty(b, x) = [b EXCEPT !.trees = @ \ gone, !.refs = Restrict(@, DOMAIN @ \ gone)]
      BY <2>3, <3>1 DEF DeleteUpTreeWhileEmpty
    <3>3. DeleteUpTreeWhileEmpty(b, x) = [trees |-> t \ gone, refs |-> Restrict(f, DOMAIN f \ gone), ok |-> o]
      BY <1>1, <3>2
    <3> QED BY <1>11, <1>12, <3>3
  <2> QED BY <2>1, <2>2, <2>3
<1> QED BY <1>2, <1>3, <1>5, <1>6

\* The operations on an index, on any batch.
LEMMA IndexOperations ==
  ASSUME NEW b, IsBatch(b), NEW index, NEW id, NEW old, NEW new
  PROVE  /\ KeepsBatch(b, AddToIndex(b, index, id, new))
         /\ KeepsBatch(b, MoveInIndex(b, index, id, old, new))
         /\ KeepsBatch(b, RemoveFromIndex(b, index, id, old))
<1>1. ASSUME NEW c, KeepsBatch(b, c), NEW x, NEW y
      PROVE  /\ KeepsBatch(b, InsertEmptyTreesIfNotExist(c, x))
             /\ KeepsBatch(b, InsertReference(c, x, y))
             /\ KeepsBatch(b, InsertReferenceIfNotExists(c, x, y))
             /\ KeepsBatch(b, DeleteUpTreeWhileEmpty(c, x))
  <2>1. IsBatch(c)
    BY <1>1 DEF KeepsBatch
  <2>2. /\ KeepsBatch(c, InsertEmptyTreesIfNotExist(c, x))
        /\ KeepsBatch(c, InsertReference(c, x, y))
        /\ KeepsBatch(c, InsertReferenceIfNotExists(c, x, y))
        /\ KeepsBatch(c, DeleteUpTreeWhileEmpty(c, x))
    BY <2>1, BatchOperations
  <2> QED BY <1>1, <2>2 DEF KeepsBatch
<1>2. KeepsBatch(b, b)
  BY DEF KeepsBatch
<1>3. PICK p, z : p = IndexPath(index.properties, new) /\ z = Terminal(p)
  OBVIOUS
<1>4. ASSUME NEW c, KeepsBatch(b, c)
      PROVE  /\ KeepsBatch(b, InsertReference(InsertEmptyTreesIfNotExist(c, {z}), Append(z, id), id))
             /\ KeepsBatch(b, InsertReferenceIfNotExists(c, z, id))
  <2>1. KeepsBatch(b, InsertEmptyTreesIfNotExist(c, {z})) /\ KeepsBatch(b, InsertReferenceIfNotExists(c, z, id))
    BY <1>1, <1>4
  <2> QED BY <1>1, <2>1
<1>5. KeepsBatch(b, AddToIndex(b, index, id, new))
  <2>1. PICK c : c = InsertEmptyTreesIfNotExist(b, Levels(p)) /\ KeepsBatch(b, c)
    BY <1>1, <1>2
  <2>2. AddToIndex(b, index, id, new) =
          IF ~ index.unique \/ AnyFieldEmpty(index, new)
          THEN InsertReference(InsertEmptyTreesIfNotExist(c, {z}), Append(z, id), id)
          ELSE InsertReferenceIfNotExists(c, z, id)
    BY <1>3, <2>1 DEF AddToIndex
  <2> QED BY <1>4, <2>1, <2>2
<1>6. KeepsBatch(b, RemoveFromIndex(b, index, id, old))
  BY <1>1, <1>2 DEF RemoveFromIndex
<1>7. KeepsBatch(b, MoveInIndex(b, index, id, old, new))
  <2>1. PICK d : d = InsertEmptyTreesIfNotExist(b, ChangedLevels(index.properties, old, new)) /\ KeepsBatch(b, d)
    BY <1>1, <1>2
  <2>2. PICK c : c = RemoveFromIndex(d, index, id, old) /\ KeepsBatch(b, c)
    BY <1>1, <2>1 DEF RemoveFromIndex
  <2>3. MoveInIndex(b, index, id, old, new) =
          IF IndexPath(index.properties, old) = p THEN b
          ELSE IF ~ index.unique \/ AllFieldsEmpty(index, new)
          THEN InsertReference(InsertEmptyTreesIfNotExist(c, {z}), Append(z, id), id)
          ELSE InsertReferenceIfNotExists(c, z, id)
    BY <1>3, <2>1, <2>2 DEF MoveInIndex
  <2> QED BY <1>2, <1>4, <2>2, <2>3
<1> QED BY <1>5, <1>6, <1>7

\* A batch is refused in two ways: an operation failed, or, as adds may, it
\* inserts an element below a reference that stood before.
Blocked(b) == \E q \in DOMAIN b.refs : Len(q) > 1 /\ Front(q) \in DOMAIN refs
Failed(op, b) == b.ok = FALSE \/ (op = "add" /\ Blocked(b))

\* A batch puts no tree where a reference stood before.
Clean(b) == b.trees \cap DOMAIN refs = {}

\* What adds keep.
KeepsAdd(b, c) == (Clean(b) => Clean(c)) /\ (Blocked(b) => Blocked(c))

\* Inserting keeps it.
LEMMA AddOperations ==
  ASSUME NEW b, IsBatch(b), NEW x, NEW y
  PROVE  /\ KeepsAdd(b, InsertEmptyTreesIfNotExist(b, x))
         /\ KeepsAdd(b, InsertReference(b, x, y))
         /\ KeepsAdd(b, InsertReferenceIfNotExists(b, x, y))
<1>0. PICK t, f, o : o \in BOOLEAN /\ b = [trees |-> t, refs |-> f, ok |-> o]
  BY DEF IsBatch
<1>1. b.trees = t /\ b.refs = f
  BY <1>0
<1>2. ASSUME NEW c, c.trees = t, DOMAIN f \subseteq DOMAIN c.refs PROVE KeepsAdd(b, c)
  BY <1>1, <1>2 DEF KeepsAdd, Clean, Blocked
<1>3. KeepsAdd(b, InsertEmptyTreesIfNotExist(b, x))
  <2>1. PICK c : c = InsertEmptyTreesIfNotExist(b, x)
    OBVIOUS
  <2>2. c.trees = t \cup {p \in x : ~ HasRaw(p)} /\ c.refs = f
    BY <1>0, <2>1 DEF InsertEmptyTreesIfNotExist
  <2>3. Clean(b) => Clean(c)
    BY <1>1, <2>2 DEF Clean, HasRaw
  <2>4. Blocked(b) => Blocked(c)
    BY <1>1, <2>2 DEF Blocked
  <2> QED BY <2>1, <2>3, <2>4 DEF KeepsAdd
<1>4. KeepsAdd(b, InsertReference(b, x, y))
  <2>1. PICK c : c = InsertReference(b, x, y)
    OBVIOUS
  <2>2. c.trees = t /\ c.refs = [p \in {x} \cup DOMAIN f |-> IF p = x THEN y ELSE f[p]]
    BY <1>0, <2>1 DEF InsertReference
  <2>3. DOMAIN f \subseteq DOMAIN c.refs
    BY <2>2
  <2> QED BY <1>2, <2>1, <2>2, <2>3
<1>5. KeepsAdd(b, [b EXCEPT !.ok = FALSE])
  <2>1. PICK c : c = [b EXCEPT !.ok = FALSE]
    OBVIOUS
  <2>2. c.trees = t /\ c.refs = f
    BY <1>0, <2>1
  <2> QED BY <1>2, <2>1, <2>2
<1>6. KeepsAdd(b, InsertReferenceIfNotExists(b, x, y))
  BY <1>4, <1>5 DEF InsertReferenceIfNotExists
<1> QED BY <1>3, <1>4, <1>6

\* So does adding a document to an index.
LEMMA AddKeeps ==
  ASSUME NEW b, IsBatch(b), NEW index, NEW id, NEW data
  PROVE  KeepsAdd(b, AddToIndex(b, index, id, data))
<1>1. PICK p, z : p = IndexPath(index.properties, data) /\ z = Terminal(p)
  OBVIOUS
<1>2. PICK c : c = InsertEmptyTreesIfNotExist(b, Levels(p))
  OBVIOUS
<1>3. IsBatch(c) /\ KeepsAdd(b, c)
  BY <1>2, BatchOperations, AddOperations DEF KeepsBatch
<1>4. PICK d : d = InsertEmptyTreesIfNotExist(c, {z})
  OBVIOUS
<1>5. IsBatch(d) /\ KeepsAdd(c, d)
  BY <1>3, <1>4, BatchOperations, AddOperations DEF KeepsBatch
<1>6. KeepsAdd(d, InsertReference(d, Append(z, id), id)) /\ KeepsAdd(c, InsertReferenceIfNotExists(c, z, id))
  BY <1>3, <1>5, AddOperations
<1>7. AddToIndex(b, index, id, data) =
        IF ~ index.unique \/ AnyFieldEmpty(index, data)
        THEN InsertReference(d, Append(z, id), id) ELSE InsertReferenceIfNotExists(c, z, id)
  BY <1>1, <1>2, <1>4 DEF AddToIndex
<1> QED BY <1>3, <1>5, <1>6, <1>7 DEF KeepsAdd

\* No batch that failed can be applied.
LEMMA FailedRefused ==
  ASSUME NEW op, NEW b, op = "add" => Clean(b), Failed(op, b)
  PROVE  ~ Applicable(b)
<1> SUFFICES ASSUME Applicable(b) PROVE FALSE
  OBVIOUS
<1>1. b.ok /\ \A p \in DOMAIN b.refs : Len(p) > 1 => Front(p) \in b.trees
  BY DEF Applicable, Nodes
<1>2. op = "add" /\ Blocked(b) /\ Clean(b)
  BY <1>1 DEF Failed
<1> QED BY <1>1, <1>2 DEF Blocked, Clean

\* Whether index i admits the document: the place of the new entry may not be
\* taken, nor the tree it is to stand in be a reference.
Fits(i, id, new) ==
  Shifts(i, id, new) =>
    /\ i \in new.within => Terminal(PathOf(i, new)) \notin DOMAIN refs
    /\ i \notin new.within => ~ HasRaw(Terminal(PathOf(i, new)))

\* Whether the document can be removed from index i: it is looked for at the end
\* of the path of a unique index.
Loose(i, id) == type.indices[i].unique => i \notin Kept(id).within

\* The parts of the path of a document in index j.
LEMMA PathParts ==
  ASSUME NEW id, NEW new \in Docs, Subject(id, new), NEW j \in DOMAIN type.indices
  PROVE  /\ PathOf(j, new) \in Paths /\ Len(PathOf(j, new)) >= 2
         /\ Len(PathOf(j, new)) = Depth(j) /\ Depth(j) \in Nat
         /\ \A q \in Paths : Len(q) = 1 /\ Leads(q, PathOf(j, new)) => q \in Roots
         /\ Levels(PathOf(j, new)) = Reach({PathOf(j, new)})
<1>0. PrimaryOK /\ Nothing \notin Docs /\ id \in Ids
  BY NothingApart DEF Subject, StoreOK
<1>1. PathOf(j, new) \in Paths /\ Len(PathOf(j, new)) = Depth(j) /\ Depth(j) >= 2 /\ Depth(j) \in Nat
  BY <1>0, PlaceType
<1>2. \A q \in Paths : Len(q) = 1 /\ Leads(q, PathOf(j, new)) => q \in Roots
  BY <1>0, RootsLead
<1>3. Levels(PathOf(j, new)) = Reach({PathOf(j, new)})
  BY <1>1, LevelsReach
<1> QED BY <1>1, <1>2, <1>3

\* Two documents have the same path in an index when they agree on its
\* properties.
LEMMA SamePath ==
  ASSUME PrimaryOK, NEW i \in DOMAIN type.indices, NEW d \in Docs, NEW e \in Docs
  PROVE  PathOf(i, d) = PathOf(i, e) <=> \A p \in Range(type.indices[i].properties) : d.data[p] = e.data[p]
<1>1. PICK ps \in Seq(Properties), n \in Nat \ {0} :
        /\ ps = Names(i) /\ n = Len(ps)
        /\ PathOf(i, d) \in Paths /\ Len(PathOf(i, d)) = 2 * n
        /\ \A t \in 1 .. n : PathOf(i, d)[2 * t - 1] = ps[t] /\ PathOf(i, d)[2 * t] = d.data[ps[t]]
  <2>1. /\ Names(i) \in Seq(Properties) /\ Len(Names(i)) \in Nat \ {0}
        /\ PathOf(i, d) \in Paths /\ Len(PathOf(i, d)) = 2 * Len(Names(i))
    BY PathKeys
  <2>2. \A t \in 1 .. Len(Names(i)) : /\ PathOf(i, d)[2 * t - 1] = Names(i)[t]
                                      /\ PathOf(i, d)[2 * t] = d.data[Names(i)[t]]
    BY PathKeys
  <2> QED BY <2>1, <2>2
<1>2. /\ PathOf(i, e) \in Paths /\ Len(PathOf(i, e)) = 2 * n
      /\ \A t \in 1 .. n : PathOf(i, e)[2 * t - 1] = ps[t] /\ PathOf(i, e)[2 * t] = e.data[ps[t]]
  BY <1>1, PathKeys
<1>3. Range(type.indices[i].properties) = {ps[t] : t \in 1 .. n}
  <2>1. ps = type.indices[i].properties /\ DOMAIN ps = 1 .. n
    BY <1>1 DEF Names
  <2> QED BY <2>1 DEF Range
<1>4. ASSUME PathOf(i, d) = PathOf(i, e), NEW t \in 1 .. n PROVE d.data[ps[t]] = e.data[ps[t]]
  BY <1>1, <1>2, <1>4
<1>5. ASSUME \A t \in 1 .. n : d.data[ps[t]] = e.data[ps[t]] PROVE PathOf(i, d) = PathOf(i, e)
  <2>1. ASSUME NEW u \in 1 .. 2 * n PROVE PathOf(i, d)[u] = PathOf(i, e)[u]
    <3>1. PICK t \in 1 .. n : u = 2 * t - 1 \/ u = 2 * t
      BY <1>1, PathPositions
    <3>2. CASE u = 2 * t - 1
      BY <1>1, <1>2, <3>1, <3>2
    <3>3. CASE u = 2 * t
      BY <1>1, <1>2, <1>5, <3>1, <3>3
    <3> QED BY <3>1, <3>2, <3>3
  <2>2. Leads(PathOf(i, d), PathOf(i, e))
    BY <1>1, <1>2, <2>1 DEF Leads
  <2> QED BY <1>1, <1>2, <2>2, PathsEqual
<1>6. PathOf(i, d) = PathOf(i, e) <=> \A t \in 1 .. n : d.data[ps[t]] = e.data[ps[t]]
  BY <1>4, <1>5
<1> QED BY <1>3, <1>6

\* Whether properties of an index are empty can be told from the path.
LEMMA EmptySame ==
  ASSUME PrimaryOK, NEW i \in DOMAIN type.indices, NEW d \in Docs, NEW e \in Docs,
         PathOf(i, d) = PathOf(i, e)
  PROVE  /\ AnyFieldEmpty(type.indices[i], d.data) <=> AnyFieldEmpty(type.indices[i], e.data)
         /\ AllFieldsEmpty(type.indices[i], d.data) <=> AllFieldsEmpty(type.indices[i], e.data)
<1>1. \A p \in Range(type.indices[i].properties) : d.data[p] = e.data[p]
  BY SamePath
<1>2. \A k \in DOMAIN type.indices[i].properties :
        d.data[type.indices[i].properties[k]] = e.data[type.indices[i].properties[k]]
  BY <1>1 DEF Range
<1> QED BY <1>2 DEF AnyFieldEmpty, AllFieldsEmpty

\* What stands at the end of a path that an entry in a tree belongs to, when the
\* index is not unique or all properties are empty, is no reference.
LEMMA AllEmptyApart ==
  ASSUME NEW id, NEW new \in Docs, Subject(id, new), NEW j \in DOMAIN type.indices,
         ~ type.indices[j].unique \/ AllFieldsEmpty(type.indices[j], new.data)
  PROVE  Terminal(PathOf(j, new)) \notin DOMAIN refs
<1>0. PrimaryOK /\ StoreOK /\ id \in Ids
  BY DEF Subject, StoreOK
<1> SUFFICES ASSUME Terminal(PathOf(j, new)) \in DOMAIN refs PROVE FALSE
  OBVIOUS
<1>1. PICK z : z = Terminal(PathOf(j, new))
  OBVIOUS
<1>2. PICK a \in Storing : z \in Entries(a)
  BY <1>0, <1>1 DEF StoreOK, ReferencesAgree
<1>3. a \in Ids /\ Kept(a) # Nothing /\ Kept(a) \in Docs
  BY <1>0, KeptType DEF Storing
<1>4. PICK i \in DOMAIN type.indices : z = Place(i, a, Kept(a))
  BY <1>0, <1>2, <1>3, KeptPlaces DEF Entries
<1>5. z \in Paths /\ Leads(z, z)
  BY <1>0, <1>1, PlaceType, PathType DEF Leads
<1>d. PICK d \in Docs : d = Kept(a)
  BY <1>3
<1>6. i = j /\ PathOf(i, d) = PathOf(j, new)
  <2>1. Leads(Terminal(PathOf(j, new)), Place(i, a, d))
    BY <1>1, <1>4, <1>5, <1>d
  <2> QED BY <1>0, <1>3, <2>1, ZeroMeets
<1>7. j \in d.within
  <2>1. AllFieldsEmpty(type.indices[j], d.data) <=> AllFieldsEmpty(type.indices[j], new.data)
    BY <1>0, <1>6, EmptySame
  <2>2. Laid(d)
    BY <1>0, <1>3, <1>d, KeptPlaces
  <2> QED BY <2>1, <2>2 DEF Laid
<1>8. Len(z) = Depth(j) + 2 /\ Len(z) = Depth(j) + 1 /\ Depth(j) \in Nat
  <2>1. Place(j, a, d) = z
    BY <1>4, <1>6, <1>d
  <2>2. Len(Place(j, a, d)) = Depth(j) + 2
    BY <1>0, <1>3, <1>7, PlaceType
  <2>3. Len(Terminal(PathOf(j, new))) = Depth(j) + 1 /\ Depth(j) \in Nat
    BY <1>0, PlaceType
  <2> QED BY <1>1, <2>1, <2>2, <2>3
<1> QED BY <1>8

\* Adding a document to an index.
LEMMA AddStep ==
  ASSUME NEW id, NEW new \in Docs, Subject(id, new), NEW k \in Nat, k + 1 \in DOMAIN type.indices,
         Kept(id) = Nothing, NEW b, Stage(b, k, id, new),
         k + 1 \in new.within <=>
           ~ type.indices[k + 1].unique \/ AnyFieldEmpty(type.indices[k + 1], new.data),
         NEW c, c = AddToIndex(b, type.indices[k + 1], id, new.data)
  PROVE  /\ Fits(k + 1, id, new) => Stage(c, k + 1, id, new) /\ c.ok = b.ok
         /\ ~ Fits(k + 1, id, new) => Failed("add", c)
<1>j. PICK j \in DOMAIN type.indices : j = k + 1
  OBVIOUS
<1>1. PICK p, z : j = k + 1 /\ p = PathOf(j, new) /\ z = Terminal(p)
  BY <1>j
<1>2. /\ p \in Paths /\ Len(p) >= 2
      /\ \A q \in Paths : Len(q) = 1 /\ Leads(q, p) => q \in Roots
      /\ Levels(p) = Reach({p})
  BY <1>1, PathParts
<1>3. Without(b, k, id, new, {}) /\ Held(k, id, new) = Others(k, id, new)
  BY StageFresh, HeldIs
<1>4. PICK d : d = InsertEmptyTreesIfNotExist(b, Levels(p))
  OBVIOUS
<1>5. Completes(Roots, Others(k, id, new), {}, Levels(p), p)
  <2>1. ASSUME NEW q \in Levels(p), HasRaw(q) PROVE q \in Above(Others(k, id, new))
    <3>1. q \in Paths /\ Len(q) >= 2 /\ Leads(q, PathOf(j, new))
      BY <1>1, <1>2, <2>1 DEF Reach
    <3>2. q \in Above(Held(k, id, new))
      BY <2>1, <3>1, LevelRaw
    <3> QED BY <1>3, <3>2
  <2>2. \A q \in Reach({}) : FALSE
    BY DEF Reach
  <2> QED BY <1>2, <2>1, <2>2 DEF Completes
<1>6. Shaped(d, Roots, Others(k, id, new), {p}) /\ d.ok = b.ok /\ d.refs = b.refs
  <2>1. Shaped(b, Roots, Others(k, id, new), {})
    BY <1>3 DEF Without
  <2> QED BY <1>4, <1>5, <2>1, InsertTrees
<1>7. Without(d, k, id, new, {PathOf(k + 1, new)})
  BY <1>1, <1>3, <1>6 DEF Without
<1>8. Shifts(j, id, new)
  BY DEF Shifts
<1>9. p = IndexPath(type.indices[j].properties, new.data)
  BY <1>1 DEF PathOf
<1>10. CASE j \in new.within
  <2>1. c = InsertReference(InsertEmptyTreesIfNotExist(d, {z}), Append(z, id), id)
    BY <1>1, <1>4, <1>9, <1>10 DEF AddToIndex
  <2>2. Fits(k + 1, id, new) <=> z \notin DOMAIN refs
    BY <1>1, <1>8, <1>10 DEF Fits
  <2>3. CASE z \notin DOMAIN refs
    <3>1. Stage(c, k + 1, id, new) /\ c.ok = d.ok
      BY <1>1, <1>7, <1>8, <1>10, <2>1, <2>3, InsertShared
    <3> QED BY <1>6, <2>2, <2>3, <3>1
  <2>4. CASE z \in DOMAIN refs
    <3>1. PICK e : e = InsertEmptyTreesIfNotExist(d, {z})
      OBVIOUS
    <3>2. "refs" \in DOMAIN e
      <4>1. PICK t, f, o : d = [trees |-> t, refs |-> f, ok |-> o]
        BY <1>6 DEF Shaped
      <4> QED BY <3>1, <4>1 DEF InsertEmptyTreesIfNotExist
    <3>3. Append(z, id) \in DOMAIN c.refs
      BY <2>1, <3>1, <3>2 DEF InsertReference
    <3>4. z \in Paths /\ id \in Keys
      <4>1. PrimaryOK /\ id \in Ids
        BY DEF Subject, StoreOK
      <4> QED BY <1>1, <4>1, PlaceType DEF Keys
    <3>5. Append(z, id) \in Paths /\ Len(Append(z, id)) = Len(z) + 1 /\ Leads(z, Append(z, id))
          /\ Len(z) \in Nat
      BY <3>4, AppendPath, PathType
    <3>6. Len(z) > 0
      <4>1. PrimaryOK /\ id \in Ids
        BY DEF Subject, StoreOK
      <4>2. Len(z) = Depth(j) + 1 /\ Depth(j) \in Nat
        BY <1>1, <4>1, PlaceType
      <4> QED BY <4>2
    <3>7. PICK a : a = Append(z, id)
      OBVIOUS
    <3>8. Len(a) > 1 /\ Len(a) - 1 = Len(z) /\ Len(z) \in 0 .. Len(a)
      BY <3>5, <3>6, <3>7
    <3>9. Front(a) = z
      BY <3>4, <3>5, <3>7, <3>8, CutPath DEF Front
    <3> QED BY <2>2, <2>4, <3>3, <3>7, <3>8, <3>9 DEF Failed, Blocked
  <2> QED BY <2>3, <2>4
<1>11. CASE j \notin new.within
  <2>1. c = InsertReferenceIfNotExists(d, z, id)
    BY <1>1, <1>4, <1>9, <1>11 DEF AddToIndex
  <2>3. Fits(k + 1, id, new) <=> ~ HasRaw(z)
    BY <1>1, <1>8, <1>11 DEF Fits
  <2>4. CASE HasRaw(z)
    <3>1. c = [d EXCEPT !.ok = FALSE]
      BY <2>1, <2>4 DEF InsertReferenceIfNotExists
    <3>2. "ok" \in DOMAIN d
      <4>1. PICK t, f, o : d = [trees |-> t, refs |-> f, ok |-> o]
        BY <1>6 DEF Shaped
      <4> QED BY <4>1
    <3>3. c.ok = FALSE
      BY <3>1, <3>2
    <3> QED BY <2>3, <2>4, <3>3 DEF Failed
  <2>5. CASE ~ HasRaw(z)
    <3>1. c = InsertReference(d, z, id)
      BY <2>1, <2>5 DEF InsertReferenceIfNotExists
    <3>2. Stage(c, k + 1, id, new) /\ c.ok = d.ok
      BY <1>1, <1>7, <1>11, <2>5, <3>1, InsertUnique
    <3> QED BY <1>6, <2>3, <2>5, <3>2
  <2> QED BY <2>4, <2>5
<1> QED BY <1>10, <1>11

\* Update and delete look for a document where it stands, unless it stands in a
\* tree of a unique index.
LEMMA LooksThere ==
  ASSUME NEW id \in Ids, StoreOK, NEW j \in DOMAIN type.indices, Kept(id) # Nothing
  PROVE  /\ Loose(j, id) => ReferencePath(type.indices[j], id, Current(id)) = Place(j, id, Kept(id))
         /\ ~ Loose(j, id) =>
              /\ ReferencePath(type.indices[j], id, Current(id)) = Terminal(PathOf(j, Kept(id)))
              /\ Place(j, id, Kept(id)) = Append(Terminal(PathOf(j, Kept(id))), id)
<1>1. PrimaryOK /\ Kept(id).data = Current(id)
  BY KeptType DEF StoreOK
<1>2. ~ type.indices[j].unique => j \in Kept(id).within
  BY KeptPlaces DEF Laid
<1>3. ReferencePath(type.indices[j], id, Current(id)) =
        IF type.indices[j].unique THEN Terminal(PathOf(j, Kept(id)))
        ELSE Append(Terminal(PathOf(j, Kept(id))), id)
  BY <1>1 DEF ReferencePath, PathOf
<1> QED BY <1>2, <1>3 DEF Loose, Place

\* A document in a tree of a unique index cannot be removed from it.
LEMMA RemoveFails ==
  ASSUME NEW id, NEW new, Subject(id, new), NEW k \in Nat, k + 1 \in DOMAIN type.indices,
         NEW b, Stage(b, k, id, new), Kept(id) # Nothing, ~ Loose(k + 1, id),
         NEW c, NEW M, Shaped(c, Roots, Held(k, id, new), M)
  PROVE  DeleteUpTreeWhileEmpty(c, ReferencePath(type.indices[k + 1], id, Current(id))).ok = FALSE
<1>0. PrimaryOK /\ StoreOK /\ id \in Ids
  BY DEF Subject, StoreOK
<1>1. PICK j \in DOMAIN type.indices : j = k + 1
  OBVIOUS
<1>2. PICK z, p : z = Terminal(PathOf(j, Kept(id))) /\ p = Place(j, id, Kept(id))
  OBVIOUS
<1>3. z = ReferencePath(type.indices[j], id, Current(id)) /\ p = Append(z, id)
  BY <1>0, <1>1, <1>2, LooksThere
<1>4. z \in Paths /\ p \in Paths /\ Len(p) = Len(z) + 1 /\ Leads(z, p)
  <2>1. Kept(id) \in Docs
    BY <1>0, KeptType
  <2>2. z \in Paths /\ id \in Keys
    BY <1>0, <1>2, <2>1, PlaceType DEF Keys
  <2> QED BY <1>3, <2>2, AppendPath
<1>5. p \in Nodes(c)
  <2>1. p \in Held(k, id, new)
    BY <1>1, <1>2, OwnLeaf
  <2>2. Nodes(c) = Roots \cup Above(Held(k, id, new)) \cup Reach(M) \cup Held(k, id, new)
    BY ShapedNodes
  <2> QED BY <2>1, <2>2
<1>6. p \in Children(c, z)
  BY <1>4, <1>5, PrefixLeads DEF Children
<1>7. DeleteUpTreeWhileEmpty(c, z) = [c EXCEPT !.ok = FALSE]
  BY <1>6 DEF DeleteUpTreeWhileEmpty
<1>8. "ok" \in DOMAIN c
  <2>1. PICK t, f, o : c = [trees |-> t, refs |-> f, ok |-> o]
    BY DEF Shaped
  <2> QED BY <2>1
<1> QED BY <1>1, <1>3, <1>7, <1>8

\* The part of an operation on index k + 1 succeeds, or fails.
Goes(b, c, k, id, new) == Stage(c, k + 1, id, new) /\ c.ok = b.ok
Stops(c) == c.ok = FALSE

\* Removing a document from an index.
LEMMA RemoveStep ==
  ASSUME NEW id, Subject(id, Nothing), NEW k \in Nat, k + 1 \in DOMAIN type.indices,
         Kept(id) # Nothing, NEW b, Stage(b, k, id, Nothing),
         NEW c, c = RemoveFromIndex(b, type.indices[k + 1], id, Current(id))
  PROVE  /\ Loose(k + 1, id) => Goes(b, c, k, id, Nothing)
         /\ ~ Loose(k + 1, id) => Stops(c)
<1> USE DEF Goes, Stops
<1>2. Shaped(b, Roots, Held(k, id, Nothing), {})
  BY DEF Stage
<1>3. CASE Loose(k + 1, id)
  <2>1. c = DeleteUpTreeWhileEmpty(b, Place(k + 1, id, Kept(id)))
    BY <1>3, LooksThere DEF RemoveFromIndex, Subject
  <2>2. Leaf(Place(k + 1, id, Kept(id)), {})
    BY DEF Leaf
  <2>3. Without(c, k, id, Nothing, {}) /\ c.ok = b.ok
    BY <1>2, <2>1, <2>2, StageRemove
  <2>4. Stage(c, k + 1, id, Nothing)
    BY <2>3, StageGone
  <2> QED BY <1>3, <2>3, <2>4
<1>4. CASE ~ Loose(k + 1, id)
  BY <1>2, <1>4, RemoveFails DEF RemoveFromIndex
<1> QED BY <1>3, <1>4

\* The levels of the new path that an update does not look at stand above the
\* old entry.
LEMMA UnchangedLevels ==
  ASSUME NEW id, NEW new \in Docs, Subject(id, new), NEW j \in DOMAIN type.indices,
         NEW old \in Docs, NEW q \in Reach({PathOf(j, new)})
  PROVE  \/ q \in ChangedLevels(type.indices[j].properties, old.data, new.data)
         \/ Leads(q, PathOf(j, old))
<1>0. PrimaryOK
  BY DEF Subject, StoreOK
<1>1. q \in Paths /\ Len(q) \in Nat /\ Leads(q, PathOf(j, new))
  BY PathType DEF Reach
<1>2. q \in Levels(IndexPath(type.indices[j].properties, new.data))
  BY PathParts DEF PathOf
<1> SUFFICES ASSUME q \notin ChangedLevels(type.indices[j].properties, old.data, new.data)
             PROVE  Leads(q, PathOf(j, old))
  OBVIOUS
<1>3. PICK ps \in Seq(Properties), n \in Nat \ {0} :
        /\ ps = Names(j) /\ n = Len(ps) /\ Len(PathOf(j, new)) = 2 * n
        /\ \A t \in 1 .. n : /\ PathOf(j, new)[2 * t - 1] = ps[t]
                             /\ PathOf(j, new)[2 * t] = new.data[ps[t]]
  <2>1. /\ Names(j) \in Seq(Properties) /\ Len(Names(j)) \in Nat \ {0}
        /\ Len(PathOf(j, new)) = 2 * Len(Names(j))
    BY <1>0, PathKeys
  <2>2. \A t \in 1 .. Len(Names(j)) : /\ PathOf(j, new)[2 * t - 1] = Names(j)[t]
                                      /\ PathOf(j, new)[2 * t] = new.data[Names(j)[t]]
    BY <1>0, PathKeys
  <2> QED BY <2>1, <2>2
<1>4. /\ Len(PathOf(j, old)) = 2 * n
      /\ \A t \in 1 .. n : /\ PathOf(j, old)[2 * t - 1] = ps[t]
                           /\ PathOf(j, old)[2 * t] = old.data[ps[t]]
  BY <1>0, <1>3, PathKeys
<1>5. ASSUME NEW t \in 1 .. n, Len(q) >= 2 * t - 1 PROVE old.data[ps[t]] = new.data[ps[t]]
  <2>1. t \in DOMAIN ps
    BY <1>3
  <2>2. ps = type.indices[j].properties
    BY <1>3 DEF Names
  <2> QED BY <1>2, <1>5, <2>1, <2>2 DEF ChangedLevels
<1>6. Len(q) <= 2 * n
  BY <1>1, <1>3 DEF Leads
<1>7. ASSUME NEW t \in 1 .. Len(q) PROVE q[t] = PathOf(j, old)[t]
  <2>1. t \in 1 .. 2 * n
    BY <1>1, <1>3, <1>6
  <2>2. PICK m \in 1 .. n : t = 2 * m - 1 \/ t = 2 * m
    BY <1>3, <2>1, PathPositions
  <2>3. Len(q) >= 2 * m - 1
    BY <1>1, <1>3, <2>2
  <2>4. old.data[ps[m]] = new.data[ps[m]]
    BY <1>5, <2>3
  <2>5. q[t] = PathOf(j, new)[t]
    BY <1>1 DEF Leads
  <2>6. CASE t = 2 * m - 1
    BY <1>3, <1>4, <2>2, <2>5, <2>6
  <2>7. CASE t = 2 * m
    BY <1>3, <1>4, <2>2, <2>4, <2>5, <2>7
  <2> QED BY <2>2, <2>6, <2>7
<1> QED BY <1>1, <1>4, <1>6, <1>7 DEF Leads

\* Moving a document within an index.
LEMMA MoveStep ==
  ASSUME NEW id, NEW new \in Docs, Subject(id, new), NEW k \in Nat, k + 1 \in DOMAIN type.indices,
         Kept(id) # Nothing, NEW b, Stage(b, k, id, new),
         NEW c, c = MoveInIndex(b, type.indices[k + 1], id, Current(id), new.data),
         IsBatch(b),
         ~ Shifts(k + 1, id, new) => (k + 1 \in new.within <=> k + 1 \in Kept(id).within),
         Shifts(k + 1, id, new) =>
           (k + 1 \in new.within <=>
              ~ type.indices[k + 1].unique \/ AllFieldsEmpty(type.indices[k + 1], new.data))
  PROVE  /\ Fits(k + 1, id, new) /\ (Shifts(k + 1, id, new) => Loose(k + 1, id))
              => Goes(b, c, k, id, new)
         /\ ~ (Fits(k + 1, id, new) /\ (Shifts(k + 1, id, new) => Loose(k + 1, id))) => Stops(c)
<1> USE DEF Goes, Stops
<1>0. PrimaryOK /\ Nothing \notin Docs /\ id \in Ids /\ new # Nothing
  BY NothingApart DEF Subject, StoreOK
<1>j. PICK j \in DOMAIN type.indices : j = k + 1
  OBVIOUS
<1>1. PICK p, z : j = k + 1 /\ p = PathOf(j, new) /\ z = Terminal(p)
  BY <1>j
<1>o. PICK old \in Docs : old = Kept(id)
  BY <1>0, KeptType
<1>2. PICK r : old = Kept(id) /\ r = Place(j, id, old)
  BY <1>o
<1>3. /\ p \in Paths /\ Len(p) >= 2 /\ Len(p) = Depth(j) /\ Depth(j) \in Nat
      /\ \A q \in Paths : Len(q) = 1 /\ Leads(q, p) => q \in Roots
      /\ Levels(p) = Reach({p})
  BY <1>1, PathParts
<1>4. /\ r \in Paths /\ Leads(PathOf(j, old), r) /\ Len(PathOf(j, old)) = Depth(j)
      /\ PathOf(j, old) \in Paths /\ Len(r) \in Nat /\ Depth(j) < Len(r)
  BY <1>0, <1>2, PlaceType, PlaceLong
<1>5. p = IndexPath(type.indices[j].properties, new.data)
      /\ PathOf(j, old) = IndexPath(type.indices[j].properties, old.data)
      /\ old.data = Current(id)
  BY <1>0, <1>1, <1>2, KeptType DEF PathOf
<1>6. CASE PathOf(j, old) = p
  <2>1. c = b
    BY <1>1, <1>2, <1>5, <1>6 DEF MoveInIndex
  <2>2. Fits(k + 1, id, new) /\ ~ Shifts(k + 1, id, new)
    BY <1>0, <1>1, <1>2, <1>6 DEF Fits, Shifts
  <2>3. Place(j, id, old) = Place(j, id, new)
    BY <1>1, <1>2, <1>6, <2>2 DEF Place
  <2>4. Stage(b, k + 1, id, new)
    BY <1>0, <1>1, <1>2, <2>3, StageSame
  <2> QED BY <2>1, <2>2, <2>4
<1>7. CASE PathOf(j, old) # p
  <2> DEFINE P == ChangedLevels(type.indices[j].properties, old.data, new.data)
  <2>1. PICK d : d = InsertEmptyTreesIfNotExist(b, P)
    OBVIOUS
  <2>2. ASSUME NEW q \in P PROVE q \in Reach({p})
    BY <1>3, <1>5 DEF ChangedLevels
  <2>3. ASSUME NEW q \in Reach({p}) PROVE q \in P \/ q \in Above(Held(k, id, new))
    <3>1. q \in P \/ Leads(q, PathOf(j, old))
      BY <1>1, UnchangedLevels
    <3>2. ASSUME Leads(q, PathOf(j, old)) PROVE q \in Above(Held(k, id, new))
      <4>1. q \in Paths /\ Len(q) \in Nat /\ Len(q) >= 2 /\ Len(q) <= Depth(j)
        BY <1>4, <3>2, PathType DEF Reach, Leads
      <4>2. Leads(q, r)
        BY <1>4, <3>2, <4>1, LeadsOn
      <4>3. r \in Held(k, id, new)
        BY <1>1, <1>2, OwnLeaf
      <4>4. Len(q) > 0 /\ Len(q) < Len(r)
        BY <1>3, <1>4, <4>1
      <4> QED BY <4>1, <4>2, <4>3, <4>4 DEF Above
    <3> QED BY <3>1, <3>2
  <2>4. ASSUME NEW q \in P, HasRaw(q) PROVE q \in Above(Held(k, id, new))
    <3>1. q \in Paths /\ Len(q) >= 2 /\ Leads(q, PathOf(j, new))
      BY <1>1, <2>2, <2>4 DEF Reach
    <3> QED BY <2>4, <3>1, LevelRaw
  <2> HIDE DEF P
  <2>5. Completes(Roots, Held(k, id, new), {}, P, p)
    <3>1. \A q \in Reach({}) : FALSE
      BY DEF Reach
    <3> QED BY <1>3, <2>2, <2>3, <2>4, <3>1 DEF Completes
  <2>6. Shaped(d, Roots, Held(k, id, new), {p}) /\ d.ok = b.ok /\ d.refs = b.refs
    <3>1. Shaped(b, Roots, Held(k, id, new), {})
      BY DEF Stage
    <3> QED BY <2>1, <2>5, <3>1, InsertTrees
  <2>7. Leaf(r, {p})
    <3>1. ~ Leads(r, p)
      BY <1>3, <1>4 DEF Leads
    <3>2. ~ Leads(p, r)
      <4> SUFFICES ASSUME Leads(p, r) PROVE FALSE
        OBVIOUS
      <4>1. Len(p) <= Len(PathOf(j, old))
        BY <1>3, <1>4
      <4>2. Leads(p, PathOf(j, old))
        BY <1>3, <1>4, <4>1, LeadsBetween
      <4> QED BY <1>3, <1>4, <1>7, <4>2, PathsEqual
    <3> QED BY <3>1, <3>2 DEF Leaf
  <2>8. PICK e : e = DeleteUpTreeWhileEmpty(d, ReferencePath(type.indices[j], id, Current(id)))
    OBVIOUS
  <2>11. Shifts(j, id, new)
    BY <1>1, <1>2, <1>7 DEF Shifts
  <2>12. e = RemoveFromIndex(InsertEmptyTreesIfNotExist(b, P), type.indices[j], id, old.data)
    BY <1>5, <2>1, <2>8 DEF RemoveFromIndex
  <2>13. c = IF j \in new.within
             THEN InsertReference(InsertEmptyTreesIfNotExist(e, {z}), Append(z, id), id)
             ELSE InsertReferenceIfNotExists(e, z, id)
    <3>1. c = IF ~ type.indices[j].unique \/ AllFieldsEmpty(type.indices[j], new.data)
              THEN InsertReference(InsertEmptyTreesIfNotExist(e, {z}), Append(z, id), id)
              ELSE InsertReferenceIfNotExists(e, z, id)
      BY <1>1, <1>5, <1>7, <2>12 DEF MoveInIndex, P
    <3> QED BY <1>1, <2>11, <3>1
  <2>14. CASE ~ Loose(j, id)
    <3>1. e.ok = FALSE
      BY <1>1, <2>6, <2>8, <2>14, RemoveFails
    <3>2. IsBatch(e)
      <4>1. IsBatch(d)
        BY <2>1, BatchOperations DEF KeepsBatch
      <4> QED BY <2>8, <4>1, BatchOperations DEF KeepsBatch
    <3>3. PICK g : g = InsertEmptyTreesIfNotExist(e, {z})
      OBVIOUS
    <3>4. IsBatch(g) /\ g.ok = FALSE
      BY <3>1, <3>2, <3>3, BatchOperations DEF KeepsBatch
    <3>5. c.ok = FALSE
      BY <2>13, <3>1, <3>2, <3>3, <3>4, BatchOperations DEF KeepsBatch
    <3> QED BY <1>1, <2>11, <2>14, <3>5
  <2>15. CASE Loose(j, id)
    <3>1. r = Place(k + 1, id, Kept(id)) /\ e = DeleteUpTreeWhileEmpty(d, Place(k + 1, id, Kept(id)))
      BY <1>0, <1>1, <1>2, <2>8, <2>15, LooksThere DEF Subject
    <3>2. Without(e, k, id, new, {p}) /\ e.ok = d.ok
      BY <2>6, <2>7, <3>1, StageRemove
    <3>3. Without(e, k, id, new, {PathOf(k + 1, new)})
      BY <1>1, <3>2
    <3>4. CASE j \in new.within /\ z \notin DOMAIN refs
      <4>1. c = InsertReference(InsertEmptyTreesIfNotExist(e, {z}), Append(z, id), id)
        BY <2>13, <3>4
      <4>2. Fits(k + 1, id, new)
        BY <1>1, <3>4 DEF Fits
      <4>3. Stage(c, k + 1, id, new) /\ c.ok = e.ok
        BY <1>1, <2>11, <3>3, <3>4, <4>1, InsertShared
      <4> QED BY <1>1, <2>6, <2>15, <3>2, <4>2, <4>3
    <3>5. CASE j \in new.within /\ z \in DOMAIN refs
      BY <1>1, <2>11, <3>5, AllEmptyApart
    <3>6. CASE j \notin new.within /\ HasRaw(z)
      <4>1. c = [e EXCEPT !.ok = FALSE]
        BY <2>13, <3>6 DEF InsertReferenceIfNotExists
      <4>2. "ok" \in DOMAIN e
        <5>1. PICK t, f, o : e = [trees |-> t, refs |-> f, ok |-> o]
          BY <3>2 DEF Without, Shaped
        <5> QED BY <5>1
      <4>3. c.ok = FALSE
        BY <4>1, <4>2
      <4>4. ~ Fits(k + 1, id, new)
        BY <1>1, <2>11, <3>6 DEF Fits
      <4> QED BY <4>3, <4>4
    <3>7. CASE j \notin new.within /\ ~ HasRaw(z)
      <4>1. c = InsertReference(e, z, id)
        BY <2>13, <3>7 DEF InsertReferenceIfNotExists
      <4>2. Stage(c, k + 1, id, new) /\ c.ok = e.ok
        BY <1>1, <3>3, <3>7, <4>1, InsertUnique
      <4>3. Fits(k + 1, id, new)
        BY <1>1, <3>7 DEF Fits
      <4> QED BY <1>1, <2>6, <2>15, <3>2, <4>2, <4>3
    <3> QED BY <3>4, <3>5, <3>6, <3>7
  <2> QED BY <2>14, <2>15
<1> QED BY <1>6, <1>7

-----------------------------------------------------------------------------
(* The batch of an operation, index after index.                           *)

\* The part of an operation on index i.
Doing(op, id, new, b, i) ==
  IF op = "add" THEN AddToIndex(b, type.indices[i], id, new.data)
  ELSE IF op = "update" THEN MoveInIndex(b, type.indices[i], id, Current(id), new.data)
  ELSE RemoveFromIndex(b, type.indices[i], id, Current(id))

\* The indices in which an add, and an update, puts the document into a tree.
PlacedByAdd(new) ==
  \A i \in DOMAIN type.indices :
    i \in new.within <=> ~ type.indices[i].unique \/ AnyFieldEmpty(type.indices[i], new.data)
PlacedByUpdate(id, new) ==
  \A i \in DOMAIN type.indices :
    /\ ~ Shifts(i, id, new) => (i \in new.within <=> i \in Kept(id).within)
    /\ Shifts(i, id, new) =>
         (i \in new.within <=> ~ type.indices[i].unique \/ AllFieldsEmpty(type.indices[i], new.data))

\* When an operation takes id towards new.
Operation(op, id, new) ==
  /\ Subject(id, new)
  /\ \/ op = "add" /\ new \in Docs /\ Kept(id) = Nothing /\ PlacedByAdd(new)
     \/ op = "update" /\ new \in Docs /\ Kept(id) # Nothing /\ PlacedByUpdate(id, new)
     \/ op = "delete" /\ new = Nothing /\ Kept(id) # Nothing

\* Whether index i lets the operation through.
Fit(op, i, id, new) ==
  /\ op # "delete" => Fits(i, id, new)
  /\ op = "delete" \/ (op = "update" /\ Shifts(i, id, new)) => Loose(i, id)

\* What the part of an operation on index k + 1 makes of a batch.
Advances(op, k, id, new, b, c) ==
  /\ Failed(op, b) => Failed(op, c)
  /\ op = "add" /\ Clean(b) => Clean(c)
  /\ Stage(b, k, id, new) /\ Fit(op, k + 1, id, new) =>
       Stage(c, k + 1, id, new) /\ c.ok = b.ok
  /\ Stage(b, k, id, new) /\ ~ Fit(op, k + 1, id, new) => Failed(op, c)

\* One index more.
LEMMA OneIndex ==
  ASSUME NEW op, NEW id, NEW new, Operation(op, id, new), NEW k \in Nat,
         k + 1 \in DOMAIN type.indices, NEW b, IsBatch(b), NEW c, c = Doing(op, id, new, b, k + 1)
  PROVE  IsBatch(c) /\ Advances(op, k, id, new, b, c)
<1>1. Subject(id, new)
  BY DEF Operation
<1>2. CASE op = "add"
  <2>1. /\ c = AddToIndex(b, type.indices[k + 1], id, new.data) /\ new \in Docs /\ Kept(id) = Nothing
        /\ k + 1 \in new.within <=>
             ~ type.indices[k + 1].unique \/ AnyFieldEmpty(type.indices[k + 1], new.data)
    BY <1>2 DEF Operation, Doing, PlacedByAdd
  <2>2. KeepsBatch(b, c) /\ KeepsAdd(b, c)
    BY <2>1, IndexOperations, AddKeeps
  <2>3. Stage(b, k, id, new) /\ Fits(k + 1, id, new) => Stage(c, k + 1, id, new) /\ c.ok = b.ok
    BY <1>1, <2>1, AddStep
  <2>4. Stage(b, k, id, new) /\ ~ Fits(k + 1, id, new) => Failed(op, c)
    BY <1>1, <1>2, <2>1, AddStep
  <2>5. Fit(op, k + 1, id, new) <=> Fits(k + 1, id, new)
    BY <1>2 DEF Fit
  <2>6. Failed(op, b) => Failed(op, c)
    BY <1>2, <2>2 DEF Failed, KeepsBatch, KeepsAdd
  <2> QED BY <2>2, <2>3, <2>4, <2>5, <2>6 DEF KeepsBatch, KeepsAdd, Advances
<1>3. CASE op = "update"
  <2>1. /\ c = MoveInIndex(b, type.indices[k + 1], id, Current(id), new.data)
        /\ new \in Docs /\ Kept(id) # Nothing
        /\ ~ Shifts(k + 1, id, new) => (k + 1 \in new.within <=> k + 1 \in Kept(id).within)
        /\ Shifts(k + 1, id, new) =>
             (k + 1 \in new.within <=>
                ~ type.indices[k + 1].unique \/ AllFieldsEmpty(type.indices[k + 1], new.data))
    BY <1>3 DEF Operation, Doing, PlacedByUpdate
  <2>2. KeepsBatch(b, c)
    BY <2>1, IndexOperations
  <2>3. Fit(op, k + 1, id, new) <=>
          Fits(k + 1, id, new) /\ (Shifts(k + 1, id, new) => Loose(k + 1, id))
    BY <1>3 DEF Fit
  <2>4. ASSUME Stage(b, k, id, new)
        PROVE  /\ Fit(op, k + 1, id, new) => Goes(b, c, k, id, new)
               /\ ~ Fit(op, k + 1, id, new) => Stops(c)
    <3>2. /\ Fits(k + 1, id, new) /\ (Shifts(k + 1, id, new) => Loose(k + 1, id))
               => Goes(b, c, k, id, new)
          /\ ~ (Fits(k + 1, id, new) /\ (Shifts(k + 1, id, new) => Loose(k + 1, id))) => Stops(c)
      BY <1>1, <2>1, <2>4, MoveStep
    <3> QED BY <2>3, <3>2
  <2> QED BY <1>3, <2>2, <2>4 DEF KeepsBatch, Failed, Advances, Goes, Stops
<1>4. CASE op = "delete"
  <2>1. /\ c = RemoveFromIndex(b, type.indices[k + 1], id, Current(id))
        /\ new = Nothing /\ Kept(id) # Nothing
    BY <1>4, NothingApart DEF Operation, Doing
  <2>2. KeepsBatch(b, c)
    BY <2>1, IndexOperations
  <2>3. Fit(op, k + 1, id, new) <=> Loose(k + 1, id)
    BY <1>4 DEF Fit
  <2>4. ASSUME Stage(b, k, id, new)
        PROVE  /\ Loose(k + 1, id) => Goes(b, c, k, id, new)
               /\ ~ Loose(k + 1, id) => Stops(c)
    <3>1. Subject(id, Nothing) /\ Stage(b, k, id, Nothing)
      BY <1>1, <2>1, <2>4
    <3>2. /\ Loose(k + 1, id) => Goes(b, c, k, id, Nothing)
          /\ ~ Loose(k + 1, id) => Stops(c)
      BY <2>1, <3>1, RemoveStep
    <3> QED BY <2>1, <3>2
  <2> QED BY <1>4, <2>2, <2>3, <2>4 DEF KeepsBatch, Failed, Advances, Goes, Stops
<1> QED BY <1>2, <1>3, <1>4 DEF Operation

\* The greatest of some numbers from 1 to n, the one Max chooses.
LEMMA MaxUpTo ==
  ASSUME NEW n \in Nat, NEW S \in SUBSET (1 .. n), S # {}
  PROVE  Max(S) \in S /\ \A y \in S : y <= Max(S)
<1> DEFINE U == {u \in Nat : \A y \in S : y <= u}
<1>1. n \in U /\ U \in SUBSET Nat /\ U # {}
  OBVIOUS
<1>2. PICK u \in U : \A v \in U : u <= v
  <2> HIDE DEF U
  <2> QED BY <1>1, MinProperties
<1>3. u \in S
  <2> SUFFICES ASSUME u \notin S PROVE FALSE
    OBVIOUS
  <2>1. PICK y \in S : y \in Nat /\ y >= 1 /\ y <= u
    <3>1. PICK y \in S : TRUE
      OBVIOUS
    <3>2. y \in 1 .. n /\ y <= u
      BY <1>2
    <3>3. y \in Nat /\ y >= 1
      BY <3>2
    <3> QED BY <3>2, <3>3
  <2>2. u - 1 \in Nat
    BY <1>2, <2>1
  <2>3. ASSUME NEW x \in S PROVE x <= u - 1
    <3>1. x \in Nat /\ x <= u /\ x # u /\ u \in Nat
      BY <1>2
    <3> QED BY <3>1
  <2>4. u - 1 \in U
    BY <2>2, <2>3
  <2>5. u <= u - 1
    BY <1>2, <2>4
  <2> QED BY <1>2, <2>5
<1>4. u \in Nat /\ \A y \in S : y \in Nat /\ u >= y
  BY <1>2
<1>5. Max(S) \in S /\ \A y \in S : Max(S) >= y
  BY <1>3, <1>4 DEF Max
<1>6. PICK x \in S : x = Max(S)
  BY <1>5
<1>7. x \in Nat /\ \A y \in S : y \in Nat /\ x >= y
  BY <1>4, <1>5, <1>6
<1>8. \A y \in S : y <= x
  BY <1>7
<1> QED BY <1>6, <1>8

\* The folds of the batches: over the sets S of indices.
Iterated(op, id, new, S, g) ==
  g = [s \in SUBSET S |->
         IF s = {} THEN NoChange ELSE Doing(op, id, new, g[s \ {Max(s)}], Max(s))]
Folded(op, id, new) ==
  (CHOOSE g : Iterated(op, id, new, DOMAIN type.indices, g))[DOMAIN type.indices]

\* The batches are these folds.
LEMMA BatchesAreFolds ==
  ASSUME NEW id, NEW new
  PROVE  /\ AddBatch(id, new.data) = Folded("add", id, new)
         /\ UpdateBatch(id, new.data) = Folded("update", id, new)
         /\ DeleteBatch(id) = Folded("delete", id, Nothing)
<1>1. AddBatch(id, new.data) = Folded("add", id, new)
  BY DEF AddBatch, FoldLeft, MapThenFoldSet, Folded, Iterated, Doing
<1>2. UpdateBatch(id, new.data) = Folded("update", id, new)
  BY DEF UpdateBatch, FoldLeft, MapThenFoldSet, Folded, Iterated, Doing
<1>3. DeleteBatch(id) = Folded("delete", id, Nothing)
  BY DEF DeleteBatch, FoldLeft, MapThenFoldSet, Folded, Iterated, Doing
<1> QED BY <1>1, <1>2, <1>3

\* The recursion of a fold has a solution.
LEMMA FoldExists ==
  ASSUME NEW op, NEW id, NEW new, NEW n \in Nat
  PROVE  \E g : Iterated(op, id, new, 1 .. n, g)
<1> DEFINE Good == {m \in Nat : \E g : Iterated(op, id, new, 1 .. m, g)}
<1>1. 0 \in Good
  <2> DEFINE g == [s \in SUBSET (1 .. 0) |-> NoChange]
  <2>1. \A s \in SUBSET (1 .. 0) : s = {}
    OBVIOUS
  <2>2. g = [s \in SUBSET (1 .. 0) |->
         IF s = {} THEN NoChange ELSE Doing(op, id, new, g[s \ {Max(s)}], Max(s))]
    BY <2>1
  <2> HIDE DEF g
  <2>3. Iterated(op, id, new, 1 .. 0, g)
    BY <2>2 DEF Iterated
  <2> QED BY <2>3
<1>2. ASSUME NEW m \in Nat, m < n, m \in Good PROVE m + 1 \in Good
  <2>1. PICK g : Iterated(op, id, new, 1 .. m, g)
    BY <1>2
  <2>2. /\ DOMAIN g = SUBSET (1 .. m)
        /\ \A s \in SUBSET (1 .. m) :
             g[s] = IF s = {} THEN NoChange ELSE Doing(op, id, new, g[s \ {Max(s)}], Max(s))
    <3>1. g = [s \in SUBSET (1 .. m) |->
             IF s = {} THEN NoChange ELSE Doing(op, id, new, g[s \ {Max(s)}], Max(s))]
      BY <2>1 DEF Iterated
    <3>2. PICK h : h = [s \in SUBSET (1 .. m) |->
             IF s = {} THEN NoChange ELSE Doing(op, id, new, g[s \ {Max(s)}], Max(s))]
      OBVIOUS
    <3>3. /\ DOMAIN h = SUBSET (1 .. m)
          /\ \A s \in SUBSET (1 .. m) :
               h[s] = IF s = {} THEN NoChange ELSE Doing(op, id, new, g[s \ {Max(s)}], Max(s))
      BY <3>2
    <3>4. g = h
      BY <3>1, <3>2
    <3> QED BY <3>3, <3>4
  <2> DEFINE h == [s \in SUBSET (1 .. m + 1) |->
                     IF m + 1 \in s THEN Doing(op, id, new, g[s \ {m + 1}], m + 1) ELSE g[s]]
  <2>3. /\ DOMAIN h = SUBSET (1 .. m + 1)
        /\ \A s \in SUBSET (1 .. m + 1) :
             h[s] = IF m + 1 \in s THEN Doing(op, id, new, g[s \ {m + 1}], m + 1) ELSE g[s]
    OBVIOUS
  <2>4. h = [s \in SUBSET (1 .. m + 1) |-> h[s]]
    OBVIOUS
  <2> HIDE DEF h
  <2>5. ASSUME NEW s \in SUBSET (1 .. m + 1), m + 1 \notin s PROVE s \in SUBSET (1 .. m)
    BY <1>2, <2>5
  <2>6. ASSUME NEW s \in SUBSET (1 .. m + 1)
        PROVE  h[s] = IF s = {} THEN NoChange ELSE Doing(op, id, new, h[s \ {Max(s)}], Max(s))
    <3>1. CASE m + 1 \in s
      <4>1. Max(s) = m + 1
        <5>1. Max(s) \in s /\ \A y \in s : y <= Max(s)
          <6>1. m + 1 \in Nat /\ s # {}
            BY <1>2, <3>1
          <6> QED BY <6>1, MaxUpTo
        <5>2. PICK x \in 1 .. m + 1 : x = Max(s) /\ m + 1 <= x
          BY <3>1, <5>1
        <5>3. x = m + 1
          BY <1>2, <5>2
        <5> QED BY <5>2, <5>3
      <4>2. s \ {m + 1} \in SUBSET (1 .. m) /\ s \ {m + 1} \in SUBSET (1 .. m + 1) /\ m + 1 \notin s \ {m + 1}
        BY <2>5
      <4>3. h[s \ {m + 1}] = g[s \ {m + 1}]
        BY <2>3, <4>2
      <4>4. h[s] = Doing(op, id, new, g[s \ {m + 1}], m + 1) /\ s # {}
        BY <2>3, <3>1
      <4> QED BY <4>1, <4>3, <4>4
    <3>2. CASE m + 1 \notin s
      <4>1. s \in SUBSET (1 .. m) /\ h[s] = g[s]
        BY <2>3, <2>5, <3>2
      <4>2. CASE s = {}
        BY <2>2, <4>1, <4>2
      <4>3. CASE s # {}
        <5>1. PICK x : x = Max(s)
          OBVIOUS
        <5>2. PICK t : t = s \ {x}
          OBVIOUS
        <5>3. t \in SUBSET (1 .. m + 1) /\ m + 1 \notin t
          BY <3>2, <5>2
        <5>4. h[t] = g[t]
          BY <2>3, <5>3
        <5>5. g[s] = Doing(op, id, new, g[t], x)
          BY <2>2, <4>1, <4>3, <5>1, <5>2
        <5> QED BY <4>1, <4>3, <5>1, <5>2, <5>4, <5>5
      <4> QED BY <4>2, <4>3
    <3> QED BY <3>1, <3>2
  <2>7. h = [s \in SUBSET (1 .. m + 1) |->
              IF s = {} THEN NoChange ELSE Doing(op, id, new, h[s \ {Max(s)}], Max(s))]
    BY <2>4, <2>6
  <2>8. Iterated(op, id, new, 1 .. m + 1, h)
    BY <2>7 DEF Iterated
  <2> QED BY <1>2, <2>8
<1>3. \A i \in 0 .. n : i \in Good
  <2> HIDE DEF Good
  <2> QED BY <1>1, <1>2, UpTo
<1>4. n \in Good
  BY <1>3
<1> QED BY <1>4

\* The batches after each index.
Chain(op, id, new, n, r) ==
  /\ r[0] = NoChange /\ r[n] = Folded(op, id, new)
  /\ \A k \in Nat : k < n => r[k + 1] = Doing(op, id, new, r[k], k + 1)

\* A fold goes through the indices in order.
LEMMA FoldChain ==
  ASSUME NEW op, NEW id, NEW new, NEW n \in Nat, DOMAIN type.indices = 1 .. n
  PROVE  \E r : Chain(op, id, new, n, r)
<1>1. PICK g : g = CHOOSE h : Iterated(op, id, new, DOMAIN type.indices, h)
  OBVIOUS
<1>2. Iterated(op, id, new, 1 .. n, g)
  <2>1. \E h : Iterated(op, id, new, DOMAIN type.indices, h)
    BY FoldExists
  <2>2. Iterated(op, id, new, DOMAIN type.indices, CHOOSE h : Iterated(op, id, new, DOMAIN type.indices, h))
    BY <2>1
  <2> QED BY <1>1, <2>2
<1>3. \A s \in SUBSET (1 .. n) :
        g[s] = IF s = {} THEN NoChange ELSE Doing(op, id, new, g[s \ {Max(s)}], Max(s))
  <2>1. g = [s \in SUBSET (1 .. n) |->
           IF s = {} THEN NoChange ELSE Doing(op, id, new, g[s \ {Max(s)}], Max(s))]
    BY <1>2 DEF Iterated
  <2>2. PICK h : h = [s \in SUBSET (1 .. n) |->
           IF s = {} THEN NoChange ELSE Doing(op, id, new, g[s \ {Max(s)}], Max(s))]
    OBVIOUS
  <2>3. \A s \in SUBSET (1 .. n) :
             h[s] = IF s = {} THEN NoChange ELSE Doing(op, id, new, g[s \ {Max(s)}], Max(s))
    BY <2>2
  <2>4. g = h
    BY <2>1, <2>2
  <2> QED BY <2>3, <2>4
<1> DEFINE r == [k \in 0 .. n |-> g[1 .. k]]
<1>4. r[0] = NoChange
  <2>1. r[0] = g[1 .. 0] /\ 1 .. 0 = {} /\ {} \in SUBSET (1 .. n)
    OBVIOUS
  <2> HIDE DEF r
  <2> QED BY <1>3, <2>1
<1>5. r[n] = Folded(op, id, new)
  <2>1. r[n] = g[1 .. n]
    OBVIOUS
  <2> HIDE DEF r
  <2> QED BY <1>1, <2>1 DEF Folded
<1>6. ASSUME NEW k \in Nat, k < n PROVE r[k + 1] = Doing(op, id, new, r[k], k + 1)
  <2>1. r[k + 1] = g[1 .. k + 1] /\ r[k] = g[1 .. k]
    BY <1>6
  <2> HIDE DEF r
  <2>2. PICK s : s = 1 .. k + 1
    OBVIOUS
  <2>3. s \in SUBSET (1 .. n) /\ s # {} /\ s \ {k + 1} = 1 .. k
    <3>1. \A x \in 1 .. k + 1 : x \in 1 .. n
      BY <1>6
    <3>2. \A x : x \in 1 .. k <=> x \in 1 .. k + 1 /\ x # k + 1
      BY <1>6
    <3>3. 1 \in 1 .. k + 1
      BY <1>6
    <3> QED BY <2>2, <3>1, <3>2, <3>3
  <2>4. Max(s) = k + 1
    <3>1. Max(s) \in s /\ \A y \in s : y <= Max(s)
      BY <2>3, MaxUpTo
    <3>2. PICK x \in 1 .. k + 1 : x = Max(s) /\ k + 1 <= x
      BY <1>6, <2>2, <3>1
    <3>3. x = k + 1
      BY <1>6, <3>2
    <3> QED BY <3>2, <3>3
  <2>5. g[s] = Doing(op, id, new, g[s \ {Max(s)}], Max(s))
    BY <1>3, <2>3
  <2> QED BY <2>1, <2>2, <2>3, <2>4, <2>5
<1> HIDE DEF r
<1>7. Chain(op, id, new, n, r)
  BY <1>4, <1>5, <1>6 DEF Chain
<1> QED BY <1>7

\* What every index holds after the last of them.
LEMMA AtEnd ==
  ASSUME NEW id, NEW new, Subject(id, new), NEW i \in DOMAIN type.indices, NEW a
  PROVE  At(Len(type.indices), id, new, i, a) = IF a = id THEN new ELSE Kept(a)
<1>1. type.indices \in Seq(Index)
  BY TypeAssumption DEF Subject, StoreOK, PrimaryOK, DocumentType
<1>2. i <= Len(type.indices)
  BY <1>1
<1> QED BY <1>2 DEF At

\* A batch in shape has every element in a tree.
LEMMA ShapedApplicable ==
  ASSUME NEW b, NEW T, NEW R, Shaped(b, T, R, {}), b.ok
  PROVE  Applicable(b)
<1>0. /\ R \in SUBSET Paths /\ \A q \in T : q \in Paths /\ Len(q) = 1
      /\ \A p \in R : Len(p) >= 2
  BY DEF Shaped
<1>1. b.trees = T \cup Above(R) \cup Reach({}) /\ Nodes(b) = T \cup Above(R) \cup Reach({}) \cup R
  BY ShapedNodes
<1>2. ASSUME NEW p \in Nodes(b), Len(p) > 1 PROVE Front(p) \in b.trees
  <2>1. p \notin T /\ p \notin Reach({})
    <3>1. p \notin Reach({})
      BY DEF Reach
    <3>2. ASSUME p \in T PROVE FALSE
      <4>1. Len(p) = 1
        BY <1>0, <3>2
      <4> QED BY <1>2, <4>1
    <3> QED BY <3>1, <3>2
  <2>2. PICK x \in R : p \in Paths /\ Leads(p, x)
    <3>1. CASE p \in R
      <4>1. p \in Paths /\ Leads(p, p)
        BY <1>0, <3>1, PathType DEF Leads
      <4> QED BY <3>1, <4>1
    <3>2. CASE p \in Above(R)
      BY <3>2 DEF Above
    <3> QED BY <1>1, <1>2, <2>1, <3>1, <3>2
  <2>3. Len(p) \in Nat /\ x \in Paths /\ Len(x) \in Nat /\ Len(p) <= Len(x)
    BY <1>0, <2>2, PathType DEF Leads
  <2>4. Len(p) - 1 \in 0 .. Len(p) /\ Len(p) - 1 > 0 /\ Len(p) - 1 < Len(x)
    BY <1>2, <2>3
  <2>5. PICK q \in Paths : q = Front(p) /\ Len(q) = Len(p) - 1 /\ Leads(q, p)
    BY <2>2, <2>4, CutPath DEF Front
  <2>6. Leads(q, x)
    BY <2>2, <2>3, <2>5, LeadsOn
  <2>7. q \in Above(R)
    BY <2>4, <2>5, <2>6 DEF Above
  <2> QED BY <1>1, <2>5, <2>7
<1> QED BY <1>2 DEF Applicable

\* The outcome of an operation: it is refused when an index does not let it
\* through, and otherwise every index holds the document as it is to be.
LEMMA BatchDone ==
  ASSUME NEW op, NEW id, NEW new, Operation(op, id, new), NEW b, b = Folded(op, id, new)
  PROVE  /\ Applicable(b) <=> \A i \in DOMAIN type.indices : Fit(op, i, id, new)
         /\ Applicable(b) => Stage(b, Len(type.indices), id, new)
<1>0. Subject(id, new) /\ type.indices \in Seq(Index) /\ TreesAgree
  BY TypeAssumption DEF Operation, Subject, StoreOK, PrimaryOK, DocumentType
<1>1. PICK n \in Nat : n = Len(type.indices) /\ DOMAIN type.indices = 1 .. n
  BY <1>0
<1>2. PICK r : Chain(op, id, new, n, r)
  BY <1>1, FoldChain
<1>3. r[0] = NoChange /\ r[n] = b
      /\ \A k \in Nat : k < n => r[k + 1] = Doing(op, id, new, r[k], k + 1)
  BY <1>2 DEF Chain
<1> DEFINE Fine(k) == \A i \in 1 .. k : Fit(op, i, id, new)
           Good == {k \in 0 .. n : /\ IsBatch(r[k])
                                   /\ op = "add" => Clean(r[k])
                                   /\ Fine(k) => Stage(r[k], k, id, new) /\ r[k].ok = TRUE
                                   /\ ~ Fine(k) => Failed(op, r[k])}
<1>4. 0 \in Good
  <2>1. IsBatch(r[0]) /\ r[0].ok = TRUE
    <3>1. PICK o \in BOOLEAN : o = TRUE
      OBVIOUS
    <3>2. NoChange = [trees |-> trees, refs |-> refs, ok |-> o]
      BY <3>1 DEF NoChange
    <3>3. IsBatch(NoChange) /\ NoChange.ok = o
      BY <3>2, BatchRecord
    <3> QED BY <1>3, <3>1, <3>3
  <2>2. Stage(r[0], 0, id, new)
    BY <1>0, <1>3, StageStart
  <2>3. Clean(r[0])
    BY <1>0, <1>3 DEF Clean, NoChange, TreesAgree
  <2>4. Fine(0)
    OBVIOUS
  <2> HIDE DEF Fine
  <2> QED BY <1>1, <2>1, <2>2, <2>3, <2>4
<1>5. ASSUME NEW k \in Nat, k < n, k \in Good PROVE k + 1 \in Good
  <2>1. k + 1 \in DOMAIN type.indices /\ k + 1 \in 0 .. n
    BY <1>1, <1>5
  <2>2. PICK x, y : x = r[k] /\ y = r[k + 1]
    OBVIOUS
  <2>3. y = Doing(op, id, new, x, k + 1)
    BY <1>3, <1>5, <2>2
  <2>4. /\ IsBatch(x) /\ (op = "add" => Clean(x))
        /\ Fine(k) => Stage(x, k, id, new) /\ x.ok = TRUE
        /\ ~ Fine(k) => Failed(op, x)
    BY <1>5, <2>2
  <2>5. /\ IsBatch(y)
        /\ Failed(op, x) => Failed(op, y)
        /\ op = "add" /\ Clean(x) => Clean(y)
        /\ Stage(x, k, id, new) /\ Fit(op, k + 1, id, new) =>
              Stage(y, k + 1, id, new) /\ y.ok = x.ok
        /\ Stage(x, k, id, new) /\ ~ Fit(op, k + 1, id, new) => Failed(op, y)
    <3>1. IsBatch(x)
      BY <2>4
    <3>2. IsBatch(y) /\ Advances(op, k, id, new, x, y)
      BY <2>1, <2>3, <3>1, OneIndex
    <3> QED BY <3>2 DEF Advances
  <2>6. Fine(k + 1) <=> Fine(k) /\ Fit(op, k + 1, id, new)
    <3>1. 1 .. k + 1 = (1 .. k) \cup {k + 1}
      BY <1>5
    <3> QED BY <3>1
  <2> HIDE DEF Fine
  <2>7. op = "add" => Clean(y)
    BY <2>4, <2>5
  <2>8. CASE Fine(k) /\ Fit(op, k + 1, id, new)
    <3>1. Stage(y, k + 1, id, new) /\ y.ok = TRUE
      BY <2>4, <2>5, <2>8
    <3> QED BY <2>1, <2>2, <2>5, <2>6, <2>7, <2>8, <3>1
  <2>9. CASE ~ (Fine(k) /\ Fit(op, k + 1, id, new))
    <3>1. Failed(op, y)
      BY <2>4, <2>5, <2>9
    <3> QED BY <2>1, <2>2, <2>5, <2>6, <2>7, <2>9, <3>1
  <2> QED BY <2>8, <2>9
<1>6. n \in Good
  <2>1. \A i \in 0 .. n : i \in Good
    <3> HIDE DEF Good
    <3> QED BY <1>4, <1>5, UpTo
  <2> HIDE DEF Good
  <2> QED BY <1>1, <2>1
<1>7. /\ op = "add" => Clean(b)
      /\ Fine(n) => Stage(b, n, id, new) /\ b.ok = TRUE
      /\ ~ Fine(n) => Failed(op, b)
  BY <1>3, <1>6
<1>8. Fine(n) <=> \A i \in DOMAIN type.indices : Fit(op, i, id, new)
  BY <1>1
<1> HIDE DEF Fine, Good
<1>9. ASSUME Fine(n) PROVE Applicable(b)
  <2>1. Shaped(b, Roots, Held(n, id, new), {}) /\ b.ok
    BY <1>7, <1>9 DEF Stage
  <2> QED BY <2>1, ShapedApplicable
<1>10. ASSUME ~ Fine(n) PROVE ~ Applicable(b)
  BY <1>7, <1>10, FailedRefused
<1> QED BY <1>1, <1>7, <1>8, <1>9, <1>10

\* A reference stands at the end of a path when it is that of a stored document
\* with that path that is not in a tree.
LEMMA ZeroTaken ==
  ASSUME NEW id, NEW new \in Docs, Subject(id, new), NEW i \in DOMAIN type.indices
  PROVE  Terminal(PathOf(i, new)) \in DOMAIN refs <=>
           \E a \in Ids : /\ Kept(a) # Nothing /\ PathOf(i, Kept(a)) = PathOf(i, new)
                          /\ i \notin Kept(a).within
<1>0. PrimaryOK /\ StoreOK /\ id \in Ids
  BY DEF Subject, StoreOK
<1>1. PICK z : z = Terminal(PathOf(i, new))
  OBVIOUS
<1>2. ASSUME z \in DOMAIN refs
      PROVE  \E a \in Ids : /\ Kept(a) # Nothing /\ PathOf(i, Kept(a)) = PathOf(i, new)
                            /\ i \notin Kept(a).within
  <2>1. PICK a \in Storing : z \in Entries(a)
    BY <1>0, <1>2 DEF StoreOK, ReferencesAgree
  <2>2. a \in Ids /\ Kept(a) # Nothing
    BY <1>0, KeptType DEF Storing
  <2>3. PICK d \in Docs : d = Kept(a)
    BY <1>0, <2>2, KeptType
  <2>4. PICK j \in DOMAIN type.indices : z = Place(j, a, d)
    BY <1>0, <2>1, <2>2, <2>3, KeptPlaces DEF Entries
  <2>5. z \in Paths /\ Leads(z, z) /\ Len(z) = Depth(i) + 1 /\ Depth(i) \in Nat
    BY <1>0, <1>1, PlaceType, PathType DEF Leads
  <2>6. j = i /\ PathOf(j, d) = PathOf(i, new)
    <3>1. Leads(Terminal(PathOf(i, new)), Place(j, a, d))
      BY <1>1, <2>4, <2>5
    <3> QED BY <1>0, <2>2, <3>1, ZeroMeets
  <2>7. i \notin d.within
    <3>1. i \in d.within => Len(Place(i, a, d)) = Depth(i) + 2
      BY <1>0, <2>2, PlaceType
    <3> QED BY <2>4, <2>5, <2>6, <3>1
  <2> QED BY <2>2, <2>3, <2>6, <2>7
<1>3. ASSUME NEW a \in Ids, Kept(a) # Nothing, PathOf(i, Kept(a)) = PathOf(i, new),
             i \notin Kept(a).within
      PROVE  z \in DOMAIN refs
  <2>1. Place(i, a, Kept(a)) = z
    BY <1>1, <1>3 DEF Place
  <2> QED BY <1>0, <1>3, <2>1, KeptPlaces
<1> QED BY <1>1, <1>2, <1>3

\* Two documents have the same key 0 when they have the same path.
LEMMA ZeroPaths ==
  ASSUME PrimaryOK, NEW i \in DOMAIN type.indices, NEW d \in Docs, NEW e \in Docs, NEW a \in Ids
  PROVE  Zero(type.indices[i], d.data) = Zero(type.indices[i], e.data) <=> PathOf(i, d) = PathOf(i, e)
<1>1. Zero(type.indices[i], d.data) = Terminal(PathOf(i, d))
      /\ Zero(type.indices[i], e.data) = Terminal(PathOf(i, e))
  BY DEF Zero, PathOf
<1>2. ASSUME Terminal(PathOf(i, d)) = Terminal(PathOf(i, e)) PROVE PathOf(i, d) = PathOf(i, e)
  <2>1. Leads(Terminal(PathOf(i, d)), Place(i, a, d))
    BY PlaceType
  <2>2. Leads(Terminal(PathOf(i, e)), Place(i, a, d))
    BY <1>2, <2>1
  <2> QED BY <2>2, ZeroMeets
<1> QED BY <1>1, <1>2

\* The twins of a document in an index are the other stored documents with its
\* path.
LEMMA TwinsAre ==
  ASSUME NEW id, NEW new \in Docs, Subject(id, new), NEW i \in DOMAIN type.indices, NEW a
  PROVE  a \in Twins(type.indices[i], id, new.data) <=>
           a \in Ids /\ a # id /\ Kept(a) # Nothing /\ PathOf(i, Kept(a)) = PathOf(i, new)
<1>0. PrimaryOK
  BY DEF Subject, StoreOK
<1>1. ASSUME a \in Ids, Kept(a) # Nothing
      PROVE  /\ a \in Storing
             /\ Zero(type.indices[i], Current(a)) = Zero(type.indices[i], new.data)
                  <=> PathOf(i, Kept(a)) = PathOf(i, new)
  <2>1. Kept(a) \in Docs /\ Kept(a).data = Current(a) /\ a \in Storing
    BY <1>0, <1>1, KeptType
  <2> QED BY <1>0, <1>1, <2>1, ZeroPaths
<1>2. a \in Storing => a \in Ids /\ Kept(a) # Nothing
  <2>1. a \in Storing => a \in Ids
    BY DEF Storing
  <2> QED BY <1>0, <2>1, KeptType
<1> QED BY <1>1, <1>2 DEF Twins

\* When an index admits a new document.
LEMMA AddFits ==
  ASSUME NEW id, NEW new, Operation("add", id, new), NEW i \in DOMAIN type.indices
  PROVE  Fits(i, id, new) <=>
           (type.indices[i].unique =>
              \A a \in Twins(type.indices[i], id, new.data) : InTree(type.indices[i], a))
<1>0. /\ Subject(id, new) /\ new \in Docs /\ Kept(id) = Nothing /\ StoreOK /\ PrimaryOK /\ id \in Ids
      /\ i \in new.within <=> ~ type.indices[i].unique \/ AnyFieldEmpty(type.indices[i], new.data)
  BY DEF Operation, PlacedByAdd, Subject, StoreOK
<1>1. Shifts(i, id, new)
  BY <1>0 DEF Shifts
<1>2. PICK z : z = Terminal(PathOf(i, new))
  OBVIOUS
<1>3. Fits(i, id, new) <=> (i \in new.within => z \notin DOMAIN refs) /\ (i \notin new.within => ~ HasRaw(z))
  BY <1>1, <1>2 DEF Fits
<1>4. ASSUME type.indices[i].unique, NEW a \in Twins(type.indices[i], id, new.data),
             ~ InTree(type.indices[i], a)
      PROVE  ~ Fits(i, id, new)
  <2>1. a \in Ids /\ Kept(a) # Nothing /\ PathOf(i, Kept(a)) = PathOf(i, new)
    BY <1>0, <1>4, TwinsAre
  <2>2. i \notin Kept(a).within
    BY <1>0, <1>4, <2>1, KeptType
  <2>3. z \in DOMAIN refs
    BY <1>0, <1>2, <2>1, <2>2, ZeroTaken
  <2> QED BY <1>3, <2>3 DEF HasRaw
<1>5. ASSUME type.indices[i].unique =>
               \A a \in Twins(type.indices[i], id, new.data) : InTree(type.indices[i], a)
      PROVE  Fits(i, id, new)
  <2>1. ASSUME NEW a \in Ids, Kept(a) # Nothing, PathOf(i, Kept(a)) = PathOf(i, new)
        PROVE  i \in Kept(a).within
    <3>1. a # id
      BY <1>0, <2>1
    <3>2. a \in Twins(type.indices[i], id, new.data)
      BY <1>0, <2>1, <3>1, TwinsAre
    <3>3. ~ type.indices[i].unique => i \in Kept(a).within
      BY <1>0, <2>1, KeptPlaces DEF Laid
    <3>4. i \in Kept(a).within <=> InTree(type.indices[i], a)
      BY <1>0, <2>1, KeptType
    <3> QED BY <1>5, <3>2, <3>3, <3>4
  <2>2. z \notin DOMAIN refs
    BY <1>0, <1>2, <2>1, ZeroTaken
  <2>3. ASSUME i \notin new.within PROVE ~ HasRaw(z)
    <3> SUFFICES ASSUME HasRaw(z) PROVE FALSE
      OBVIOUS
    <3>1. PICK a \in Ids : Kept(a) # Nothing /\ PathOf(i, Kept(a)) = PathOf(i, new)
      BY <1>0, <1>2, ZeroRaw
    <3>2. PICK d \in Docs : d = Kept(a)
      BY <1>0, <3>1, KeptType
    <3>3. type.indices[i].unique /\ ~ AnyFieldEmpty(type.indices[i], d.data)
      BY <1>0, <2>3, <3>1, <3>2, EmptySame
    <3>4. i \notin d.within
      BY <1>0, <3>1, <3>2, <3>3, KeptPlaces DEF Laid
    <3> QED BY <2>1, <3>1, <3>2, <3>4
  <2> QED BY <1>3, <2>2, <2>3
<1> QED BY <1>4, <1>5

\* When an index admits a changed document.
LEMMA UpdateFits ==
  ASSUME NEW id, NEW new, Operation("update", id, new), NEW i \in DOMAIN type.indices
  PROVE  Fit("update", i, id, new) <=>
           (type.indices[i].unique /\ Moves(type.indices[i], id, new.data) =>
              /\ ~ InTree(type.indices[i], id)
              /\ \/ AllFieldsEmpty(type.indices[i], new.data)
                 \/ Twins(type.indices[i], id, new.data) = {})
<1>0. /\ Subject(id, new) /\ new \in Docs /\ Kept(id) # Nothing /\ StoreOK /\ PrimaryOK /\ id \in Ids
      /\ Shifts(i, id, new) =>
           (i \in new.within <=> ~ type.indices[i].unique \/ AllFieldsEmpty(type.indices[i], new.data))
  BY NothingApart DEF Operation, PlacedByUpdate, Subject, StoreOK
<1>1. /\ Kept(id) \in Docs /\ Kept(id).data = Current(id)
      /\ i \in Kept(id).within <=> InTree(type.indices[i], id)
  BY <1>0, KeptType
<1>2. Moves(type.indices[i], id, new.data) <=> Shifts(i, id, new)
  <2>1. Zero(type.indices[i], Kept(id).data) = Zero(type.indices[i], new.data)
          <=> PathOf(i, Kept(id)) = PathOf(i, new)
    BY <1>0, <1>1, ZeroPaths
  <2> QED BY <1>0, <1>1, <2>1 DEF Moves, Shifts
<1>3. Fit("update", i, id, new) <=> Fits(i, id, new) /\ (Shifts(i, id, new) => Loose(i, id))
  BY DEF Fit
<1>4. CASE ~ Shifts(i, id, new)
  BY <1>2, <1>3, <1>4 DEF Fits
<1>5. CASE Shifts(i, id, new) /\ (~ type.indices[i].unique \/ AllFieldsEmpty(type.indices[i], new.data))
  <2>1. Terminal(PathOf(i, new)) \notin DOMAIN refs
    BY <1>0, <1>5, AllEmptyApart
  <2>2. Fits(i, id, new)
    BY <1>0, <1>5, <2>1 DEF Fits
  <2> QED BY <1>1, <1>2, <1>3, <1>5, <2>2 DEF Loose
<1>6. CASE Shifts(i, id, new) /\ type.indices[i].unique /\ ~ AllFieldsEmpty(type.indices[i], new.data)
  <2>1. Fits(i, id, new) <=> ~ HasRaw(Terminal(PathOf(i, new)))
    BY <1>0, <1>6 DEF Fits
  <2>2. HasRaw(Terminal(PathOf(i, new))) <=>
          \E a \in Ids : Kept(a) # Nothing /\ PathOf(i, Kept(a)) = PathOf(i, new)
    BY <1>0, ZeroRaw
  <2>3. HasRaw(Terminal(PathOf(i, new))) <=> \E a : a \in Twins(type.indices[i], id, new.data)
    <3>1. ASSUME NEW a \in Ids, Kept(a) # Nothing, PathOf(i, Kept(a)) = PathOf(i, new) PROVE a # id
      BY <1>6, <3>1 DEF Shifts
    <3> QED BY <1>0, <2>2, <3>1, TwinsAre
  <2> QED BY <1>1, <1>2, <1>3, <1>6, <2>1, <2>3 DEF Loose
<1> QED BY <1>4, <1>5, <1>6

\* What the add of a document and its update are towards.
LEMMA Intended ==
  ASSUME StoreOK, NEW id \in Ids
  PROVE  /\ \A data \in Data : Kept(id) = Nothing =>
              \E new \in Docs : new.data = data /\ Operation("add", id, new)
         /\ \A data \in Data : Kept(id) # Nothing =>
              \E new \in Docs : new.data = data /\ Operation("update", id, new)
         /\ Kept(id) # Nothing => Operation("delete", id, Nothing)
<1>0. PrimaryOK
  BY DEF StoreOK
<1>1. ASSUME NEW i \in DOMAIN type.indices, NEW data,
             AllFieldsEmpty(type.indices[i], data)
      PROVE  AnyFieldEmpty(type.indices[i], data)
  <2>1. 1 \in DOMAIN type.indices[i].properties
    <3>1. PICK ps \in Seq(Properties), n \in Nat \ {0} : ps = type.indices[i].properties /\ n = Len(ps)
      BY <1>0, IndexType
    <3>2. DOMAIN ps = 1 .. n
      BY <3>1
    <3> QED BY <3>1, <3>2
  <2> QED BY <1>1, <2>1 DEF AllFieldsEmpty, AnyFieldEmpty
<1>2. DOMAIN type.indices \in SUBSET Nat
  BY <1>0, IndexType
<1>3. ASSUME NEW data \in Data, NEW W \in SUBSET DOMAIN type.indices
      PROVE  \E new \in Docs : new.data = data /\ new.within = W
  <2>1. W \in SUBSET Nat
    BY <1>2
  <2>2. [data |-> data, within |-> W] \in Docs
    BY <2>1 DEF Docs
  <2> QED BY <2>2
<1>4. ASSUME NEW data \in Data, Kept(id) = Nothing
      PROVE  \E new \in Docs : new.data = data /\ Operation("add", id, new)
  <2> DEFINE W == {i \in DOMAIN type.indices :
                     ~ type.indices[i].unique \/ AnyFieldEmpty(type.indices[i], data)}
  <2>1. PICK new \in Docs : new.data = data /\ new.within = W
    <3>1. W \in SUBSET DOMAIN type.indices
      OBVIOUS
    <3> HIDE DEF W
    <3> QED BY <1>3, <3>1
  <2>2. PlacedByAdd(new)
    BY <2>1 DEF PlacedByAdd
  <2>3. Laid(new)
    BY <1>1, <2>1, <2>2 DEF PlacedByAdd, Laid
  <2> QED BY <1>4, <2>1, <2>2, <2>3 DEF Operation, Subject
<1>5. ASSUME NEW data \in Data, Kept(id) # Nothing
      PROVE  \E new \in Docs : new.data = data /\ Operation("update", id, new)
  <2>1. PICK old \in Docs : old = Kept(id)
    BY <1>0, <1>5, KeptType
  <2> DEFINE Path(i) == IndexPath(type.indices[i].properties, data)
             W == {i \in DOMAIN type.indices :
                     IF PathOf(i, old) = Path(i) THEN i \in old.within
                     ELSE ~ type.indices[i].unique \/ AllFieldsEmpty(type.indices[i], data)}
  <2>2. PICK new \in Docs : new.data = data /\ new.within = W
    <3>1. W \in SUBSET DOMAIN type.indices
      OBVIOUS
    <3> HIDE DEF W
    <3> QED BY <1>3, <3>1
  <2>3. \A i \in DOMAIN type.indices : PathOf(i, new) = Path(i)
    BY <2>2 DEF PathOf
  <2>4. \A i \in DOMAIN type.indices : Shifts(i, id, new) <=> PathOf(i, old) # Path(i)
    BY <1>5, <2>1, <2>3 DEF Shifts
  <2>5. PlacedByUpdate(id, new)
    BY <2>1, <2>2, <2>4 DEF PlacedByUpdate
  <2>6. Laid(new)
    <3> SUFFICES ASSUME NEW i \in DOMAIN type.indices
                 PROVE  /\ ~ type.indices[i].unique \/ AllFieldsEmpty(type.indices[i], new.data)
                             => i \in new.within
                        /\ i \in new.within
                             => ~ type.indices[i].unique \/ AnyFieldEmpty(type.indices[i], new.data)
      BY DEF Laid
    <3>1. CASE PathOf(i, old) = Path(i)
      <4>1. Laid(old)
        BY <1>5, <2>1, KeptPlaces
      <4>2. i \in new.within <=> i \in old.within
        BY <2>2, <3>1
      <4>3. /\ AnyFieldEmpty(type.indices[i], old.data) <=> AnyFieldEmpty(type.indices[i], new.data)
            /\ AllFieldsEmpty(type.indices[i], old.data) <=> AllFieldsEmpty(type.indices[i], new.data)
        BY <1>0, <2>3, <3>1, EmptySame
      <4> QED BY <4>1, <4>2, <4>3 DEF Laid
    <3>2. CASE PathOf(i, old) # Path(i)
      BY <1>1, <2>2, <3>2
    <3> QED BY <3>1, <3>2
  <2> QED BY <1>5, <2>2, <2>5, <2>6 DEF Operation, Subject
<1>6. ASSUME Kept(id) # Nothing PROVE Operation("delete", id, Nothing)
  BY <1>6 DEF Operation, Subject
<1> QED BY <1>4, <1>5, <1>6

\* A document that the indices let through clashes with none in the table.
LEMMA FitsFree ==
  ASSUME NEW op, NEW id, NEW new \in Docs, Operation(op, id, new),
         \A i \in DOMAIN type.indices : Fit(op, i, id, new)
  PROVE  Table!Free(id, new.data)
<1>0. Subject(id, new) /\ StoreOK /\ PrimaryOK /\ op # "delete" /\ Laid(new) /\ id \in Ids
  BY NothingApart DEF Operation, Subject, StoreOK
<1> SUFFICES ASSUME NEW a \in Ids \ {id}, Current(a) # NoDocument, Table!Clash(Current(a), new.data)
             PROVE  FALSE
  BY DEF Table!Free
<1>1. Kept(a) # Nothing /\ a # id /\ a \in Ids
  BY <1>0, CurrentType, KeptType
<1>2. PICK d \in Docs : d = Kept(a) /\ d.data = Current(a)
  BY <1>0, <1>1, KeptType
<1>3. PICK i \in DOMAIN type.indices : /\ type.indices[i].unique
        /\ \A p \in Range(type.indices[i].properties) : d.data[p] = new.data[p] /\ d.data[p] # Empty
  BY <1>2 DEF Table!Clash
<1>4. PathOf(i, d) = PathOf(i, new)
  BY <1>0, <1>3, SamePath
<1>5. ~ AnyFieldEmpty(type.indices[i], d.data)
  BY <1>3 DEF AnyFieldEmpty, Range
<1>6. ~ AnyFieldEmpty(type.indices[i], new.data)
  BY <1>0, <1>4, <1>5, EmptySame
<1>7. i \notin new.within
  BY <1>0, <1>3, <1>6 DEF Laid
<1>8. i \notin d.within
  BY <1>0, <1>1, <1>2, <1>3, <1>5, KeptPlaces DEF Laid
<1>9. HasRaw(Terminal(PathOf(i, new)))
  BY <1>0, <1>1, <1>2, <1>4, ZeroRaw
<1>10. ~ Shifts(i, id, new)
  BY <1>0, <1>7, <1>9 DEF Fit, Fits
<1>11. Kept(id) # Nothing /\ PathOf(i, Kept(a)) = PathOf(i, Kept(id))
  BY <1>2, <1>4, <1>10 DEF Shifts
<1> QED BY <1>0, <1>1, <1>2, <1>8, <1>11, Beside

\* The new document and the stored ones with its path stand all in a tree or
\* none of them does.
Even(id, new) ==
  new # Nothing =>
    \A i \in DOMAIN type.indices, a \in Ids \ {id} :
      Kept(a) # Nothing /\ PathOf(i, Kept(a)) = PathOf(i, new)
        => (i \in new.within <=> i \in Kept(a).within)

\* So it is when the indices let it through.
LEMMA FitsEven ==
  ASSUME NEW op, NEW id, NEW new, Operation(op, id, new),
         \A i \in DOMAIN type.indices : Fit(op, i, id, new)
  PROVE  Even(id, new)
<1> SUFFICES ASSUME new # Nothing, NEW i \in DOMAIN type.indices, NEW a \in Ids \ {id},
                    Kept(a) # Nothing, PathOf(i, Kept(a)) = PathOf(i, new)
             PROVE  i \in new.within <=> i \in Kept(a).within
  BY DEF Even
<1>0. Subject(id, new) /\ StoreOK /\ PrimaryOK /\ op # "delete" /\ id \in Ids /\ new \in Docs
  BY DEF Operation, Subject, StoreOK
<1>1. Fits(i, id, new)
  BY <1>0 DEF Fit
<1>2. CASE Shifts(i, id, new)
  <2>1. HasRaw(Terminal(PathOf(i, new)))
    BY <1>0, ZeroRaw
  <2>2. i \in new.within /\ Terminal(PathOf(i, new)) \notin DOMAIN refs
    BY <1>1, <1>2, <2>1 DEF Fits
  <2> QED BY <1>0, <2>2, ZeroTaken
<1>3. CASE ~ Shifts(i, id, new)
  <2>1. Kept(id) # Nothing /\ PathOf(i, Kept(id)) = PathOf(i, Kept(a))
    BY <1>3 DEF Shifts
  <2>2. PlacedByUpdate(id, new)
    BY <1>0, <2>1 DEF Operation
  <2>3. i \in new.within <=> i \in Kept(id).within
    BY <1>3, <2>2 DEF PlacedByUpdate
  <2>4. i \in Kept(id).within <=> i \in Kept(a).within
    BY <1>0, <2>1, Beside
  <2> QED BY <2>3, <2>4
<1> QED BY <1>2, <1>3

\* A delete that goes through leaves no reference to the document.
LEMMA Delete ==
  ASSUME NEW id, Operation("delete", id, Nothing), NEW b, b = Folded("delete", id, Nothing),
         Applicable(b)
  PROVE  id \notin Range(b.refs)
<1>0. Subject(id, Nothing) /\ id \in Ids
  BY DEF Operation, Subject
<1>2. Stage(b, Len(type.indices), id, Nothing)
  BY BatchDone
<1>3. PICK n : n = Len(type.indices)
  OBVIOUS
<1>4. DOMAIN b.refs = Held(n, id, Nothing)
  BY <1>2, <1>3 DEF Stage, Shaped
<1>5. ASSUME NEW p \in DOMAIN b.refs PROVE b.refs[p] # id
  <2>1. PICK i \in DOMAIN type.indices, a \in Ids :
          At(n, id, Nothing, i, a) # Nothing /\ p = Place(i, a, At(n, id, Nothing, i, a))
    BY <1>4, <1>5 DEF Held
  <2>2. a # id
    BY <1>0, <1>3, <2>1, AtEnd
  <2>3. b.refs[p] = a
    BY <1>2, <1>3, <2>1 DEF Stage
  <2> QED BY <2>2, <2>3
<1> QED BY <1>5 DEF Range

\* Stored documents, and nothing that earlier operations left behind, refuse an
\* operation.
LEMMA StoreRefuses == StoreOK => RefusedExactly
<1> SUFFICES ASSUME StoreOK PROVE RefusedExactly
  OBVIOUS
<1>0. PrimaryOK
  BY DEF StoreOK
<1>1. \A x : x \in UniqueIndices <=> \E i \in DOMAIN type.indices : type.indices[i].unique /\ x = type.indices[i]
  BY DEF UniqueIndices
<1>2. AddsRefused
  <2> SUFFICES ASSUME NEW id \in Ids, NEW data \in Data, ~ Present(id)
               PROVE  Applicable(AddBatch(id, data)) <=>
                        \A x \in UniqueIndices : \A a \in Twins(x, id, data) : InTree(x, a)
    BY DEF AddsRefused
  <2>1. PICK new \in Docs : new.data = data /\ Operation("add", id, new)
    BY <1>0, Intended, KeptType
  <2>2. AddBatch(id, data) = Folded("add", id, new)
    BY <2>1, BatchesAreFolds
  <2>3. Applicable(AddBatch(id, data)) <=> \A i \in DOMAIN type.indices : Fit("add", i, id, new)
    BY <2>1, <2>2, BatchDone
  <2>4. \A i \in DOMAIN type.indices : Fit("add", i, id, new) <=>
           (type.indices[i].unique => \A a \in Twins(type.indices[i], id, data) : InTree(type.indices[i], a))
    BY <2>1, AddFits DEF Fit
  <2> QED BY <1>1, <2>3, <2>4
<1>3. UpdatesRefused
  <2> SUFFICES ASSUME NEW id \in Ids, NEW data \in Data, Updatable(id)
               PROVE  Applicable(UpdateBatch(id, data)) <=>
                        \A x \in UniqueIndices : Moves(x, id, data) =>
                          ~ InTree(x, id) /\ (AllFieldsEmpty(x, data) \/ Twins(x, id, data) = {})
    BY DEF UpdatesRefused
  <2>1. PICK new \in Docs : new.data = data /\ Operation("update", id, new)
    BY <1>0, Intended, KeptType DEF Updatable
  <2>2. UpdateBatch(id, data) = Folded("update", id, new)
    BY <2>1, BatchesAreFolds
  <2>3. Applicable(UpdateBatch(id, data)) <=> \A i \in DOMAIN type.indices : Fit("update", i, id, new)
    BY <2>1, <2>2, BatchDone
  <2>4. \A i \in DOMAIN type.indices : Fit("update", i, id, new) <=>
           (type.indices[i].unique /\ Moves(type.indices[i], id, data) =>
              /\ ~ InTree(type.indices[i], id)
              /\ AllFieldsEmpty(type.indices[i], data) \/ Twins(type.indices[i], id, data) = {})
    BY <2>1, UpdateFits
  <2> QED BY <1>1, <2>3, <2>4
<1>4. DeletesRefused
  <2> SUFFICES ASSUME NEW id \in Ids, Deletable(id)
               PROVE  /\ Applicable(DeleteBatch(id)) <=> \A x \in UniqueIndices : ~ InTree(x, id)
                      /\ Applicable(DeleteBatch(id)) => id \notin Range(DeleteBatch(id).refs)
    BY DEF DeletesRefused
  <2>1. Kept(id) # Nothing /\ Operation("delete", id, Nothing)
    BY <1>0, Intended, KeptType DEF Deletable
  <2>2. DeleteBatch(id) = Folded("delete", id, Nothing)
    BY BatchesAreFolds
  <2>3. Applicable(DeleteBatch(id)) <=> \A i \in DOMAIN type.indices : Fit("delete", i, id, Nothing)
    BY <2>1, <2>2, BatchDone
  <2>4. \A i \in DOMAIN type.indices : Fit("delete", i, id, Nothing) <=>
           (type.indices[i].unique => ~ InTree(type.indices[i], id))
    BY <1>0, <2>1, KeptType DEF Fit, Loose
  <2>5. Applicable(DeleteBatch(id)) => id \notin Range(DeleteBatch(id).refs)
    BY <2>1, <2>2, Delete
  <2> QED BY <1>1, <2>3, <2>4, <2>5
<1> QED BY <1>2, <1>3, <1>4 DEF RefusedExactly

\* The stored documents are those that are present.
StoringFacts == \A a \in Ids : /\ a \in Storing <=> Current(a) # NoDocument
                               /\ Current(a) \in Data \cup {NoDocument}

\* They are when primary storage is in order.
LEMMA StoringIs == PrimaryOK => StoringFacts
BY CurrentType DEF StoringFacts

\* The entry of a document with the given data, among the references R.
EntryAt(index, a, data, R) ==
  IF Append(Zero(index, data), a) \in R THEN Append(Zero(index, data), a) ELSE Zero(index, data)

\* The document that primary storage then has.
DataOf(new) == IF new = Nothing THEN NoDocument ELSE new.data

\* An operation that goes through leaves references and trees that agree with
\* the stored documents.
LEMMA StageAgrees ==
  ASSUME NEW id, NEW new, Subject(id, new), NEW b, Stage(b, Len(type.indices), id, new),
         Even(id, new), type' = type, trees' = b.trees, refs' = b.refs, PrimaryOK',
         \A a \in Ids : Current(a)' = IF a = id THEN DataOf(new) ELSE Current(a)
  PROVE  StoreOK'
<1>0. PrimaryOK /\ StoreOK /\ id \in Ids /\ NoDocument \notin Data /\ Nothing \notin Docs
  BY DocumentAssumption, NothingApart DEF Subject, StoreOK
<1>1. \A a \in Ids : /\ a \in Storing' <=> Current(a)' # NoDocument
                     /\ Current(a)' \in Data \cup {NoDocument}
  <2>1. StoringFacts'
    BY StoringIs, PTL
  <2> QED BY <2>1 DEF StoringFacts
<1>2. PICK n : n = Len(type.indices)
  OBVIOUS
<1>3. PICK R : R = Held(n, id, new)
  OBVIOUS
<1> DEFINE D(a) == IF a = id THEN new ELSE Kept(a)
<1>4. R \in SUBSET Paths /\ DOMAIN b.refs = R /\ b.trees = Roots \cup Above(R) \cup Reach({})
      /\ \A q \in Roots : q \in Paths /\ Len(q) = 1
  <2>1. Shaped(b, Roots, R, {})
    BY <1>2, <1>3 DEF Stage
  <2>2. R \in SUBSET Paths /\ DOMAIN b.refs = R /\ \A q \in Roots : q \in Paths /\ Len(q) = 1
    BY <2>1 DEF Shaped
  <2> QED BY <2>1, <2>2, ShapedNodes
<1>5. ASSUME NEW a \in Ids
      PROVE  /\ a \in Storing' <=> D(a) # Nothing
             /\ D(a) # Nothing => D(a) \in Docs /\ D(a).data = Current(a)' /\ Laid(D(a))
  <2>1. CASE a = id
    <3>1. new # Nothing => new \in Docs /\ new.data \in Data /\ Laid(new)
      BY DEF Subject, Docs
    <3>2. Current(a)' = DataOf(new)
      BY <2>1
    <3> QED BY <1>0, <1>1, <2>1, <3>1, <3>2 DEF DataOf
  <2>2. CASE a # id
    <3>1. Current(a)' = Current(a)
      BY <2>2
    <3>2. Kept(a) # Nothing <=> Current(a) # NoDocument
      BY <1>0, KeptType, CurrentType
    <3>3. Kept(a) # Nothing => Kept(a) \in Docs /\ Kept(a).data = Current(a) /\ Laid(Kept(a))
      BY <1>0, KeptType, KeptPlaces
    <3> QED BY <1>1, <2>2, <3>1, <3>2, <3>3
  <2> QED BY <2>1, <2>2
<1>6. ASSUME NEW i \in DOMAIN type.indices, NEW a \in Ids PROVE At(n, id, new, i, a) = D(a)
  BY <1>2, AtEnd
<1> HIDE DEF D
<1>7. \A p \in R : \E i \in DOMAIN type.indices, a \in Ids : D(a) # Nothing /\ p = Place(i, a, D(a))
  BY <1>3, <1>6 DEF Held
<1>8. ASSUME NEW i \in DOMAIN type.indices, NEW a \in Ids, D(a) # Nothing
      PROVE  Place(i, a, D(a)) \in R /\ b.refs[Place(i, a, D(a))] = a
  <2>1. At(n, id, new, i, a) = D(a) /\ Place(i, a, D(a)) \in Paths
    BY <1>0, <1>5, <1>6, <1>8, PlaceType
  <2> QED BY <1>2, <1>3, <1>8, <2>1 DEF Held, Stage
<1>9. ASSUME NEW i \in DOMAIN type.indices, NEW a \in Ids, D(a) # Nothing
      PROVE  /\ Append(Zero(type.indices[i], Current(a)'), a) \in R <=> i \in D(a).within
             /\ EntryAt(type.indices[i], a, Current(a)', R) = Place(i, a, D(a))
  <2>1. PICK d \in Docs : d = D(a) /\ d.data = Current(a)'
    BY <1>5, <1>9
  <2>2. PICK z \in Paths : /\ z = Terminal(PathOf(i, d)) /\ z = Zero(type.indices[i], Current(a)')
                           /\ Len(z) = Depth(i) + 1 /\ Depth(i) \in Nat
    BY <1>0, <2>1, PlaceType DEF Zero, PathOf
  <2>3. PICK q \in Paths : q = Append(z, a) /\ Len(q) = Depth(i) + 2 /\ q[Depth(i) + 2] = a /\ Leads(z, q)
    <3>1. a \in Keys
      BY DEF Keys
    <3>2. Append(z, a) \in Paths /\ Len(Append(z, a)) = Len(z) + 1 /\ Append(z, a)[Len(z) + 1] = a
          /\ Leads(z, Append(z, a))
      BY <3>1, AppendPath
    <3>3. Len(z) + 1 = Depth(i) + 2
      BY <2>2
    <3> QED BY <3>2, <3>3
  <2>4. ASSUME i \in d.within PROVE q \in R /\ q = Place(i, a, d)
    <3>1. Place(i, a, d) = q
      BY <2>2, <2>3, <2>4 DEF Place
    <3> QED BY <1>8, <1>9, <2>1, <3>1
  <2>5. ASSUME q \in R PROVE i \in d.within
    <3>1. PICK j \in DOMAIN type.indices, x \in Ids : D(x) # Nothing /\ q = Place(j, x, D(x))
      BY <1>7, <2>5
    <3>2. PICK e \in Docs : e = D(x)
      BY <1>5, <3>1
    <3>3. Leads(Terminal(PathOf(i, d)), Place(j, x, e))
      BY <2>2, <2>3, <3>1, <3>2
    <3>4. j = i /\ PathOf(j, e) = PathOf(i, d)
      BY <1>0, <3>3, ZeroMeets
    <3>5. j \in e.within
      <4>1. j \notin e.within => Len(q) = Depth(i) + 1
        BY <2>2, <3>1, <3>2, <3>4 DEF Place
      <4> QED BY <2>2, <2>3, <4>1
    <3>6. Place(j, x, e)[Depth(j) + 2] = x
      BY <1>0, <3>5, PlaceType
    <3>7. x = a
      BY <2>3, <3>1, <3>2, <3>4, <3>6
    <3> QED BY <2>1, <3>2, <3>4, <3>5, <3>7
  <2>6. ASSUME i \notin d.within PROVE z = Place(i, a, d)
    BY <2>2, <2>6 DEF Place
  <2>7. q \in R <=> i \in d.within
    BY <2>4, <2>5
  <2>8. EntryAt(type.indices[i], a, Current(a)', R) = IF q \in R THEN q ELSE z
    BY <2>2, <2>3 DEF EntryAt
  <2>9. EntryAt(type.indices[i], a, Current(a)', R) = Place(i, a, d)
    BY <2>4, <2>6, <2>7, <2>8
  <2> QED BY <2>1, <2>2, <2>3, <2>7, <2>9
<1>10. \A a \in Storing' : a \in Ids /\ D(a) # Nothing
  <2>1. \A a \in Storing' : a \in Ids
    BY DEF Storing
  <2> QED BY <1>5, <2>1
<1>11. ASSUME NEW a PROVE Entries(a)' = {EntryAt(type.indices[i], a, Current(a)', DOMAIN refs') : i \in DOMAIN type.indices}
  BY DEF Entries, Entry, InTree, Zero, Terminal, IndexPath, EntryAt
<1>12. ASSUME NEW a \in Storing'
       PROVE  Entries(a)' = {Place(i, a, D(a)) : i \in DOMAIN type.indices}
  <2>1. \A i \in DOMAIN type.indices : EntryAt(type.indices[i], a, Current(a)', DOMAIN refs') = Place(i, a, D(a))
    BY <1>4, <1>9, <1>10
  <2> QED BY <1>11, <2>1
<1>13. DOMAIN refs' = UNION {Entries(a)' : a \in Storing'} /\ \A a \in Storing' : \A p \in Entries(a)' : refs'[p] = a
  <2> DEFINE E(a) == {Place(i, a, D(a)) : i \in DOMAIN type.indices}
  <2>1. \A a \in Storing' : Entries(a)' = E(a)
    BY <1>12
  <2>2. \A a \in Storing' : \A p \in E(a) : p \in R /\ b.refs[p] = a
    BY <1>8, <1>10
  <2>3. \A p \in R : \E a \in Storing' : p \in E(a)
    BY <1>5, <1>7
  <2> HIDE DEF E
  <2>4. R = UNION {E(a) : a \in Storing'}
    BY <2>2, <2>3
  <2>5. R = UNION {Entries(a)' : a \in Storing'}
    BY <2>1, <2>4
  <2>6. \A a \in Storing' : \A p \in Entries(a)' : refs'[p] = a
    BY <2>1, <2>2
  <2> QED BY <1>4, <2>5, <2>6
<1>14. ASSUME NEW a \in Storing', NEW i \in DOMAIN type.indices
       PROVE  /\ InTree(type.indices[i], a)' <=> i \in D(a).within
              /\ AllFieldsEmpty(type.indices[i], Current(a))' <=> AllFieldsEmpty(type.indices[i], D(a).data)
              /\ AnyFieldEmpty(type.indices[i], Current(a))' <=> AnyFieldEmpty(type.indices[i], D(a).data)
  <2>1. InTree(type.indices[i], a)' <=> Append(Zero(type.indices[i], Current(a)'), a) \in DOMAIN refs'
    BY DEF InTree, Zero, Terminal, IndexPath
  <2>2. a \in Ids /\ D(a) # Nothing /\ D(a).data = Current(a)'
    BY <1>5, <1>10
  <2>3. /\ AllFieldsEmpty(type.indices[i], Current(a))' <=> AllFieldsEmpty(type.indices[i], Current(a)')
        /\ AnyFieldEmpty(type.indices[i], Current(a))' <=> AnyFieldEmpty(type.indices[i], Current(a)')
    BY DEF AllFieldsEmpty, AnyFieldEmpty
  <2> QED BY <1>4, <1>9, <2>1, <2>2, <2>3
<1>15. (\A a \in Storing, k \in DOMAIN type.indices :
          LET index == type.indices[k]
          IN /\ ~ index.unique \/ AllFieldsEmpty(index, Current(a)) => InTree(index, a)
             /\ InTree(index, a) => ~ index.unique \/ AnyFieldEmpty(index, Current(a)))'
  <2> SUFFICES ASSUME NEW a \in Storing', NEW i \in DOMAIN type.indices
               PROVE  /\ ~ type.indices[i].unique \/ AllFieldsEmpty(type.indices[i], Current(a))'
                           => InTree(type.indices[i], a)'
                      /\ InTree(type.indices[i], a)'
                           => ~ type.indices[i].unique \/ AnyFieldEmpty(type.indices[i], Current(a))'
    OBVIOUS
  <2>1. Laid(D(a))
    BY <1>5, <1>10
  <2> QED BY <1>14, <2>1 DEF Laid
<1>16. ReferencesAgree'
  BY <1>13, <1>15 DEF ReferencesAgree
<1>17. TreesAgree'
  <2>1. UNION {{SubSeq(p, 1, k) : k \in 1 .. Len(p) - 1} : p \in R} = Above(R)
    BY <1>4, AboveIsUnion
  <2>2. Reach({}) = {}
    BY DEF Reach
  <2>3. trees' = Roots \cup UNION {{SubSeq(p, 1, k) : k \in 1 .. Len(p) - 1} : p \in R}
    BY <1>4, <2>1, <2>2
  <2>4. ASSUME NEW i \in DOMAIN type.indices, NEW j \in DOMAIN type.indices,
               NEW a \in Ids, NEW x \in Ids, D(a) # Nothing, D(x) # Nothing,
               i = j, PathOf(i, D(a)) = PathOf(j, D(x))
        PROVE  i \in D(a).within <=> j \in D(x).within
    <3>1. CASE a = x
      BY <2>4, <3>1
    <3>2. CASE a # id /\ x # id
      <4>1. D(a) = Kept(a) /\ D(x) = Kept(x)
        BY <3>2 DEF D
      <4> QED BY <1>0, <2>4, <4>1, Beside
    <3>3. CASE a = id /\ x # id
      <4>1. D(a) = new /\ D(x) = Kept(x)
        BY <3>3 DEF D
      <4> QED BY <2>4, <3>3, <4>1 DEF Even
    <3>4. CASE a # id /\ x = id
      <4>1. D(a) = Kept(a) /\ D(x) = new
        BY <3>4 DEF D
      <4> QED BY <2>4, <3>4, <4>1 DEF Even
    <3> QED BY <3>1, <3>2, <3>3, <3>4
  <2>5. ASSUME NEW p \in R, NEW q \in R, Leads(q, p) PROVE p = q
    <3>1. PICK i \in DOMAIN type.indices, a \in Ids : D(a) # Nothing /\ p = Place(i, a, D(a))
      BY <1>7
    <3>2. PICK j \in DOMAIN type.indices, x \in Ids : D(x) # Nothing /\ q = Place(j, x, D(x))
      BY <1>7
    <3>3. PICK d \in Docs, e \in Docs : d = D(a) /\ e = D(x)
      BY <1>5, <3>1, <3>2
    <3>4. i = j /\ PathOf(i, d) = PathOf(j, e) => (i \in d.within <=> j \in e.within)
      BY <2>4, <3>1, <3>2, <3>3
    <3>5. Leads(Place(j, x, e), Place(i, a, d))
      BY <2>5, <3>1, <3>2, <3>3
    <3>6. Place(i, a, d) = Place(j, x, e)
      BY <1>0, <3>4, <3>5, PlacesApart
    <3> QED BY <3>1, <3>2, <3>3, <3>6
  <2>6. ASSUME NEW q \in R, q \in b.trees PROVE FALSE
    <3>1. Len(q) >= 2 /\ q \in Paths
      <4>1. PICK i \in DOMAIN type.indices, a \in Ids : D(a) # Nothing /\ q = Place(i, a, D(a))
        BY <1>7
      <4>2. D(a) \in Docs
        BY <1>5, <4>1
      <4>3. Depth(i) \in Nat /\ Depth(i) >= 2 /\ Depth(i) < Len(q) /\ Len(q) \in Nat
        BY <1>0, <1>4, <4>1, <4>2, PlaceType, PlaceLong, PathType
      <4> QED BY <1>4, <4>3
    <3>2. q \notin Roots
      <4> SUFFICES ASSUME q \in Roots PROVE FALSE
        OBVIOUS
      <4>1. Len(q) = 1
        BY <1>4
      <4> QED BY <3>1, <4>1
    <3>3. PICK p \in R : Len(q) < Len(p) /\ Leads(q, p)
      BY <1>4, <2>2, <2>6, <3>2 DEF Above
    <3>4. p = q
      BY <2>5, <3>3
    <3> QED BY <3>1, <3>3, <3>4, PathType
  <2>7. trees' \cap DOMAIN refs' = {}
    BY <1>4, <2>6
  <2> QED BY <1>4, <2>3, <2>7 DEF TreesAgree, Roots
<1> QED BY <1>16, <1>17 DEF StoreOK

\* What is stored under an id after a step that stores a document, or deletes
\* one.
LEMMA CurrentNext ==
  ASSUME PrimaryOK, NEW id \in Ids, NEW data \in Data
  PROVE  /\ primary' = [primary EXCEPT ![id] = Stored(id, data)] =>
              \A a \in Ids : Current(a)' = IF a = id THEN data ELSE Current(a)
         /\ primary' = [primary EXCEPT ![id] = NoDocument] =>
              \A a \in Ids : Current(a)' = IF a = id THEN NoDocument ELSE Current(a)
<1>1. \A a \in Ids : a \in DOMAIN primary
  BY DEF PrimaryOK
<1>2. PICK s : s = Stored(id, data)
  OBVIOUS
<1>3. s # NoDocument /\ s.items[s.latest] = data
  <2>1. Stored(id, data) # NoDocument
    BY StoredItem
  <2>2. ItemKey \in {ItemKey} \cup EarlierTimes(id)
    OBVIOUS
  <2>3. s.items[s.latest] = data
    BY <1>2, <2>2 DEF Stored
  <2> QED BY <1>2, <2>1, <2>3
<1>4. ASSUME primary' = [primary EXCEPT ![id] = s], NEW a \in Ids
      PROVE  Current(a)' = IF a = id THEN data ELSE Current(a)
  BY <1>1, <1>3, <1>4 DEF Current, Present
<1>5. ASSUME primary' = [primary EXCEPT ![id] = NoDocument], NEW a \in Ids
      PROVE  Current(a)' = IF a = id THEN NoDocument ELSE Current(a)
  BY <1>1, <1>5 DEF Current, Present
<1> QED BY <1>2, <1>4, <1>5

\* An operation on id towards new went through, with batch b.
Went(op, id, new, b) ==
  /\ Operation(op, id, new) /\ b = Folded(op, id, new) /\ Applicable(b)
  /\ type' = type /\ trees' = b.trees /\ refs' = b.refs
  /\ op = "update" => type.mutable
  /\ op = "delete" => type.mutable /\ ~ type.keepsHistory
  /\ \A a \in Ids : Current(a)' = IF a = id THEN DataOf(new) ELSE Current(a)

\* Every step leaves trees, references and documents alone, or is an operation
\* that went through.
LEMMA StepGoes ==
  ASSUME StoreOK, [Next]_vars
  PROVE  \/ type' = type /\ primary' = primary /\ trees' = trees /\ refs' = refs
         \/ \E op \in {"add", "update", "delete"}, id \in Ids : \E new, b : Went(op, id, new, b)
<1>0. PrimaryOK /\ Nothing \notin Docs
  BY NothingApart DEF StoreOK
<1>1. CASE NextBlock \/ UNCHANGED vars
  BY <1>1 DEF NextBlock, vars
<1>2. ASSUME NEW id \in Ids, DeleteDocument(id)
      PROVE  Went("delete", id, Nothing, DeleteBatch(id))
  <2>1. /\ Deletable(id) /\ Apply(DeleteBatch(id)) /\ type' = type
        /\ primary' = [primary EXCEPT ![id] = NoDocument]
    BY <1>2 DEF DeleteDocument
  <2>2. PICK data \in Data : TRUE
    BY <1>0, <2>1, CurrentType DEF Deletable
  <2>3. \A a \in Ids : Current(a)' = IF a = id THEN NoDocument ELSE Current(a)
    BY <1>0, <2>1, <2>2, CurrentNext
  <2>4. Operation("delete", id, Nothing) /\ type.mutable /\ ~ type.keepsHistory
    BY <1>0, <2>1, KeptType, Intended DEF Deletable
  <2>5. DeleteBatch(id) = Folded("delete", id, Nothing) /\ DataOf(Nothing) = NoDocument
    BY BatchesAreFolds DEF DataOf
  <2> QED BY <2>1, <2>3, <2>4, <2>5 DEF Went, Apply
<1>3. ASSUME NEW id \in Ids, NEW data \in Data, UpdateDocument(id, data)
      PROVE  \E new, b : Went("update", id, new, b)
  <2>1. /\ Updatable(id) /\ Apply(UpdateBatch(id, data)) /\ type' = type
        /\ primary' = [primary EXCEPT ![id] = Stored(id, data)]
    BY <1>3 DEF UpdateDocument
  <2>2. \A a \in Ids : Current(a)' = IF a = id THEN data ELSE Current(a)
    BY <1>0, <2>1, CurrentNext
  <2>3. PICK new \in Docs : new.data = data /\ Operation("update", id, new) /\ type.mutable
    BY <1>0, <2>1, KeptType, Intended DEF Updatable
  <2>4. UpdateBatch(id, data) = Folded("update", id, new) /\ DataOf(new) = data
    BY <1>0, <2>3, BatchesAreFolds DEF DataOf
  <2>5. Went("update", id, new, UpdateBatch(id, data))
    BY <2>1, <2>2, <2>3, <2>4 DEF Went, Apply
  <2> QED BY <2>5
<1>4. ASSUME NEW id \in Ids, NEW data \in Data, NEW override,
             InsertDocument(id, data, override), ~ Present(id)
      PROVE  \E new, b : Went("add", id, new, b)
  <2>1. /\ Apply(AddBatch(id, data)) /\ type' = type
        /\ primary' = [primary EXCEPT ![id] = Stored(id, data)]
    BY <1>4 DEF InsertDocument
  <2>2. \A a \in Ids : Current(a)' = IF a = id THEN data ELSE Current(a)
    BY <1>0, <2>1, CurrentNext
  <2>3. PICK new \in Docs : new.data = data /\ Operation("add", id, new)
    BY <1>0, <1>4, KeptType, Intended
  <2>4. AddBatch(id, data) = Folded("add", id, new) /\ DataOf(new) = data
    BY <1>0, <2>3, BatchesAreFolds DEF DataOf
  <2>5. Went("add", id, new, AddBatch(id, data))
    BY <2>1, <2>2, <2>3, <2>4 DEF Went, Apply
  <2> QED BY <2>5
<1>5. ASSUME NEW id \in Ids, NEW data \in Data,
             \/ ~ Present(id) /\ AddDocument(id, data, FALSE)
             \/ AddDocument(id, data, TRUE)
             \/ UpdateDocument(id, data)
      PROVE  \E op \in {"add", "update"} : \E new, b : Went(op, id, new, b)
  <2>1. CASE UpdateDocument(id, data)
    BY <1>3, <2>1
  <2>2. CASE ~ Present(id) /\ (InsertDocument(id, data, FALSE) \/ InsertDocument(id, data, TRUE))
    BY <1>4, <2>2
  <2> QED BY <1>5, <2>1, <2>2 DEF AddDocument
<1> QED BY <1>1, <1>2, <1>5 DEF Next

\* Every step keeps references and trees in agreement.
LEMMA StoreKept == StoreOK /\ [Next]_vars => StoreOK'
<1> SUFFICES ASSUME StoreOK, [Next]_vars PROVE StoreOK'
  OBVIOUS
<1>1. PrimaryOK'
  BY PrimaryKept DEF StoreOK
<1>2. CASE type' = type /\ primary' = primary /\ trees' = trees /\ refs' = refs
  <2>1. (ReferencesAgree /\ TreesAgree)' <=> ReferencesAgree /\ TreesAgree
    BY <1>2 DEF ReferencesAgree, TreesAgree, Entries, Entry, InTree, Zero, Terminal, IndexPath,
                AllFieldsEmpty, AnyFieldEmpty, Storing, Current, Present
  <2> QED BY <1>1, <2>1 DEF StoreOK
<1>3. ASSUME NEW op \in {"add", "update", "delete"}, NEW id \in Ids, NEW new, NEW b, Went(op, id, new, b)
      PROVE  StoreOK'
  <2>1. Operation(op, id, new) /\ b = Folded(op, id, new) /\ Applicable(b)
    BY <1>3 DEF Went
  <2>2. Stage(b, Len(type.indices), id, new) /\ \A i \in DOMAIN type.indices : Fit(op, i, id, new)
    BY <2>1, BatchDone
  <2>3. Even(id, new)
    BY <2>1, <2>2, FitsEven
  <2>4. /\ Subject(id, new) /\ type' = type /\ trees' = b.trees /\ refs' = b.refs
        /\ \A a \in Ids : Current(a)' = IF a = id THEN DataOf(new) ELSE Current(a)
    BY <1>3 DEF Went, Operation
  <2> QED BY <1>1, <2>2, <2>3, <2>4, StageAgrees
<1> QED BY <1>2, <1>3, StepGoes

\* The empty store is in order.
LEMMA StoreInit == Init => StoreOK
<1> SUFFICES ASSUME Init PROVE StoreOK
  OBVIOUS
<1>1. PrimaryOK
  BY BoundAssumption DEF Init, PrimaryOK, Present
<1>2. Storing = {}
  BY DEF Init, Storing, Present
<1>3. DOMAIN refs = {}
  BY DEF Init
<1> QED BY <1>1, <1>2, <1>3 DEF StoreOK, ReferencesAgree, TreesAgree, Init

\* References and trees always agree with the stored documents.
THEOREM StoreAlwaysOK == Spec => []StoreOK
BY StoreInit, StoreKept, PTL DEF Spec

\* After any sequence of adds, updates and deletes, of any documents of any
\* type, the indices hold exactly the stored documents under their current
\* values, and the trees are exactly those above the references (IndicesAgree).
THEOREM IndicesAlwaysAgree == Spec => []IndicesAgree
<1>1. StoreOK => IndicesAgree
  <2> SUFFICES ASSUME StoreOK PROVE Range(refs) \subseteq Ids
    BY DEF StoreOK, IndicesAgree, TypeOK, PrimaryOK
  <2>1. ASSUME NEW p \in DOMAIN refs PROVE refs[p] \in Ids
    <3>1. PICK a \in Storing : p \in Entries(a)
      BY <2>1 DEF StoreOK, ReferencesAgree
    <3>2. refs[p] = a /\ a \in Ids
      BY <3>1 DEF StoreOK, ReferencesAgree, Storing
    <3> QED BY <3>2
  <2> QED BY <2>1 DEF Range
<1> QED BY <1>1, StoreAlwaysOK, PTL

\* Whatever was stored, changed and deleted before, exactly the stored documents
\* decide which operation is refused: an add for a document with the same values
\* that stands alone in a unique index, an update or a delete for a document
\* that stands in a tree of a unique index it has to leave (delete.rs:307).  No
\* earlier operation leaves anything in the way of a later one, and a delete
\* that goes through deletes every reference to the document (RefusedExactly).
THEOREM RefusedExactlyByStored == Spec => []RefusedExactly
BY StoreRefuses, StoreAlwaysOK, PTL

\* The store implements the table: every step creates, replaces or removes one
\* document of the table, as the table allows, or leaves the table alone
\* (TableSpec).
THEOREM StoreImplementsTable == Spec => TableSpec
<1>1. Init => Table!Init
  BY DEF Init, Table!Init, Current, Present
<1>2. StoreOK /\ [Next]_vars => [Table!Next]_(Table!vars)
  <2> SUFFICES ASSUME StoreOK, [Next]_vars PROVE [Table!Next]_(Table!vars)
    OBVIOUS
  <2>1. CASE type' = type /\ primary' = primary /\ trees' = trees /\ refs' = refs
    BY <2>1 DEF Table!vars, Current, Present
  <2>2. ASSUME NEW op \in {"add", "update", "delete"}, NEW id \in Ids, NEW new, NEW b, Went(op, id, new, b)
        PROVE  Table!Next
    <3>0. PrimaryOK /\ Nothing \notin Docs
      BY NothingApart DEF StoreOK
    <3>1. PICK t : t = [a \in Ids |-> Current(a)]
      OBVIOUS
    <3>2. [a \in Ids |-> Current(a)]' = [t EXCEPT ![id] = DataOf(new)]
      BY <2>2, <3>1 DEF Went
    <3>3. type' = type
      BY <2>2 DEF Went
    <3>4. Kept(id) = Nothing <=> Current(id) = NoDocument
      BY <3>0, KeptType, CurrentType
    <3>5. \A i \in DOMAIN type.indices : Fit(op, i, id, new)
      BY <2>2, BatchDone DEF Went
    <3>6. CASE op = "delete"
      <4>1. new = Nothing /\ Current(id) # NoDocument /\ type.mutable /\ ~ type.keepsHistory
        BY <2>2, <3>0, <3>4, <3>6 DEF Went, Operation
      <4>2. Table!Remove(id)
        BY <3>1, <3>2, <3>3, <4>1 DEF Table!Remove, DataOf
      <4> QED BY <4>2 DEF Table!Next
    <3>7. CASE op = "add" \/ op = "update"
      <4>1. new \in Docs /\ Operation(op, id, new)
        BY <2>2, <3>7 DEF Went, Operation
      <4>2. DataOf(new) = new.data /\ new.data \in Data
        BY <3>0, <4>1 DEF DataOf, Docs
      <4>3. Table!Free(id, new.data)
        BY <3>5, <4>1, FitsFree
      <4>4. CASE op = "add"
        <5>1. Current(id) = NoDocument
          BY <3>4, <4>1, <4>4 DEF Operation
        <5>2. Table!Create(id, new.data)
          BY <3>1, <3>2, <3>3, <4>2, <4>3, <5>1 DEF Table!Create
        <5> QED BY <4>2, <5>2 DEF Table!Next
      <4>5. CASE op = "update"
        <5>1. Current(id) # NoDocument /\ type.mutable
          BY <2>2, <3>4, <4>1, <4>5 DEF Operation, Went
        <5>2. Table!Replace(id, new.data)
          BY <3>1, <3>2, <3>3, <4>2, <4>3, <5>1 DEF Table!Replace
        <5> QED BY <4>2, <5>2 DEF Table!Next
      <4> QED BY <3>7, <4>4, <4>5
    <3> QED BY <3>6, <3>7
  <2> QED BY <2>1, <2>2, StepGoes
<1>3. Spec => Table!Spec
  BY <1>1, <1>2, StoreAlwaysOK, PTL DEF Spec, Table!Spec
<1> QED BY <1>3 DEF TableSpec

-----------------------------------------------------------------------------
(* What queries find in the indices.                                       *)

\* A stored document agrees with data on the first n properties of index i.
Agrees(i, n, id, data) ==
  \A t \in 1 .. n : Current(id)[Names(i)[t]] = data[Names(i)[t]]

\* What the subquery at the end of an index path finds when there is no start
\* document: the reference there, or the references below it (AtTerminal).
Found(index, path) ==
  IF index.unique /\ Last(path) # Empty
  THEN {refs[z] : z \in {Terminal(path)} \cap DOMAIN refs}
  ELSE IdsAt(Terminal(path))

\* Going down the trees of an index by any values, a query meets a tree as long
\* as a stored document has these values, and at the end it finds these
\* documents and no others: nothing of another index or of a document that was
\* changed or deleted (get_non_primary_key_path_query).  Of a unique index with
\* some values empty and some not, only the trees are: its documents stand at
\* the end or in a tree there, as an update or an insert put them.
LookupsExact ==
  \A i \in DOMAIN type.indices, data \in Data :
    LET index == type.indices[i]
        path == IndexPath(index.properties, data)
    IN /\ \A n \in 1 .. Len(Names(i)) :
            SubSeq(path, 1, 2 * n) \in trees <=> \E id \in Storing : Agrees(i, n, id, data)
       /\ ~ index.unique \/ ~ AnyFieldEmpty(index, data) \/ AllFieldsEmpty(index, data)
            => Found(index, path) = {id \in Storing : Agrees(i, Len(Names(i)), id, data)}

\* The references are the entries of the stored documents.
LEMMA RefsAre ==
  ASSUME StoreOK
  PROVE  /\ \A p \in DOMAIN refs : \E i \in DOMAIN type.indices, a \in Storing :
              p = Place(i, a, Kept(a))
         /\ \A i \in DOMAIN type.indices, a \in Storing :
              /\ a \in Ids /\ Kept(a) \in Docs /\ Kept(a).data = Current(a)
              /\ Place(i, a, Kept(a)) \in Paths
              /\ Place(i, a, Kept(a)) \in DOMAIN refs
              /\ refs[Place(i, a, Kept(a))] = a
         /\ \A q \in Paths : Len(q) >= 2 =>
              (q \in trees <=> \E p \in DOMAIN refs : Len(q) < Len(p) /\ Leads(q, p))
<1>0. PrimaryOK /\ ReferencesAgree /\ TreesAgree
  BY DEF StoreOK
<1>1. ASSUME NEW a \in Storing
      PROVE  a \in Ids /\ Kept(a) # Nothing /\ Kept(a) \in Docs /\ Kept(a).data = Current(a)
  <2>1. a \in Ids
    BY DEF Storing
  <2> QED BY <1>0, <2>1, KeptType
<1>2. ASSUME NEW p \in DOMAIN refs
      PROVE  \E i \in DOMAIN type.indices, a \in Storing : p = Place(i, a, Kept(a))
  <2>1. PICK a \in Storing : p \in Entries(a)
    BY <1>0 DEF ReferencesAgree
  <2>2. PICK i \in DOMAIN type.indices : p = Entry(type.indices[i], a)
    BY <2>1 DEF Entries
  <2> QED BY <1>1, <2>2, KeptPlaces
<1>3. ASSUME NEW i \in DOMAIN type.indices, NEW a \in Storing
      PROVE  /\ Place(i, a, Kept(a)) \in Paths
             /\ Place(i, a, Kept(a)) \in DOMAIN refs /\ refs[Place(i, a, Kept(a))] = a
  BY <1>0, <1>1, PlaceType, KeptPlaces
<1>4. DOMAIN refs \in SUBSET Paths
  BY <1>2, <1>3
<1>5. trees = Roots \cup Above(DOMAIN refs)
  <2>1. UNION {{SubSeq(p, 1, k) : k \in 1 .. Len(p) - 1} : p \in DOMAIN refs} = Above(DOMAIN refs)
    BY <1>4, AboveIsUnion
  <2> QED BY <1>0, <2>1 DEF TreesAgree, Roots
<1>6. ASSUME NEW q \in Paths, Len(q) >= 2
      PROVE  q \in trees <=> \E p \in DOMAIN refs : Len(q) < Len(p) /\ Leads(q, p)
  <2>1. q \notin Roots
    <3>1. ASSUME NEW k \in DOMAIN type.indices, q = <<type.indices[k].properties[1]>> PROVE FALSE
      <4>1. Len(q) = 1
        BY <3>1
      <4> QED BY <1>6, <4>1
    <3> QED BY <3>1 DEF Roots
  <2>2. Len(q) > 0
    BY <1>6, PathType
  <2> QED BY <1>5, <2>1, <2>2 DEF Above
<1> QED BY <1>1, <1>2, <1>3, <1>6

\* A level of an index leads to the path of a document in that index when they
\* agree on the properties so far, and to its path in another index only then.
LEMMA LevelAgrees ==
  ASSUME PrimaryOK, NEW i \in DOMAIN type.indices, NEW j \in DOMAIN type.indices,
         NEW new \in Docs, NEW d \in Docs, NEW n \in 1 .. Len(Names(i)),
         NEW q \in Paths, Len(q) = 2 * n, Leads(q, PathOf(i, new))
  PROVE  /\ (\A t \in 1 .. n : d.data[Names(i)[t]] = new.data[Names(i)[t]]) => Leads(q, PathOf(i, d))
         /\ Leads(q, PathOf(j, d)) => \A t \in 1 .. n : d.data[Names(i)[t]] = new.data[Names(i)[t]]
<1>1. PICK ps \in Seq(Properties), m \in Nat \ {0} :
        /\ ps = Names(i) /\ m = Len(ps)
        /\ Len(PathOf(i, new)) = 2 * m /\ Len(PathOf(i, d)) = 2 * m
        /\ \A t \in 1 .. m : /\ PathOf(i, new)[2 * t - 1] = ps[t]
                             /\ PathOf(i, new)[2 * t] = new.data[ps[t]]
        /\ \A t \in 1 .. m : /\ PathOf(i, d)[2 * t - 1] = ps[t]
                             /\ PathOf(i, d)[2 * t] = d.data[ps[t]]
  <2>1. /\ Names(i) \in Seq(Properties) /\ Len(Names(i)) \in Nat \ {0}
        /\ Len(PathOf(i, new)) = 2 * Len(Names(i)) /\ Len(PathOf(i, d)) = 2 * Len(Names(i))
    BY PathKeys
  <2>2. \A t \in 1 .. Len(Names(i)) : /\ PathOf(i, new)[2 * t - 1] = Names(i)[t]
                                      /\ PathOf(i, new)[2 * t] = new.data[Names(i)[t]]
    BY PathKeys
  <2>3. \A t \in 1 .. Len(Names(i)) : /\ PathOf(i, d)[2 * t - 1] = Names(i)[t]
                                      /\ PathOf(i, d)[2 * t] = d.data[Names(i)[t]]
    BY PathKeys
  <2> QED BY <2>1, <2>2, <2>3
<1>2. n \in 1 .. m /\ n \in Nat
  BY <1>1
<1>3. ASSUME \A t \in 1 .. n : d.data[ps[t]] = new.data[ps[t]] PROVE Leads(q, PathOf(i, d))
  <2>1. ASSUME NEW t \in 1 .. Len(q) PROVE q[t] = PathOf(i, d)[t]
    <3>1. PICK k \in 1 .. n : t = 2 * k - 1 \/ t = 2 * k
      BY <1>2, PathPositions
    <3>2. q[t] = PathOf(i, new)[t] /\ k \in 1 .. m
      BY <1>2 DEF Leads
    <3>3. CASE t = 2 * k - 1
      BY <1>1, <3>2, <3>3
    <3>4. CASE t = 2 * k
      BY <1>1, <1>3, <3>2, <3>4
    <3> QED BY <3>1, <3>3, <3>4
  <2> QED BY <1>1, <1>2, <2>1 DEF Leads
<1>4. ASSUME Leads(q, PathOf(j, d)), NEW t \in 1 .. n PROVE d.data[ps[t]] = new.data[ps[t]]
  <2>1. PICK qs \in Seq(Properties), l \in Nat \ {0} :
          /\ qs = Names(j) /\ l = Len(qs) /\ Len(PathOf(j, d)) = 2 * l
          /\ \A s \in 1 .. l : /\ PathOf(j, d)[2 * s - 1] = qs[s]
                               /\ PathOf(j, d)[2 * s] = d.data[qs[s]]
    <3>1. /\ Names(j) \in Seq(Properties) /\ Len(Names(j)) \in Nat \ {0}
          /\ Len(PathOf(j, d)) = 2 * Len(Names(j))
      BY PathKeys
    <3>2. \A s \in 1 .. Len(Names(j)) : /\ PathOf(j, d)[2 * s - 1] = Names(j)[s]
                                        /\ PathOf(j, d)[2 * s] = d.data[Names(j)[s]]
      BY PathKeys
    <3> QED BY <3>1, <3>2
  <2>2. 2 * n <= 2 * l
    BY <1>4, <2>1 DEF Leads
  <2>3. t \in 1 .. l /\ t \in 1 .. m /\ 2 * t - 1 \in 1 .. Len(q) /\ 2 * t \in 1 .. Len(q)
    BY <1>2, <2>1, <2>2
  <2>4. q[2 * t - 1] = ps[t] /\ q[2 * t] = new.data[ps[t]]
    BY <1>1, <2>3 DEF Leads
  <2>5. q[2 * t - 1] = qs[t] /\ q[2 * t] = d.data[qs[t]]
    BY <1>4, <2>1, <2>3 DEF Leads
  <2> QED BY <2>4, <2>5
<1> QED BY <1>1, <1>3, <1>4

\* The level of an index.
LEMMA LevelIs ==
  ASSUME PrimaryOK, NEW i \in DOMAIN type.indices, NEW new \in Docs, NEW n \in 1 .. Len(Names(i))
  PROVE  /\ SubSeq(PathOf(i, new), 1, 2 * n) \in Paths
         /\ Len(SubSeq(PathOf(i, new), 1, 2 * n)) = 2 * n
         /\ Leads(SubSeq(PathOf(i, new), 1, 2 * n), PathOf(i, new))
<1>1. PICK p \in Paths, m \in Nat \ {0} : p = PathOf(i, new) /\ m = Len(Names(i)) /\ Len(p) = 2 * m
  <2>1. Len(Names(i)) \in Nat \ {0} /\ PathOf(i, new) \in Paths
        /\ Len(PathOf(i, new)) = 2 * Len(Names(i))
    BY PathKeys
  <2> QED BY <2>1
<1>2. 2 * n \in 0 .. Len(p)
  BY <1>1
<1> QED BY <1>1, <1>2, CutPath

\* A query meets a tree as long as a stored document has the values.
LEMMA LevelsExact ==
  ASSUME StoreOK, NEW i \in DOMAIN type.indices, NEW new \in Docs, NEW n \in 1 .. Len(Names(i))
  PROVE  SubSeq(PathOf(i, new), 1, 2 * n) \in trees
           <=> \E id \in Storing : Agrees(i, n, id, new.data)
<1>0. PrimaryOK
  BY DEF StoreOK
<1>1. PICK q \in Paths : /\ q = SubSeq(PathOf(i, new), 1, 2 * n) /\ Len(q) = 2 * n
                         /\ Leads(q, PathOf(i, new))
  BY <1>0, LevelIs
<1>a. Len(q) = 2 * n /\ Leads(q, PathOf(i, new))
  BY <1>1
<1>2. PICK m \in Nat \ {0} : m = Len(Names(i)) /\ Depth(i) = 2 * m
  BY <1>0, PathKeys
<1>3. n \in Nat /\ n >= 1 /\ n <= m /\ Len(q) >= 2
  BY <1>1, <1>2
<1>4. q \in trees <=> \E p \in DOMAIN refs : Len(q) < Len(p) /\ Leads(q, p)
  BY <1>3, RefsAre
<1>5. ASSUME NEW p \in DOMAIN refs, Leads(q, p) PROVE \E id \in Storing : Agrees(i, n, id, new.data)
  <2>1. PICK j \in DOMAIN type.indices, a \in Storing : p = Place(j, a, Kept(a))
    BY RefsAre
  <2>2. PICK d \in Docs : d = Kept(a) /\ d.data = Current(a) /\ a \in Ids
    BY RefsAre
  <2>3. Leads(q, PathOf(j, d))
    BY <1>0, <1>1, <1>5, <2>1, <2>2, LevelStops
  <2>4. Leads(q, PathOf(j, d)) => \A t \in 1 .. n : d.data[Names(i)[t]] = new.data[Names(i)[t]]
    BY <1>0, <1>a, LevelAgrees
  <2> QED BY <2>2, <2>3, <2>4 DEF Agrees
<1>6. ASSUME NEW a \in Storing, Agrees(i, n, a, new.data)
      PROVE  \E p \in DOMAIN refs : Len(q) < Len(p) /\ Leads(q, p)
  <2>1. PICK d \in Docs : d = Kept(a) /\ d.data = Current(a) /\ a \in Ids
    BY RefsAre
  <2>2. PICK p \in Paths : p = Place(i, a, d) /\ p \in DOMAIN refs
    BY <2>1, RefsAre
  <2>3. \A t \in 1 .. n : d.data[Names(i)[t]] = new.data[Names(i)[t]]
    BY <1>6, <2>1 DEF Agrees
  <2>4. Leads(q, PathOf(i, d))
    <3>1. (\A t \in 1 .. n : d.data[Names(i)[t]] = new.data[Names(i)[t]]) => Leads(q, PathOf(i, d))
      BY <1>0, <1>a, LevelAgrees
    <3> QED BY <2>3, <3>1
  <2>5. PathOf(i, d) \in Paths /\ Leads(PathOf(i, d), p) /\ Depth(i) < Len(p)
    <3>1. PathOf(i, d) \in Paths /\ Leads(PathOf(i, d), p)
      BY <1>0, <2>1, <2>2, PlaceType
    <3>2. Depth(i) < Len(p)
      BY <1>0, <2>1, <2>2, PlaceLong
    <3> QED BY <3>1, <3>2
  <2>6. Leads(q, p)
    BY <2>4, <2>5, LeadsOn
  <2>7. Len(p) \in Nat
    BY PathType
  <2>8. Len(q) < Len(p)
    BY <1>1, <1>2, <1>3, <2>5, <2>7
  <2> QED BY <2>2, <2>6, <2>8
<1> QED BY <1>1, <1>4, <1>5, <1>6

\* Documents that agree on all properties of an index have the same path.
LEMMA AgreeingPaths ==
  ASSUME PrimaryOK, NEW i \in DOMAIN type.indices, NEW new \in Docs, NEW d \in Docs
  PROVE  PathOf(i, d) = PathOf(i, new)
           <=> \A t \in 1 .. Len(Names(i)) : d.data[Names(i)[t]] = new.data[Names(i)[t]]
<1>1. PICK n \in Nat \ {0} : n = Len(Names(i))
  BY PathKeys
<1>2. PICK p \in Paths, q \in Paths : /\ p = PathOf(i, d) /\ Len(p) = 2 * n
                                      /\ q = PathOf(i, new) /\ Len(q) = 2 * n
  BY <1>1, PathKeys
<1>3. Leads(q, q) /\ n \in 1 .. Len(Names(i))
  BY <1>1, <1>2, PathType DEF Leads
<1>4. ASSUME \A t \in 1 .. n : d.data[Names(i)[t]] = new.data[Names(i)[t]] PROVE p = q
  <2>1. Leads(q, PathOf(i, d))
    BY <1>2, <1>3, <1>4, LevelAgrees
  <2> QED BY <1>2, <2>1, PathsEqual
<1>5. ASSUME p = q PROVE \A t \in 1 .. n : d.data[Names(i)[t]] = new.data[Names(i)[t]]
  <2>1. Leads(q, PathOf(i, d))
    BY <1>2, <1>3, <1>5
  <2> QED BY <1>2, <1>3, <2>1, LevelAgrees
<1> QED BY <1>1, <1>2, <1>4, <1>5

\* The references at or below the end of an index path are those of the stored
\* documents with that path in that index.
LEMMA EndMeets ==
  ASSUME StoreOK, NEW i \in DOMAIN type.indices, NEW new \in Docs, NEW r \in DOMAIN refs,
         Leads(Terminal(PathOf(i, new)), r)
  PROVE  \E a \in Storing : /\ Agrees(i, Len(Names(i)), a, new.data) /\ refs[r] = a
                            /\ r = Place(i, a, Kept(a))
<1>0. PrimaryOK
  BY DEF StoreOK
<1>1. PICK j \in DOMAIN type.indices, a \in Storing : r = Place(j, a, Kept(a))
  BY RefsAre
<1>2. PICK d \in Docs : d = Kept(a) /\ d.data = Current(a) /\ a \in Ids
  BY RefsAre
<1>3. Leads(Terminal(PathOf(i, new)), Place(j, a, d))
  BY <1>1, <1>2
<1>4. j = i /\ PathOf(j, d) = PathOf(i, new)
  BY <1>0, <1>2, <1>3, ZeroMeets
<1>5. PathOf(i, d) = PathOf(i, new)
        <=> \A t \in 1 .. Len(Names(i)) : d.data[Names(i)[t]] = new.data[Names(i)[t]]
  BY <1>0, AgreeingPaths
<1>6. Agrees(i, Len(Names(i)), a, new.data)
  BY <1>2, <1>4, <1>5 DEF Agrees
<1>7. refs[r] = a
  BY <1>1, RefsAre
<1> QED BY <1>1, <1>4, <1>6, <1>7

\* Whether the documents with the values of new stand in a tree of index i.
Shared(i, new) == ~ type.indices[i].unique \/ AllFieldsEmpty(type.indices[i], new.data)

\* And those documents have their references there, in a tree or at its place.
LEMMA EndHolds ==
  ASSUME StoreOK, NEW i \in DOMAIN type.indices, NEW new \in Docs, NEW a \in Storing,
         Agrees(i, Len(Names(i)), a, new.data),
         Shared(i, new) \/ ~ AnyFieldEmpty(type.indices[i], new.data)
  PROVE  LET zero == Terminal(PathOf(i, new))
             place == IF Shared(i, new) THEN Append(zero, a) ELSE zero
         IN a \in Ids /\ place \in DOMAIN refs /\ refs[place] = a /\ place = Place(i, a, Kept(a))
<1>0. PrimaryOK
  BY DEF StoreOK
<1>1. PICK d \in Docs : d = Kept(a) /\ d.data = Current(a) /\ a \in Ids
  BY RefsAre
<1>2. Place(i, a, d) \in DOMAIN refs /\ refs[Place(i, a, d)] = a
  BY <1>1, RefsAre
<1>3. \A t \in 1 .. Len(Names(i)) : d.data[Names(i)[t]] = new.data[Names(i)[t]]
  BY <1>1 DEF Agrees
<1>4. PathOf(i, d) = PathOf(i, new)
  <2>1. PathOf(i, d) = PathOf(i, new)
          <=> \A t \in 1 .. Len(Names(i)) : d.data[Names(i)[t]] = new.data[Names(i)[t]]
    BY <1>0, AgreeingPaths
  <2> QED BY <1>3, <2>1
<1>5. Laid(d)
  <2>1. Kept(a) # Nothing
    BY <1>1, NothingApart
  <2> QED BY <1>1, <2>1, KeptPlaces
<1>6. i \in d.within <=> Shared(i, new)
  <2>1. /\ AnyFieldEmpty(type.indices[i], d.data) <=> AnyFieldEmpty(type.indices[i], new.data)
        /\ AllFieldsEmpty(type.indices[i], d.data) <=> AllFieldsEmpty(type.indices[i], new.data)
    BY <1>0, <1>4, EmptySame
  <2> QED BY <1>5, <2>1 DEF Laid, Shared
<1>7. Place(i, a, d) = IF Shared(i, new) THEN Append(Terminal(PathOf(i, new)), a)
                       ELSE Terminal(PathOf(i, new))
  BY <1>4, <1>6 DEF Place
<1> QED BY <1>1, <1>2, <1>7

\* At the end of an index path a query finds the documents with these values.
LEMMA EndExact ==
  ASSUME StoreOK, NEW i \in DOMAIN type.indices, NEW new \in Docs,
         Shared(i, new) \/ ~ AnyFieldEmpty(type.indices[i], new.data)
  PROVE  Found(type.indices[i], PathOf(i, new))
           = {id \in Storing : Agrees(i, Len(Names(i)), id, new.data)}
<1>0. PrimaryOK
  BY DEF StoreOK
<1>1. PICK S : S = {id \in Storing : Agrees(i, Len(Names(i)), id, new.data)}
  OBVIOUS
<1>2. PICK p \in Paths, n \in Nat \ {0} :
        /\ p = PathOf(i, new) /\ n = Len(Names(i)) /\ Len(p) = 2 * n
        /\ Last(p) = new.data[Names(i)[n]] /\ n \in DOMAIN type.indices[i].properties
  <2>1. PICK ps \in Seq(Properties), n \in Nat \ {0} : ps = Names(i) /\ n = Len(ps)
    BY <1>0, PathKeys
  <2>2. Len(PathOf(i, new)) = 2 * n /\ n \in 1 .. Len(ps) /\ n \in DOMAIN ps /\ PathOf(i, new) \in Paths
    BY <1>0, <2>1, PathKeys
  <2>3. PathOf(i, new)[2 * n] = new.data[ps[n]]
    BY <1>0, <2>1, <2>2, PathKeys
  <2> QED BY <2>1, <2>2, <2>3 DEF Last, Names
<1>3. PICK z \in Paths : z = Terminal(p) /\ Leads(z, z)
  <2>1. "0" \in Keys
    BY DEF Keys
  <2>2. Terminal(p) \in Paths
    BY <2>1, AppendPath DEF Terminal
  <2> QED BY <2>2, PathType DEF Leads
<1>4. type.indices[i].unique /\ Last(p) # Empty <=> ~ Shared(i, new)
  BY <1>2 DEF Shared, AllFieldsEmpty, AnyFieldEmpty, Names
<1>5. ASSUME NEW a \in S
      PROVE  LET place == IF Shared(i, new) THEN Append(z, a) ELSE z
             IN a \in Ids /\ place \in DOMAIN refs /\ refs[place] = a
  <2>1. a \in Storing /\ Agrees(i, Len(Names(i)), a, new.data)
    BY <1>1
  <2> QED BY <1>2, <1>3, <2>1, EndHolds
<1>6. ASSUME NEW r \in DOMAIN refs, Leads(z, r) PROVE refs[r] \in S
  <2>1. PICK a \in Storing : Agrees(i, Len(Names(i)), a, new.data) /\ refs[r] = a
    BY <1>2, <1>3, <1>6, EndMeets
  <2> QED BY <1>1, <2>1
<1>7. CASE ~ Shared(i, new)
  <2>1. Found(type.indices[i], p) = {refs[y] : y \in {z} \cap DOMAIN refs}
    BY <1>3, <1>4, <1>7 DEF Found
  <2>2. ASSUME NEW a \in S PROVE z \in DOMAIN refs /\ refs[z] = a
    BY <1>5, <1>7
  <2>3. ASSUME z \in DOMAIN refs PROVE refs[z] \in S
    BY <1>3, <1>6, <2>3
  <2> QED BY <1>1, <1>2, <2>1, <2>2, <2>3
<1>8. CASE Shared(i, new)
  <2>1. Found(type.indices[i], p)
          = {refs[r] : r \in {r \in DOMAIN refs : Len(r) = Len(z) + 1 /\ IsPrefix(z, r)}}
    BY <1>3, <1>4, <1>8 DEF Found, IdsAt
  <2>2. ASSUME NEW a \in S
        PROVE  \E r \in DOMAIN refs : Len(r) = Len(z) + 1 /\ IsPrefix(z, r) /\ refs[r] = a
    <3>1. PICK r \in DOMAIN refs : r = Append(z, a) /\ refs[r] = a /\ a \in Ids
      BY <1>5, <1>8
    <3>2. a \in Keys
      BY <3>1 DEF Keys
    <3>3. r \in Paths /\ Leads(z, r) /\ Len(r) = Len(z) + 1
      BY <3>1, <3>2, AppendPath
    <3>4. IsPrefix(z, r)
      BY <3>3, PrefixLeads
    <3> QED BY <3>1, <3>3, <3>4
  <2>3. ASSUME NEW r \in DOMAIN refs, Len(r) = Len(z) + 1, IsPrefix(z, r) PROVE refs[r] \in S
    <3>1. PICK j \in DOMAIN type.indices, b \in Storing : r = Place(j, b, Kept(b))
      BY RefsAre
    <3>2. r \in Paths
      BY <3>1, RefsAre
    <3>3. Leads(z, r)
      BY <2>3, <3>2, PrefixLeads
    <3> QED BY <1>6, <3>3
  <2> QED BY <1>1, <1>2, <2>1, <2>2, <2>3
<1> QED BY <1>7, <1>8

\* The queries of a client change nothing of the store: all that is proved of
\* it holds while a client follows pages.
THEOREM QueriesKeepStore == QuerySpec => Spec
<1>1. QueryInit => Init
  BY DEF QueryInit
<1>2. PrimaryOK /\ [QueryNext]_queryVars => [Next]_vars
  <2> SUFFICES ASSUME PrimaryOK, [QueryNext]_queryVars PROVE [Next]_vars
    OBVIOUS
  <2>1. ASSUME QueryNext PROVE Next \/ UNCHANGED vars
    <3>1. CASE NextBlock
      BY <3>1 DEF Next
    <3>2. ASSUME NEW id \in Ids, NEW data \in StoredData(type), Store(id, data) PROVE Next
      <4>1. data \in Data
        BY StoredAssumption DEF PrimaryOK
      <4> QED BY <3>2, <4>1 DEF Store, Next
    <3>3. CASE \E q \in Readable : Ask(q)
      BY <3>3 DEF Ask
    <3>4. CASE NextPage
      BY <3>4 DEF NextPage
    <3> QED BY <2>1, <3>1, <3>2, <3>3, <3>4 DEF QueryNext
  <2> QED BY <2>1 DEF queryVars
<1>3. Init => PrimaryOK
  BY StoreInit DEF StoreOK
<1> QED BY <1>1, <1>2, <1>3, PrimaryKept, PTL DEF QuerySpec, Spec

\* Whatever documents were stored before, every lookup of a query is exact
\* (LookupsExact).
THEOREM LookupsAlwaysExact == QuerySpec => []LookupsExact
<1>1. StoreOK => LookupsExact
  <2> SUFFICES ASSUME StoreOK, NEW i \in DOMAIN type.indices, NEW data \in Data
               PROVE  /\ \A n \in 1 .. Len(Names(i)) :
                           SubSeq(IndexPath(type.indices[i].properties, data), 1, 2 * n) \in trees
                             <=> \E id \in Storing : Agrees(i, n, id, data)
                      /\ \/ ~ type.indices[i].unique
                         \/ ~ AnyFieldEmpty(type.indices[i], data)
                         \/ AllFieldsEmpty(type.indices[i], data)
                         => Found(type.indices[i], IndexPath(type.indices[i].properties, data))
                              = {id \in Storing : Agrees(i, Len(Names(i)), id, data)}
    BY DEF LookupsExact
  <2>1. PICK new \in Docs : new.data = data
    <3>1. [data |-> data, within |-> {}] \in Docs
      BY DEF Docs
    <3> QED BY <3>1
  <2>2. PathOf(i, new) = IndexPath(type.indices[i].properties, data)
    BY <2>1 DEF PathOf
  <2>3. \A n \in 1 .. Len(Names(i)) :
          SubSeq(PathOf(i, new), 1, 2 * n) \in trees <=> \E id \in Storing : Agrees(i, n, id, new.data)
    BY LevelsExact
  <2>4. ASSUME Shared(i, new) \/ ~ AnyFieldEmpty(type.indices[i], new.data)
        PROVE  Found(type.indices[i], PathOf(i, new))
                 = {id \in Storing : Agrees(i, Len(Names(i)), id, new.data)}
    BY <2>4, EndExact
  <2> QED BY <2>1, <2>2, <2>3, <2>4 DEF Shared
<1> QED BY <1>1, QueriesKeepStore, StoreAlwaysOK, PTL
==============================================================================
