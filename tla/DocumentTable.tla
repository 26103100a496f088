---------------------------- MODULE DocumentTable ----------------------------
(***************************************************************************)
(* What the document storage of Drive promises its callers about the       *)
(* documents of one type: a table from document ids to the values of the   *)
(* indexed properties, in which no two documents agree on all properties   *)
(* of a unique index unless one of them is empty.                          *)
(*                                                                         *)
(* The trees, references and histories that DocumentStore keeps to provide *)
(* this do not appear here.                                                *)
(***************************************************************************)
CONSTANTS
  Ids,        \* document ids
  Data,       \* functions from indexed properties to values
  Empty,      \* the value of a property that a document does not have
  NoDocument  \* no document is stored under an id

VARIABLES
  table,      \* the document under each id
  rules       \* [unique, mutable, keepsHistory] of the type, never changed

vars == <<table, rules>>

\* Two documents stand under the same entry of a unique index.
Clash(d, e) ==
  \E properties \in rules.unique :
    \A p \in properties : d[p] = e[p] /\ d[p] # Empty

\* Whether the table admits data under id.
Free(id, data) ==
  \A other \in Ids \ {id} : table[other] # NoDocument => ~ Clash(table[other], data)

Init == table = [id \in Ids |-> NoDocument]

Create(id, data) ==
  /\ table[id] = NoDocument
  /\ Free(id, data)
  /\ table' = [table EXCEPT ![id] = data]
  /\ UNCHANGED rules

Replace(id, data) ==
  /\ rules.mutable
  /\ table[id] # NoDocument
  /\ Free(id, data)
  /\ table' = [table EXCEPT ![id] = data]
  /\ UNCHANGED rules

Remove(id) ==
  /\ rules.mutable /\ ~ rules.keepsHistory
  /\ table[id] # NoDocument
  /\ table' = [table EXCEPT ![id] = NoDocument]
  /\ UNCHANGED rules

Next == \E id \in Ids : Remove(id) \/ \E d \in Data : Create(id, d) \/ Replace(id, d)

Spec == Init /\ [][Next]_vars
=============================================================================
