-------------------------- MODULE MCDocumentsBatch --------------------------
(* Small instances of DocumentsBatch.  Every behaviour has clients of one  *)
(* kind: notes (two unique indices), batches of two notes with data that   *)
(* agree on none or on one of the indices, pairs (a unique index of two    *)
(* optional properties), dated documents, domain names, documents of the   *)
(* other system contracts, and a contract that is updated.                 *)
EXTENDS DocumentsBatch

MCTypeValues ==
  [integer |-> 0 .. 20, small |-> {0}, boolean |-> BOOLEAN, string |-> {"x", "y", "s"},
   path |-> {<<>>, <<"x">>, <<"y">>}, bytes |-> {<<"s", "x">>, <<"s", "y">>}, owners |-> SUBSET {"o1", "o2"},
   identity |-> {"o1", "o2"}]

Index(name, unique, properties) == [name |-> name, unique |-> unique, properties |-> properties]

Schema(properties, required, indices) ==
  [properties |-> properties, required |-> required, indices |-> indices]

Contract(documents) == [version |-> 1, base |-> "c", defs |-> [d |-> Defined("integer")],
                        documents |-> documents]

Note == Schema([a |-> Defined("integer"), b |-> Defined("integer")], <<"a">>,
               <<Index("ia", TRUE, <<"a">>), Index("ib", TRUE, <<"b">>)>>)

\* A unique index whose properties are both optional, beside one that any
\* document can be in.
Pair == Schema([c |-> Defined("integer"), d |-> Defined("integer")], <<>>,
               <<Index("icd", TRUE, <<"c", "d">>), Index("id", FALSE, <<"d">>)>>)

Event == Schema([a |-> Defined("integer")], <<"$createdAt", "$updatedAt">>,
                <<Index("times", TRUE, <<"$ownerId", "$updatedAt">>)>>)

Item == Schema([a |-> Defined("integer"), b |-> Defined("integer"), r |-> Reference("d")], <<"a">>,
               <<Index("ia", TRUE, <<"a">>), Index("ib", FALSE, <<"b">>)>>)

Items(version, schema, type) ==
  [version |-> version, base |-> "c", defs |-> [d |-> Defined(type)], documents |-> [item |-> schema]]

\* New contracts: another definition, no required property or one more, a new
\* optional property, a changed property, a second reference to a definition,
\* indices with one property more, an index gone, a new index, a version left
\* out.
ItemUpdates ==
  LET more == [Item EXCEPT !.properties = @ @@ [n |-> Defined("integer")]] IN
  {Items(2, Item, "small"), Items(2, more, "integer"), Items(3, more, "integer"),
   Items(2, [Item EXCEPT !.required = <<>>], "integer"),
   Items(2, [Item EXCEPT !.required = <<"a", "b">>], "integer"),
   Items(2, [Item EXCEPT !.properties["a"] = Defined("small")], "integer"),
   Items(2, [Item EXCEPT !.indices[1].properties = <<"a", "b">>, !.required = <<"a">>], "integer"),
   Items(2, [Item EXCEPT !.indices[1].properties = <<"a", "$ownerId">>], "integer"),
   Items(2, [Item EXCEPT !.properties = @ @@ [s |-> Reference("d")]], "integer"),
   Items(2, [Item EXCEPT !.indices = <<@[1]>>], "integer"),
   Items(2, [Item EXCEPT !.indices = Append(@, Index("in", FALSE, <<"r">>))], "integer"),
   Items(3, [more EXCEPT !.indices[2].properties = <<"b", "n">>], "integer")}

MCInitialContracts ==
  [notes |-> Contract([note |-> Note, pair |-> Pair]),
   events |-> Contract([event |-> Event]),
   items |-> Items(1, Item, "integer"),
   dpns |-> Contract(
     [domain |-> Schema([label |-> Defined("string"), parent |-> Defined("path"),
                         allow |-> Defined("boolean"), salt |-> Defined("string"),
                         normalized |-> Defined("boolean"), records |-> Defined("owners")],
                        <<"label", "parent">>, <<Index("name", TRUE, <<"parent", "label">>)>>),
      preorder |-> Schema([hash |-> Defined("bytes")], <<"hash">>, <<Index("hash", TRUE, <<"hash">>)>>)]),
   dashpay |-> Contract(
     [contactRequest |-> Schema([coreHeight |-> Defined("integer")], <<"coreHeight">>, <<>>)]),
   featureFlags |-> Contract(
     [updateConsensusParams |-> Schema([enableAt |-> Defined("integer")], <<"enableAt">>, <<>>)]),
   rewardShares |-> Contract(
     [rewardShare |-> Schema([payTo |-> Defined("identity"), percentage |-> Defined("integer")],
                             <<"payTo">>, <<>>)])]

MCImmutable == {<<"dpns", "preorder">>}

Id(contract, type, owner, entropy) ==
  [contract |-> contract, type |-> type, owner |-> owner, entropy |-> entropy]

NoUpdates == [c \in {} |-> {}]

Notes(ids, data, size) ==
  [ids |-> ids, data |-> [note |-> data], updates |-> NoUpdates, size |-> size]

MCClients == {
  Notes({Id("notes", "note", "o1", 1), Id("notes", "note", "o2", 1)},
        {[a |-> 1], [a |-> 2, b |-> 1], [a |-> 1, b |-> 1], [b |-> 1]}, 1),
  Notes({Id("notes", "note", "o1", 1), Id("notes", "note", "o1", 2)},
        {[a |-> 1], [a |-> 2, b |-> 1]}, 2),
  Notes({Id("notes", "note", "o1", 1), Id("notes", "note", "o1", 2)},
        {[a |-> 1], [a |-> 1, b |-> 1]}, 2),
  [ids |-> {Id("notes", "pair", "o1", 1), Id("notes", "pair", "o2", 1)},
   data |-> [pair |-> {<<>>, [c |-> 1], [c |-> 1, d |-> 1]}], updates |-> NoUpdates, size |-> 1],
  [ids |-> {Id("events", "event", "o1", 1), Id("events", "event", "o1", 2)},
   data |-> [event |-> {[a |-> 1]}], updates |-> NoUpdates, size |-> 1],
  [ids |-> {Id("dpns", "domain", "o1", 1), Id("dpns", "domain", "o2", 1), Id("dpns", "preorder", "o2", 1)},
   data |-> [domain |-> {[label |-> l, parent |-> p, allow |-> l = "x", salt |-> "s",
                          normalized |-> TRUE, records |-> {"o1"}] :
                           <<l, p>> \in {<<"x", <<>> >>, <<"y", <<"x">> >>, <<"x", <<"y">> >>}},
             preorder |-> {[hash |-> <<"s", "y">>]}],
   updates |-> NoUpdates, size |-> 1],
  [ids |-> {Id("dashpay", "contactRequest", "o1", 1), Id("rewardShares", "rewardShare", "o1", 1),
            Id("featureFlags", "updateConsensusParams", "o2", 1)},
   data |-> [contactRequest |-> {[coreHeight |-> 0], [coreHeight |-> 20]},
             updateConsensusParams |-> {[enableAt |-> 0]},
             rewardShare |-> {[payTo |-> "o2", percentage |-> 1]}],
   updates |-> NoUpdates, size |-> 1],
  [ids |-> {Id("items", "item", "o1", 1), Id("items", "item", "o1", 2)},
   data |-> [item |-> {[a |-> 1], [a |-> 2, b |-> 1, r |-> 1], [b |-> 1]}],
   updates |-> [items |-> ItemUpdates], size |-> 1]}
=============================================================================
