-------------------------- MODULE MCDriveOperations --------------------------
(* A small instance: two documents, one with flags that name its owner; a   *)
(* type with a field of every kind and an object, a mutable type with an     *)
(* array in a contract whose default is immutable, and an immutable type.   *)
EXTENDS DriveOperations

Leaf(type) ==
    [type |-> type, byteArray |-> FALSE, ref |-> "none", properties |-> [k \in {} |-> 0]]

MCIds == {<<1, 2>>, <<2, 1>>}
MCOwnerOf == [id \in MCIds |-> IF id = <<1, 2>> THEN <<9, 3>> ELSE <<4, 12>>]
MCOwned == {<<1, 2>>}

Flat ==
    [properties |-> [n |-> Leaf("integer"), x |-> Leaf("number"), s |-> Leaf("string"),
                     b |-> Leaf("boolean"), y |-> [Leaf("array") EXCEPT !.byteArray = TRUE],
                     r |-> [Leaf("none") EXCEPT !.ref = "d"],
                     o |-> [Leaf("object") EXCEPT !.properties = [k |-> Leaf("integer")]]],
     required |-> {"n", "$createdAt"}]

With(names, f) == [n \in {<<k>> : k \in names} |-> f[n[1]]]

F1 == With({"$createdAt", "n", "x", "s", "b", "y", "o"},
           [n |-> Integer(0 - 128), x |-> Float(1, 2), s |-> Text(<< >>), b |-> Bool(TRUE),
            y |-> Bytes(<< >>), o |-> Map(1)] @@ ("$createdAt" :> Integer(5)))
F2 == With({"$createdAt", "n", "x", "s", "b", "y", "o"},
           [n |-> Integer(2), x |-> Integer(1), s |-> Text(<<0>>), b |-> Bool(FALSE),
            y |-> Bytes(<<3, 0>>), o |-> Map(0 - 1)] @@ ("$createdAt" :> Float(0, 6)))
F3 == With({"$createdAt", "x", "s", "y", "r"},
           [x |-> Float(1, 1), s |-> Text(<<2, 1, 1, 1, 1, 1, 1, 1, 1>>),
            y |-> Array(<<3>>), r |-> Bool(TRUE)] @@ ("$createdAt" :> Float(0, 5)))
Listed == [properties |-> [a |-> Leaf("array")], documentsMutable |-> TRUE]
A1 == With({"a"}, [a |-> Array(<<1, 0>>)])

Fixed == [properties |-> [a |-> Leaf("boolean")]]
B1 == With({"a"}, [a |-> Bool(TRUE)])

Contract(schema) == "documents" :> ("doc" :> schema)
Immutable == "documentsMutableContractDefault" :> FALSE

MCKinds == {[contract |-> Contract(Flat) @@ ("$defs" :> [d |-> Leaf("boolean")]),
             contents |-> {F1, F2, F3}],
            [contract |-> Contract(Listed) @@ Immutable, contents |-> {A1}],
            [contract |-> Contract(Fixed) @@ Immutable, contents |-> {B1}]}
MCPairs == {F2, A1, B1}
=============================================================================
