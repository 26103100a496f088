--------------------------- MODULE MCDocumentQuery ---------------------------
(***************************************************************************)
(* Three documents, keys of which one is the beginning of another, a type  *)
(* with a unique index of two properties and an index of one, and one with *)
(* history; queries by id, with every operator on the first and on the     *)
(* second property, and in both directions.                                *)
(***************************************************************************)
EXTENDS DocumentQuery

on(properties, unique) == [properties |-> properties, unique |-> unique]
ofType(indices, keepsHistory) ==
  [indices |-> indices, mutable |-> TRUE, keepsHistory |-> keepsHistory]

MCDocumentTypes ==
  {ofType(<<on(<<"a", "b">>, TRUE), on(<<"a">>, FALSE)>>, FALSE),
   ofType(<<on(<<"a">>, TRUE)>>, TRUE)}

Low == <<1>>
Mid == <<1, 1>>
High == <<2>>
MCIds == {<<3>>, <<4>>, <<5>>}
MCValues == {<<>>, Low, Mid, High}
MCEmpty == <<>>
MCStoredData(t) ==
  {[a |-> v, b |-> Mid] : v \in {Low, Mid, High}}
  \cup (IF t.keepsHistory THEN {} ELSE {[a |-> Low, b |-> w] : w \in {Low, High}})

clause(field, op, value) == [field |-> field, op |-> op, value |-> value]
order(fields, asc) == [k \in DOMAIN fields |-> [field |-> fields[k], asc |-> asc]]
query(where, orderBy, limit, blockTime) ==
  [where |-> where, orderBy |-> orderBy, limit |-> limit, start |-> NoStart, blockTime |-> blockTime]

Ranges(field) ==
  {<<clause(field, op, Mid)>> : op \in Groupable}
  \cup {<<clause(field, "StartsWith", Low)>>}
  \cup {<<clause(field, op, <<Low, High>>)>> : op \in Betweens \cup {"In"}}
  \cup {<<clause(field, lower, Low), clause(field, upper, High)>> :
          lower \in LowerBounds, upper \in UpperBounds}

ById ==
  {query(<<>>, o, n, NoTime) : o \in {<<>>, order(<<"$id">>, FALSE)}, n \in {1, 2}}
  \cup {query(<<clause("$id", "Equal", <<4>>)>>, <<>>, 1, t) : t \in {NoTime, 1}}
  \cup {query(<<clause("$id", "In", <<<<3>>, <<5>>>>)>>, o, 1, NoTime) :
          o \in {<<>>, order(<<"$id">>, FALSE)}}

ByIndex ==
  {query(<<>>, order(<<"a">>, TRUE), n, NoTime) : n \in {1, 2}}
  \cup {query(<<>>, order(<<"a", "b">>, TRUE), 2, NoTime)}
  \cup {query(<<clause("a", "Equal", Low)>>, <<>>, 2, NoTime),
        query(<<clause("a", "Equal", Low), clause("b", "Equal", Mid)>>, <<>>, 2, NoTime),
        query(<<clause("a", "In", <<High, Low>>), clause("b", "GreaterThan", Low)>>,
              order(<<"a", "b">>, TRUE), 2, NoTime),
        query(<<clause("a", "Equal", Low), clause("a", "Equal", Mid)>>, <<>>, 2, NoTime)}
  \cup {query(r, order(<<"a">>, asc), 1, NoTime) : r \in Ranges("a"), asc \in BOOLEAN}
  \cup {query(<<clause("a", "Equal", Low)>> \o r, order(<<"b">>, asc), 1, NoTime) :
          r \in Ranges("b"), asc \in BOOLEAN}

comparison(field, op, value, first) ==
  [field |-> field, op |-> op, value |-> value, valueFirst |-> first]

MCSqlQueries ==
  {[where |-> <<comparison("a", "Equal", Low, FALSE), comparison("b", op, Mid, TRUE)>>,
    orderBy |-> order(<<"b">>, FALSE), limit |-> n] : op \in DOMAIN Flip, n \in {0, 2, 1000}}

MCQueries == ById \cup ByIndex
=============================================================================
