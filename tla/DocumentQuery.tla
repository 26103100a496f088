---------------------------- MODULE DocumentQuery ----------------------------
(***************************************************************************)
(* Queries over the documents of one type (drive/src/query): the where     *)
(* clauses are grouped, an index is chosen, a path query over the trees of *)
(* that index is built and GroveDB evaluates it.  A client asks a query    *)
(* and follows its pages with startAfter.                                  *)
(*                                                                         *)
(* Values of properties and document ids are the keys that                 *)
(* serialize_value_for_key makes of them: byte strings, here sequences of  *)
(* numbers, ordered as bytes are.  A clause is a record [field, op, value]; *)
(* the value of In is a sequence of keys, that of a Between a pair.  A     *)
(* query is a record [where, orderBy, limit, start, blockTime].            *)
(*                                                                         *)
(* The path query has one level per remaining property of the index: the   *)
(* name of the property, the keys that are selected in its tree, and the   *)
(* direction.  Indices of contracts are ascending, the meta schema admits  *)
(* no other.                                                               *)
(***************************************************************************)
EXTENDS DocumentStore

CONSTANTS
  Queries,    \* queries a client may ask
  SqlQueries, \* and those it may ask as SQL: [where, orderBy, limit]
  StoredData(_), \* documents that are stored of a type
  MaxItems,   \* bound: stored items
  MaxPages,   \* bound: pages a client asks for
  NoClause,   \* there is no such clause
  NoStart,    \* the query starts with the first document
  NoTime,     \* the query has no blockTime
  NoSession,  \* the client has not asked yet
  MaxLimit,   \* DEFAULT_QUERY_LIMIT
  MaxInValues,         \* values of an in clause
  MaxIndexDifference   \* MAX_INDEX_DIFFERENCE

ASSUME StoredAssumption == \A t \in DocumentTypes : StoredData(t) \subseteq Data

VARIABLE
  session     \* [query, pages]: what the client asked and got

queryVars == <<vars, session>>

-----------------------------------------------------------------------------
(* Keys.                                                                   *)

\* The order of byte strings.
Before(s, t) ==
  \/ IsStrictPrefix(s, t)
  \/ \E k \in DOMAIN s \cap DOMAIN t : SubSeq(s, 1, k - 1) = SubSeq(t, 1, k - 1) /\ s[k] < t[k]

AtMost(s, t) == s = t \/ Before(s, t)

InOrder(keys, asc) ==
  IF asc THEN SetToSortSeq(keys, Before) ELSE Reverse(SetToSortSeq(keys, Before))

\* The last byte of a prefix incremented.
RightKey(key) == [key EXCEPT ![Len(key)] = @ + 1]

-----------------------------------------------------------------------------
(* Where clauses.                                                          *)

LowerBounds == {"GreaterThan", "GreaterThanOrEquals"}
UpperBounds == {"LessThan", "LessThanOrEquals"}
Betweens == {"Between", "BetweenExcludeBounds", "BetweenExcludeLeft", "BetweenExcludeRight"}

Groupable == LowerBounds \cup UpperBounds
NotGroupable == Betweens \cup {"StartsWith"}
IsRange(op) == op # "Equal"

\* An operator with its operands exchanged, as SQL allows for comparisons.
Flip == [Equal |-> "Equal", GreaterThan |-> "LessThan", GreaterThanOrEquals |-> "LessThanOrEquals",
         LessThan |-> "GreaterThan", LessThanOrEquals |-> "GreaterThanOrEquals"]

\* A comparison of an SQL expression, with the value on the left or not; LIKE is
\* StartsWith with one % at the end.
FromSql(comparison) ==
  [field |-> comparison.field, value |-> comparison.value,
   op |-> IF comparison.valueFirst THEN Flip[comparison.op] ELSE comparison.op]

ClausesOf(where, ops) == SelectSeq(where, LAMBDA c : c.op \in ops)
OnProperties(where, op) == SelectSeq(where, LAMBDA c : c.op = op /\ c.field # "$id")
OnId(where, op) == SelectSeq(where, LAMBDA c : c.op = op /\ c.field = "$id")
Fields(clauses) == {clauses[k].field : k \in DOMAIN clauses}
OnlyOf(clauses) == IF clauses = <<>> THEN NoClause ELSE clauses[1]

\* The two bounds of a range as one clause.
BetweenOperator(lower, upper) ==
  CASE lower = "GreaterThanOrEquals" /\ upper = "LessThanOrEquals" -> "Between"
    [] lower = "GreaterThanOrEquals" /\ upper = "LessThan" -> "BetweenExcludeRight"
    [] lower = "GreaterThan" /\ upper = "LessThanOrEquals" -> "BetweenExcludeLeft"
    [] OTHER -> "BetweenExcludeBounds"

TheBound(clauses, ops) == clauses[CHOOSE k \in DOMAIN clauses : clauses[k].op \in ops]

RangeClause(where) ==
  LET bounds == ClausesOf(where, Groupable)
      lower == TheBound(bounds, LowerBounds)
      upper == TheBound(bounds, UpperBounds)
  IN IF Len(bounds) = 2
     THEN [field |-> lower.field, op |-> BetweenOperator(lower.op, upper.op),
           value |-> <<lower.value, upper.value>>]
     ELSE OnlyOf(bounds \o ClausesOf(where, NotGroupable))

\* Bounds that cannot be one range are refused.
BoundsGroupable(bounds) ==
  /\ Len(bounds) = 2
  /\ bounds[1].field = bounds[2].field
  /\ {k \in {1, 2} : bounds[k].op \in LowerBounds} \in {{1}, {2}}
  /\ LET lower == TheBound(bounds, LowerBounds)
         upper == TheBound(bounds, UpperBounds)
     IN IF lower.op = "GreaterThan" /\ upper.op = "LessThan"
        THEN Before(lower.value, upper.value) ELSE AtMost(lower.value, upper.value)

RangesGroupable(where, known) ==
  LET bounds == ClausesOf(where, Groupable)
      others == ClausesOf(where, NotGroupable)
  IN \/ bounds = <<>> /\ others = <<>>
     \/ /\ others = <<>>
        /\ Len(bounds) = 1 \/ BoundsGroupable(bounds)
        /\ bounds[1].field \notin known
     \/ /\ bounds = <<>> /\ Len(others) = 1
        /\ others[1].op = "StartsWith" => others[1].value # <<>>
        /\ others[1].field \notin known

\* Mutant: an equality may be given twice for a property.
Groups_Duplicates(where) ==
  LET equal == OnProperties(where, "Equal")
      ins == OnProperties(where, "In")
  IN Len(ins) <= 1 /\ RangesGroupable(where, Fields(equal) \cup Fields(ins))

\* group_clauses accepts: equalities on different properties, one in clause
\* and one range, all on different properties.
Groups(where) ==
  LET equal == OnProperties(where, "Equal")
      ins == OnProperties(where, "In")
  IN /\ Cardinality(Fields(equal)) = Len(equal)
     /\ Len(ins) <= 1 /\ Fields(ins) \cap Fields(equal) = {}
     /\ RangesGroupable(where, Fields(equal) \cup Fields(ins))

\* InternalClauses.
Grouped(where) ==
  LET equal == OnProperties(where, "Equal")
  IN [equal |-> [f \in Fields(equal) |-> equal[CHOOSE k \in DOMAIN equal : equal[k].field = f].value],
      in |-> OnlyOf(OnProperties(where, "In")),
      range |-> RangeClause(where),
      idEqual |-> OnlyOf(OnId(where, "Equal")),
      idIn |-> OnlyOf(OnId(where, "In"))]

NoOthers(g) == g.in = NoClause /\ g.range = NoClause /\ DOMAIN g.equal = {}

\* A clause on the primary key stands alone.
Verified(where) ==
  LET g == Grouped(where)
  IN /\ Len(OnId(where, "Equal")) <= 1 /\ Len(OnId(where, "In")) <= 1
     /\ g.idEqual = NoClause \/ g.idIn = NoClause
     /\ (g.idEqual # NoClause \/ g.idIn # NoClause) => NoOthers(g)

InValuesValid(clause) ==
  clause # NoClause => Len(clause.value) \in 1 .. MaxInValues /\ IsInjective(clause.value)

\* from_cbor accepts.
WellFormed(q) ==
  LET g == Grouped(q.where)
  IN /\ q.limit \in 1 .. MaxLimit
     /\ Groups(q.where) /\ Verified(q.where)
     /\ InValuesValid(g.in) /\ InValuesValid(g.idIn)

\* from_sql_expr: the limit is any number of 16 bits, and there is no start.
SqlQuery(s) ==
  [where |-> [k \in DOMAIN s.where |-> FromSql(s.where[k])], orderBy |-> s.orderBy,
   limit |-> s.limit, start |-> NoStart, blockTime |-> NoTime]

SqlWellFormed(s) == s.limit < 2 ^ 16 /\ WellFormed([SqlQuery(s) EXCEPT !.limit = 1])

OrderFields(q) == {q.orderBy[k].field : k \in DOMAIN q.orderBy}
Ascending(q, field) ==
  \A k \in DOMAIN q.orderBy : q.orderBy[k].field = field => q.orderBy[k].asc

-----------------------------------------------------------------------------
(* The choice of an index.                                                 *)

NamesOf(clause) == IF clause = NoClause THEN {} ELSE {clause.field}

QueryFields(q) ==
  LET g == Grouped(q.where)
  IN DOMAIN g.equal \cup NamesOf(g.range) \cup NamesOf(g.in) \cup OrderFields(q)

\* The longest beginning of the index that ends with the ordering.
Reduced(index, q) ==
  LET order == [k \in DOMAIN q.orderBy |-> q.orderBy[k].field]
      ends == {n \in Len(order) .. Len(index.properties) :
                 SubSeq(index.properties, n - Len(order) + 1, n) = order}
  IN IF ends = {} THEN {} ELSE {SubSeq(index.properties, 1, n) : n \in ends}

\* Index::matches: all fields of the query are in the index.
Matches(index, q) ==
  LET in == Grouped(q.where).in
      n == Len(index.properties)
  IN /\ Reduced(index, q) # {}
     /\ \A p \in QueryFields(q) : \E r \in Reduced(index, q) : p \in Range(r)
     /\ in # NoClause => in.field \in {index.properties[k] : k \in {n - 1, n} \cap 1 .. n}

Difference(index, q) == Len(index.properties) - Cardinality(QueryFields(q))

\* index_for_types: the first of the indices that match best.
Candidates(q) == {k \in DOMAIN type.indices : Matches(type.indices[k], q)}
BestIndex(q) ==
  CHOOSE k \in Candidates(q) : \A l \in Candidates(q) :
    \/ Difference(type.indices[k], q) < Difference(type.indices[l], q)
    \/ Difference(type.indices[k], q) = Difference(type.indices[l], q) /\ k <= l

HasIndex(q) ==
  /\ Candidates(q) # {}
  /\ Difference(type.indices[BestIndex(q)], q) <= MaxIndexDifference

-----------------------------------------------------------------------------
(* The keys that are selected at one level.                                *)

FromLeft(k, bound, open) == IF open THEN Before(bound, k) ELSE AtMost(bound, k)
ToRight(k, bound, open) == IF open THEN Before(k, bound) ELSE AtMost(k, bound)

\* Without a start document.
ClauseKeys(c) ==
  CASE c.op = "Equal" -> {c.value}
    [] c.op = "In" -> Range(c.value)
    [] c.op \in LowerBounds -> {k \in Values : FromLeft(k, c.value, c.op = "GreaterThan")}
    [] c.op \in UpperBounds -> {k \in Values : ToRight(k, c.value, c.op = "LessThan")}
    [] c.op = "StartsWith" -> {k \in Values : AtMost(c.value, k) /\ Before(k, RightKey(c.value))}
    [] c.op \in Betweens ->
         {k \in Values :
            /\ FromLeft(k, c.value[1], c.op \in {"BetweenExcludeBounds", "BetweenExcludeLeft"})
            /\ ToRight(k, c.value[2], c.op \in {"BetweenExcludeBounds", "BetweenExcludeRight"})}

\* Mutant: the start document is never left out.
Following_Included(keys, s, included, asc) ==
  {k \in keys : k = s \/ (IF asc THEN Before(s, k) ELSE Before(k, s))}

\* What follows the start key in the direction of the query.
Following(keys, s, included, asc) ==
  {k \in keys : \/ IF asc THEN Before(s, k) ELSE Before(k, s)
                \/ included /\ k = s}

\* The start document's value, if it has one.
HasStart(q, field) == q.start # NoStart /\ (field = "$id" \/ Current(q.start.id)[field] # Empty)
StartKey(q, field) == IF field = "$id" THEN q.start.id ELSE Current(q.start.id)[field]

\* The ranges below an upper bound, with a start key: ascending, the range runs
\* from the bound to the start key, which is empty.
UpperBoundKeys(c, s, included, asc) ==
  IF asc THEN {k \in {c.value} : c.op = "LessThanOrEquals" /\ included /\ s = k}
  ELSE Following(ClauseKeys(c), s, included, asc)
       \cup {k \in {c.value} : included /\ s = k}

\* Ranges that are open on the left, descending: the bound is let in, and the
\* start key at the right bound selects nothing or too much.
OpenLeftKeys(c, s, included) ==
  LET left == c.value[1]
      right == c.value[2]
      closed == {k \in Values : AtMost(left, k) /\ AtMost(k, right)}
      inside == Before(left, s) /\ Before(s, right)
  IN CASE c.op = "BetweenExcludeLeft" /\ s = right /\ ~ included -> {}
       [] c.op = "BetweenExcludeLeft" /\ inside -> Following(closed, s, included, FALSE)
       [] c.op = "BetweenExcludeBounds" /\ Before(right, s) -> closed
       [] c.op = "BetweenExcludeBounds" /\ s = right -> closed \ {right}
       [] OTHER -> Following(ClauseKeys(c), s, included, FALSE)

\* WhereClause::to_path_query.
ToPathQuery(c, q, withStart, asc) ==
  LET s == StartKey(q, c.field)
      included == q.start.included
  IN IF ~ withStart \/ ~ HasStart(q, c.field) THEN ClauseKeys(c)
     ELSE IF c.op \in UpperBounds THEN UpperBoundKeys(c, s, included, asc)
     ELSE IF c.op \in {"BetweenExcludeBounds", "BetweenExcludeLeft"} /\ ~ asc
     THEN OpenLeftKeys(c, s, included)
     ELSE Following(ClauseKeys(c), s, included, asc)

-----------------------------------------------------------------------------
(* The path query.                                                         *)

Level(name, keys, asc) == [name |-> name, keys |-> keys, asc |-> asc]

\* inner_query_from_starts_at, for the first property of an index that is used
\* for its order alone.
FirstLevel(property, q) ==
  Level(property, IF HasStart(q, property)
                  THEN Following(Values, StartKey(q, property), q.start.included, TRUE)
                  ELSE Values, TRUE)

\* recursive_insert_on_query: a level for each property without a clause.  The
\* start document cuts each of them, whatever was taken above.
LeftOverLevels(properties, q, ordered) ==
  [n \in DOMAIN properties |->
     LET asc == ordered => Ascending(q, properties[n])
         more == n < Len(properties)
     IN IF q.start = NoStart THEN Level(properties[n], Values, TRUE)
        ELSE Level(properties[n],
                   Following(Values, Current(q.start.id)[properties[n]],
                             more \/ q.start.included, asc), asc)]

\* The equalities in the order of the index.
EqualValues(index, g) ==
  LET fields == SelectSeq(index.properties, LAMBDA p : p \in DOMAIN g.equal)
  IN [k \in DOMAIN fields |-> [field |-> fields[k], op |-> "Equal", value |-> g.equal[fields[k]]]]

LastClause(index, g) ==
  LET equal == EqualValues(index, g)
  IN IF g.in # NoClause THEN g.in
     ELSE IF g.range # NoClause THEN g.range
     ELSE IF equal # <<>> THEN Last(equal) ELSE NoClause

SubClause(g) == IF g.in # NoClause THEN g.range ELSE NoClause

LeftOver(index, g) ==
  SelectSeq(index.properties,
            LAMBDA p : p \notin DOMAIN g.equal \cup NamesOf(g.in) \cup NamesOf(g.range))

\* Values of equalities before the last clause: the k-th of them goes under the
\* k-th property of the index.
Intermediate(index, g) ==
  LET equal == EqualValues(index, g)
  IN IF g.in = NoClause /\ g.range = NoClause /\ equal # <<>> THEN Front(equal) ELSE equal

RootPath(index, g) ==
  LET values == Intermediate(index, g)
  IN [k \in 1 .. 2 * Len(values) |->
        IF k % 2 = 1 THEN index.properties[(k + 1) \div 2] ELSE values[k \div 2].value]

\* get_non_primary_key_path_query: the levels below the root path.
QueryLevels(index, q) ==
  LET g == Grouped(q.where)
      last == LastClause(index, g)
      sub == SubClause(g)
      left == LeftOver(index, g)
      name == index.properties[Len(Intermediate(index, g)) + 1]
      asc == IsRange(last.op) => Ascending(q, last.field)
  IN IF last = NoClause
     THEN <<FirstLevel(index.properties[1], q)>> \o LeftOverLevels(Tail(left), q, FALSE)
     ELSE <<Level(name, ToPathQuery(last, q, left = <<>>, asc), asc)>>
          \o (IF sub = NoClause THEN <<>>
              ELSE <<Level(sub.field, ToPathQuery(sub, q, TRUE, Ascending(q, sub.field)),
                           Ascending(q, sub.field))>>)
          \o LeftOverLevels(left, q, TRUE)

\* The direction of the document ids below the last level.
IdsAscending(index, q) ==
  LET g == Grouped(q.where)
      last == LastClause(index, g)
      left == LeftOver(index, g)
  IN last = NoClause \/ (IF left # <<>> THEN Ascending(q, Last(left))
                         ELSE IsRange(last.op) => Ascending(q, last.field))

\* A range needs a direction.
RangesOrdered(q) ==
  LET g == Grouped(q.where) IN NamesOf(g.in) \cup NamesOf(g.range) \subseteq OrderFields(q)

-----------------------------------------------------------------------------
(* GroveDB's evaluation of a path query.                                   *)

Descend(paths, level) ==
  FlattenSeq([i \in DOMAIN paths |->
    LET base == Append(paths[i], level.name)
        found == InOrder({k \in level.keys : Append(base, k) \in trees}, level.asc)
    IN [n \in DOMAIN found |-> Append(base, found[n])]])

IdsAt(zero) == {refs[r] : r \in {r \in DOMAIN refs : Len(r) = Len(zero) + 1 /\ IsPrefix(zero, r)}}

\* The subquery at key 0 of the last level: a reference, or references by id.
\* Under the empty value the start document applies to the ids.
AtTerminal(index, path, q, asc) ==
  LET zero == Terminal(path)
      ids == IF Last(path) = Empty /\ q.start # NoStart
             THEN Following(IdsAt(zero), q.start.id, q.start.included, TRUE) ELSE IdsAt(zero)
  IN IF index.unique /\ Last(path) # Empty
     THEN IF zero \in DOMAIN refs THEN <<refs[zero]>> ELSE <<>>
     ELSE InOrder(ids, index.unique \/ asc)

IndexIds(q) ==
  LET index == type.indices[BestIndex(q)]
      ends == FoldLeft(Descend, <<RootPath(index, Grouped(q.where))>>, QueryLevels(index, q))
  IN FlattenSeq([i \in DOMAIN ends |-> AtTerminal(index, ends[i], q, IdsAscending(index, q))])

-----------------------------------------------------------------------------
(* Execution.                                                              *)

IsForPrimaryKey(q) ==
  LET g == Grouped(q.where)
  IN \/ g.idEqual # NoClause \/ g.idIn # NoClause
     \/ NoOthers(g) /\ (q.orderBy = <<>> \/ (Len(q.orderBy) = 1 /\ OrderFields(q) = {"$id"}))

\* get_primary_key_path_query.
PrimaryIds(q) ==
  LET g == Grouped(q.where)
      asc == Len(q.orderBy) = 1 => Ascending(q, "$id")
      ids == IF g.idIn # NoClause THEN Range(g.idIn.value) \cap Storing ELSE Storing
  IN IF g.idEqual # NoClause THEN SelectSeq(<<g.idEqual.value>>, Present)
     ELSE InOrder(IF q.start = NoStart THEN ids
                  ELSE Following(ids, q.start.id, q.start.included, asc), asc)

PrimaryAccepted(q) ==
  \/ Grouped(q.where).idEqual # NoClause
  \/ /\ Len(q.orderBy) = 1 => OrderFields(q) = {"$id"}
     /\ type.keepsHistory => q.blockTime = NoTime

\* Items of a history are keyed by the integer of their time, a blockTime is
\* encoded as a float: the key of a positive float is above those of all times.
Covered(blockTime, time) == blockTime > 0 \/ time = 0

\* The newest item of a document that the blockTime covers; the last key taken
\* is the reference to the latest one.
AsOf(id, blockTime) ==
  LET times == {t \in DOMAIN primary[id].items : Covered(blockTime, t)}
  IN IF times = {} THEN Current(id)
     ELSE primary[id].items[CHOOSE t \in times : \A u \in times : u <= t]

\* The query is executed, unless it or its start document is refused.
Executable(q) ==
  /\ q.start # NoStart => Present(q.start.id)
  /\ IF IsForPrimaryKey(q) THEN PrimaryAccepted(q) ELSE HasIndex(q) /\ RangesOrdered(q)

Limited(ids, limit) == SubSeq(ids, 1, IF limit < Len(ids) THEN limit ELSE Len(ids))

\* query_documents: the documents of one page.
Answer(q) ==
  LET ids == Limited(IF IsForPrimaryKey(q) THEN PrimaryIds(q) ELSE IndexIds(q), q.limit)
      timed == type.keepsHistory /\ Grouped(q.where).idEqual # NoClause /\ q.blockTime # NoTime
  IN [k \in DOMAIN ids |-> [id |-> ids[k], data |-> IF timed THEN AsOf(ids[k], q.blockTime)
                                                    ELSE Current(ids[k])]]

-----------------------------------------------------------------------------
(* The client.                                                             *)

Ask(q) ==
  /\ session = NoSession
  /\ Executable(q)
  /\ session' = [query |-> q, pages |-> <<Answer(q)>>]
  /\ UNCHANGED vars

\* The queries that are not refused when they are read, as CBOR or as SQL.
Readable ==
  {q \in Queries : WellFormed(q)} \cup {SqlQuery(s) : s \in {s \in SqlQueries : SqlWellFormed(s)}}

Complete == Len(Last(session.pages)) < session.query.limit

\* The next page starts after the last document of the one before.
NextPage ==
  LET q == [session.query EXCEPT !.start = [id |-> Last(Last(session.pages)).id, included |-> FALSE]]
  IN /\ session # NoSession /\ ~ Complete /\ Len(session.pages) < MaxPages
     /\ Last(session.pages) # <<>>
     /\ WellFormed(q) /\ Executable(q)
     /\ session' = [session EXCEPT !.pages = Append(@, Answer(q))]
     /\ UNCHANGED vars

Items == Cardinality({x \in Storing \X (0 .. MaxTime) : x[2] \in DOMAIN primary[x[1]].items})

\* Documents are stored before the client asks.  Block times are kept with
\* history only.
Store(id, data) ==
  /\ session = NoSession
  /\ Items < MaxItems
  /\ \/ ~ Present(id) /\ AddDocument(id, data, FALSE)
     \/ type.keepsHistory /\ UpdateDocument(id, data)
  /\ UNCHANGED session

QueryInit == Init /\ session = NoSession

QueryNext ==
  \/ session = NoSession /\ type.keepsHistory /\ NextBlock /\ UNCHANGED session
  \/ \E id \in Ids, data \in StoredData(type) : Store(id, data)
  \/ \E q \in Readable : Ask(q)
  \/ NextPage

QuerySpec == QueryInit /\ [][QueryNext]_queryVars
-----------------------------------------------------------------------------
(* Properties.                                                             *)

\* What a where clause means for a stored document.
Satisfies(id, c) ==
  LET v == IF c.field = "$id" THEN id ELSE Current(id)[c.field]
  IN CASE c.op = "Equal" -> v = c.value
       [] c.op = "In" -> v \in Range(c.value)
       [] c.op = "GreaterThan" -> Before(c.value, v)
       [] c.op = "GreaterThanOrEquals" -> AtMost(c.value, v)
       [] c.op = "LessThan" -> Before(v, c.value)
       [] c.op = "LessThanOrEquals" -> AtMost(v, c.value)
       [] c.op = "Between" -> AtMost(c.value[1], v) /\ AtMost(v, c.value[2])
       [] c.op = "BetweenExcludeBounds" -> Before(c.value[1], v) /\ Before(v, c.value[2])
       [] c.op = "BetweenExcludeLeft" -> Before(c.value[1], v) /\ AtMost(v, c.value[2])
       [] c.op = "BetweenExcludeRight" -> AtMost(c.value[1], v) /\ Before(v, c.value[2])
       [] c.op = "StartsWith" -> IsPrefix(c.value, v)

Matching(q) == {id \in Storing : \A k \in DOMAIN q.where : Satisfies(id, q.where[k])}

\* The properties that order the answer, with their directions.
OrderOf(q) ==
  LET g == Grouped(q.where)
      ranges == NamesOf(g.in) \cup NamesOf(g.range)
      properties == type.indices[BestIndex(q)].properties
  IN IF IsForPrimaryKey(q) THEN <<[field |-> "$id", asc |-> Ascending(q, "$id")]>>
     ELSE [k \in DOMAIN properties |->
             [field |-> properties[k],
              asc |-> properties[k] \in ranges => Ascending(q, properties[k])]]

\* Document d comes before e.
Earlier(order, d, e) ==
  LET value(id, k) == IF order[k].field = "$id" THEN id ELSE Current(id)[order[k].field]
  IN \E k \in DOMAIN order :
       /\ \A l \in 1 .. k - 1 : value(d, l) = value(e, l)
       /\ IF order[k].asc THEN Before(value(d, k), value(e, k)) ELSE Before(value(e, k), value(d, k))

IsOrdered(order, ids) == \A i, j \in DOMAIN ids : i < j => ~ Earlier(order, ids[j], ids[i])

\* The fields of the query are the first ones of its index: equalities, then
\* the in clause, then the range, then those only ordered by.
Consecutive(q) ==
  LET g == Grouped(q.where)
      properties == type.indices[BestIndex(q)].properties
      n == Cardinality(DOMAIN g.equal)
      first(k) == Range(SubSeq(properties, 1, k))
      m == n + Cardinality(NamesOf(g.in))
      r == m + Cardinality(NamesOf(g.range))
  IN \/ IsForPrimaryKey(q)
     \/ /\ DOMAIN g.equal = first(n)
        /\ DOMAIN g.equal \cup NamesOf(g.in) = first(m)
        /\ DOMAIN g.equal \cup NamesOf(g.in) \cup NamesOf(g.range) = first(r)
        /\ QueryFields(q) = first(Cardinality(QueryFields(q)))

IdsOf(page) == [k \in DOMAIN page |-> page[k].id]

\* The first page of a query over consecutive properties of an index is what a
\* scan of all documents gives: documents that satisfy every clause, as many as
\* the limit allows, in the order of the index, and no document left out that
\* comes before one of them.  The clauses are grouped, an index is chosen, and
\* the answer is read from trees that earlier inserts built.
AnswersRight ==
  session # NoSession /\ session.query.start = NoStart /\ Consecutive(session.query) =>
    LET q == session.query
        ids == IdsOf(session.pages[1])
        rest == Matching(q) \ Range(ids)
    IN /\ IsInjective(ids) /\ Range(ids) \subseteq Matching(q)
       /\ rest # {} => Len(ids) = q.limit
       /\ IsOrdered(OrderOf(q), ids)
       /\ \A d \in rest, e \in Range(ids) : ~ Earlier(OrderOf(q), d, e)

\* Queries whose pages can be followed: by id, or along the last property of a
\* unique index, and not with an upper bound ascending or, descending, a range
\* that is open on the left.
Pageable(q) ==
  LET g == Grouped(q.where)
      index == type.indices[BestIndex(q)]
      upper == g.range # NoClause /\ g.range.op \in UpperBounds /\ Ascending(q, g.range.field)
      openLeft == /\ g.range # NoClause /\ g.range.op = "BetweenExcludeLeft"
                  /\ ~ Ascending(q, g.range.field)
  IN \/ IsForPrimaryKey(q) /\ g.idEqual = NoClause
     \/ /\ ~ IsForPrimaryKey(q) /\ Consecutive(q) /\ index.unique /\ ~ upper /\ ~ openLeft
        /\ Cardinality(DOMAIN g.equal) >= Len(index.properties) - 1

\* A client that follows the pages of such a query with startAfter gets every
\* document that satisfies it once, in order, and then a page that is not full.
PagesComplete ==
  session # NoSession /\ Pageable(session.query) =>
    LET q == session.query
        ids == FlattenSeq([k \in DOMAIN session.pages |-> IdsOf(session.pages[k])])
    IN /\ IsInjective(ids) /\ Range(ids) \subseteq Matching(q) /\ IsOrdered(OrderOf(q), ids)
       /\ Complete => Range(ids) = Matching(q)
=============================================================================
