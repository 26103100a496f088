--------------------------- MODULE MCDocumentStore ---------------------------
(***************************************************************************)
(* Document types with indices that share their first properties, one of   *)
(* them unique, in both orders; with history; and immutable.  The second   *)
(* type has two unique indices, so that an update can clash in one of them *)
(* when the other one has been moved already.  Every property may be       *)
(* lacking.                                                                *)
(***************************************************************************)
EXTENDS DocumentStore

CONSTANTS d1, d2, d3, x, y

on(properties, unique) == [properties |-> properties, unique |-> unique]

MCDocumentTypes ==
  {[indices |-> <<on(<<"a", "b">>, TRUE), on(<<"a">>, FALSE)>>,
    mutable |-> TRUE, keepsHistory |-> FALSE],
   [indices |-> <<on(<<"a">>, TRUE), on(<<"b">>, TRUE), on(<<"b", "a">>, FALSE)>>,
    mutable |-> TRUE, keepsHistory |-> FALSE],
   [indices |-> <<on(<<"a">>, FALSE), on(<<"b", "a">>, TRUE)>>,
    mutable |-> FALSE, keepsHistory |-> FALSE],
   [indices |-> <<on(<<"b", "a">>, TRUE)>>,
    mutable |-> TRUE, keepsHistory |-> TRUE],
   [indices |-> <<on(<<"b">>, FALSE), on(<<"a">>, TRUE)>>,
    mutable |-> TRUE, keepsHistory |-> TRUE]}

\* No definition singles out an id, or a value other than the empty one.
MCSymmetry == Permutations({d1, d2, d3}) \cup Permutations({x, y})
=============================================================================
