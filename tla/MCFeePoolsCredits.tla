------------------------- MODULE MCFeePoolsCredits -------------------------
(* Values of the constants of FeePools for a run that keeps the books.     *)
EXTENDS FeePoolsCredits, Sequences

\* Sixty and forty percent in a world of two perpetual storage years.
Table == <<6, 4>>

Fee(p, s) == [processing |-> p, storage |-> s]

\* A block with storage fees, and a block with none.
MixedFees == {Fee(5, 7), Fee(4, 0)}
=============================================================================
