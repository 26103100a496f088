---------------------------- MODULE MCNodeBinding ----------------------------
(* One wrapper that is used, and one that is opened on the same path.      *)
EXTENDS NodeBinding

CONSTANTS w1, w2

MCCalling == {js_abci_block_end, js_query_documents}
MCCallLimit == [w \in Wrappers |-> IF w = w1 THEN 4 ELSE 0]
=============================================================================
