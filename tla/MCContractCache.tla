-------------------------- MODULE MCContractCache --------------------------
(* ContractCache with the contract values small runs use.                  *)
EXTENDS ContractCache

CONSTANTS a, b

Body(version, readonly, history, config, types) ==
    [version |-> version, readonly |-> readonly, keepsHistory |-> history,
     config |-> config, types |-> types]

\* Three versions, the second or the third of which adds type b, a readonly
\* contract and an update that changes a flag.
MCBodies == {Body(1, FALSE, FALSE, 0, {a}), Body(2, FALSE, FALSE, 0, {a, b}),
             Body(3, FALSE, FALSE, 0, {a, b}), Body(1, TRUE, FALSE, 0, {a}),
             Body(2, TRUE, FALSE, 0, {a}), Body(2, FALSE, FALSE, 1, {a})}

\* The same with a contract that keeps history.
MCHistoryBodies == MCBodies \cup {Body(1, FALSE, TRUE, 0, {a})}

=============================================================================
