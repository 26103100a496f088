---------------------------- MODULE BlockLedger ----------------------------
(***************************************************************************)
(* What executing blocks promises to the chain: the committed state moves  *)
(* from one whole block to the next, whatever fails in between.  A block   *)
(* hands the oldest waiting withdrawals out for signing, adds its own at   *)
(* the end of the queue, and is charged to an epoch that never goes back.  *)
(***************************************************************************)
EXTENDS Naturals, Sequences

CONSTANT WITHDRAWAL_LIMIT   \* withdrawals handed out per block

VARIABLES
    height,    \* of the last committed block
    epoch,     \* the epoch that block was charged to
    waiting,   \* indices of the withdrawals in the queue, oldest first
    signed     \* indices handed out, in the order they were

ledger == <<height, epoch, waiting, signed>>

Init ==
    /\ height = 0
    /\ epoch = 0
    /\ waiting = <<>>
    /\ signed = <<>>

Smaller(a, b) == IF a <= b THEN a ELSE b

\* One block with n new withdrawals.
CommitBlock(n) ==
    LET handedOut == Smaller(WITHDRAWAL_LIMIT, Len(waiting))
        known == Len(signed) + Len(waiting)
    IN  /\ height' = height + 1
        /\ epoch' \in Nat
        /\ IF height = 0 THEN epoch' = 0 ELSE epoch' >= epoch
        /\ signed' = signed \o SubSeq(waiting, 1, handedOut)
        /\ waiting' = SubSeq(waiting, handedOut + 1, Len(waiting))
                         \o [i \in 1..n |-> known + i]

\* The new withdrawals of a block are those the queue grew by.
Next == CommitBlock(Len(waiting') + Len(signed') - Len(waiting) - Len(signed))

Spec == Init /\ [][Next]_ledger

=============================================================================
