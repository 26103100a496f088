-------------------------- MODULE FeePoolsCredits --------------------------
(***************************************************************************)
(* Where the credits of the fee pools go.  History variables follow, from  *)
(* outside the program, what the blocks collected and what the payouts     *)
(* gave away, so that the books can be compared with the state of the      *)
(* pools and the balances.                                                 *)
(***************************************************************************)
EXTENDS FeePools

VARIABLES
  collected,   \* fees of all the blocks processed
  paidOpen,    \* balance gained so far from the epoch under payout
  chunks,      \* blocks that paid at least one proposer
  funded       \* epochs at whose start a non-empty pool was distributed

history == <<collected, paidOpen, chunks, funded>>
allVars == <<vars, history>>

Credits(item) == IF item = NoItem THEN 0 ELSE item

SumBalances == MapThenSumSet(LAMBDA id : balances[id], Identities)

\* Everything held by the pools and the identities.
Wealth ==
  storagePool + SumBalances
    + MapThenSumSet(LAMBDA i : Credits(storage[i]) + Credits(processing[i]), Epochs)

CreditsInit ==
  /\ Init
  /\ collected = 0
  /\ paidOpen = 0
  /\ chunks = 0
  /\ funded = {}

Account(e, f) ==
  /\ collected' = collected + f.processing + f.storage
  /\ paidOpen' = IF MarksAsPaid(e) THEN 0
                 ELSE paidOpen + (SumBalances' - SumBalances)
  /\ chunks' = IF NeedsPayment(e) /\ PaidProposers(e) # {} THEN chunks + 1 ELSE chunks
  /\ funded' = IF Distributes(e) /\ storagePool # 0 THEN funded \cup {e} ELSE funded

AccountedBlockEnd ==
  /\ height < MaxHeight
  /\ \E e \in NextEpochs, p \in Proposers, f \in Fees :
       BlockEndOk(p, e, f) /\ Account(e, f)

FailedBlockEnd ==
  /\ height < MaxHeight
  /\ \E e \in NextEpochs : BlockEndError(e)
  /\ UNCHANGED history

ShareStep ==
  /\ CreateRewardShare \/ ReplaceRewardShare \/ DeleteRewardShare
  /\ UNCHANGED history

CreditsNext == AccountedBlockEnd \/ FailedBlockEnd \/ ShareStep

CreditsSpec == CreditsInit /\ [][CreditsNext]_allVars

-----------------------------------------------------------------------------
\* Credits gone from the books: collected, and no longer held by anyone.
\* While an epoch is under payout its pool still shows what it paid.
Lost == collected - (Wealth - paidOpen)

\* No payout hands out more than the epoch's pool holds, and no block creates
\* credits: rounding the rewards of several proposers, chunk after chunk,
\* never adds up to more than the pool they are taken from.
NoCreditMinted ==
  /\ Lost >= 0
  /\ paidOpen <= Credits(storage[unpaidEpoch]) + Credits(processing[unpaidEpoch])

\* The fractions of credits handed to the last proposer of a chunk, and the
\* rounding of the proposers' rewards, leave at most one credit behind per
\* chunk: all the rest of an epoch's pool reaches its proposers and their
\* payees, however the payout is cut into blocks.
DustBounded == Lost <= chunks

\* The books are right: the counts the rewards are proportional to, and the
\* credits before and after every payout (fee_distribution.rs).
BooksKept == EpochBlocksAccounted /\ NoCreditMinted /\ DustBounded

\* Every distribution that covers epoch i found an empty pool.
Unfunded(i) ==
  /\ i >= PERPETUAL_STORAGE_EPOCHS
  /\ \A d \in funded : i \notin d .. (d + PERPETUAL_STORAGE_EPOCHS - 1)

\* The end of a block of epoch e fails for three reasons only.
FailsFor(e) ==
  \/ storage[unpaidEpoch] = NoItem /\ Unfunded(unpaidEpoch)
  \/ /\ NeedsPayment(e) /\ PayoutReadable(e)
     /\ \E y, z \in Payments(e) : y.to \notin Identities \/ (y # z /\ y.to = z.to)

\* A block end fails for three reasons only: the unpaid epoch got no storage
\* item because all the pools it was to be filled from were empty, a reward
\* share names an identity that is not registered, or two payments of the
\* payout go to the same identity.  Nothing else starves it, whatever epochs
\* were skipped, however the payouts were cut and whichever blocks failed
\* (process_block_fees).
FailsOnlyFor == \A e \in NextEpochs : BlockEndSucceeds(e) \/ FailsFor(e)
=============================================================================
