------------------------------ MODULE FeePools ------------------------------
(***************************************************************************)
(* Fee pools of the platform (dash-abci/src/execution/fee_pools and the    *)
(* pools subtree of drive).                                                *)
(*                                                                         *)
(* Every block adds its processing fees to the pool of the current epoch   *)
(* and its storage fees to one shared distribution pool.  The first block  *)
(* of an epoch spreads the distribution pool over the epochs of the next   *)
(* fifty years.  From then on every block pays some proposers of the       *)
(* oldest unpaid epoch, each in proportion to the blocks it proposed, and  *)
(* passes part of the reward on to the identities named by the             *)
(* masternode's reward share documents.                                    *)
(*                                                                         *)
(* One BlockEnd step is one call of process_block_fees: everything it      *)
(* reads comes from the state before the block, everything it writes is    *)
(* applied as one GroveDB batch, so the step is atomic and a failing step  *)
(* changes nothing.                                                        *)
(***************************************************************************)
EXTENDS Integers, FiniteSets, FiniteSetsExt

CONSTANTS
  NoItem,                   \* an item absent from a GroveDB tree
  Identities,               \* registered identities, as numbers in key order
  Proposers,                \* masternode identities: a proTxHash is its id
  EPOCHS_PER_YEAR,          \* 20
  PERPETUAL_STORAGE_YEARS,  \* 50
  FEE_DISTRIBUTION_TABLE,   \* share of the storage fees paid in each year
  TABLE_ONE,                \* the shares are multiples of 1 / TABLE_ONE
  PROPOSERS_PER_LAG,        \* 50: proposers paid per epoch of delay
  DECIMAL_ONE,              \* a Decimal is a multiple of 1 / DECIMAL_ONE
  BATCHING_ENABLED,         \* drive config: one GroveDB batch, or op by op
  Payees,                   \* ids a reward share document may name
  ShareIds,                 \* ids of reward share documents, in key order
  Percentages,              \* percentages a reward share may name
  Fees,                     \* fee aggregates a block may end with
  MaxGap,                   \* bound: epochs between two consecutive blocks
  MaxEpoch,                 \* bound: last epoch a block may belong to
  MaxHeight                 \* bound: number of blocks

GENESIS_EPOCH_INDEX == 0
MAX_PERCENTAGE == 10000
PERPETUAL_STORAGE_EPOCHS == PERPETUAL_STORAGE_YEARS * EPOCHS_PER_YEAR

\* The epoch trees a run can touch.
Epochs == 0 .. (MaxEpoch + PERPETUAL_STORAGE_EPOCHS)

\* Credits, as an item that may be absent.
CreditItem == Nat \cup {NoItem}

RewardShare == [id : ShareIds, owner : Proposers, payTo : Payees,
                percentage : Percentages]

ASSUME ItemAssumption == NoItem \notin Nat
ASSUME IdentityAssumption == /\ Identities \subseteq Nat
                             /\ IsFiniteSet(Identities)
                             /\ Proposers \subseteq Identities
                             /\ Payees \subseteq Nat
ASSUME EpochAssumption == /\ EPOCHS_PER_YEAR \in Nat \ {0}
                          /\ PERPETUAL_STORAGE_YEARS \in Nat \ {0}
                          /\ PERPETUAL_STORAGE_EPOCHS \in Nat \ {0}
ASSUME TableAssumption ==
  /\ TABLE_ONE \in Nat \ {0}
  /\ FEE_DISTRIBUTION_TABLE \in [1 .. PERPETUAL_STORAGE_YEARS -> 0 .. TABLE_ONE]
  /\ MapThenSumSet(LAMBDA y : FEE_DISTRIBUTION_TABLE[y], 1 .. PERPETUAL_STORAGE_YEARS)
       <= TABLE_ONE
ASSUME PayoutAssumption == /\ PROPOSERS_PER_LAG \in Nat \ {0}
                           /\ DECIMAL_ONE \in Nat \ {0}
                           /\ Cardinality(Proposers) < 2 * DECIMAL_ONE
                           /\ BATCHING_ENABLED \in BOOLEAN
ASSUME ShareAssumption == /\ ShareIds \subseteq Nat \ {0}
                          /\ IsFiniteSet(ShareIds)
                          /\ Percentages \subseteq 1 .. MAX_PERCENTAGE
ASSUME FeesAssumption == Fees \subseteq [processing : Nat, storage : Nat]
ASSUME BoundAssumption == /\ MaxEpoch \in Nat
                          /\ MaxHeight \in Nat
                          /\ MaxGap \in 0 .. PERPETUAL_STORAGE_EPOCHS

VARIABLES
  height,         \* height of the last block processed
  currentEpoch,   \* epoch of that block
  trees,          \* epoch trees that exist under the pools tree
  startBlock,     \* start items of an epoch (height, time, fee multiplier)
  proposersTree,  \* epochs that have a proposers tree
  blockCounts,    \* per epoch: blocks proposed; no item is 0
  storage,        \* storage credits of an epoch
  processing,     \* processing credits of an epoch
  storagePool,    \* the storage fee distribution pool
  unpaidEpoch,    \* oldest epoch whose proposers are not all paid
  balances,       \* identity balances
  rewardShares,   \* reward share documents
  outcome         \* result of the last block end

pools == <<trees, startBlock, proposersTree, blockCounts, storage, processing,
           storagePool, unpaidEpoch, balances>>
vars == <<height, currentEpoch, pools, rewardShares, outcome>>

-----------------------------------------------------------------------------
(* Decimal arithmetic: a value is counted in units of 1 / DECIMAL_ONE.     *)

\* Quotient of two integers rounded half to even, as rust_decimal divides.
DecimalDiv(a, b) ==
  LET q == a \div b
      r == a % b
  IN IF 2 * r > b \/ (2 * r = b /\ q % 2 = 1) THEN q + 1 ELSE q

Floor(d) == d \div DECIMAL_ONE

-----------------------------------------------------------------------------
(* Epoch change.                                                           *)

\* The block under execution, of epoch e, is the first of its epoch.
IsEpochChange(e) == height = 0 \/ e > currentEpoch

LastInitiatedEpoch == IF height = 0 THEN GENESIS_EPOCH_INDEX ELSE currentEpoch + 1

\* Mutant: the trees of the epochs skipped by a gap are not created.
NewTrees_NoGapFill(e) ==
  IF IsEpochChange(e) THEN {e + PERPETUAL_STORAGE_EPOCHS} ELSE {}

\* Trees created fifty years ahead, one per epoch since the previous block.
NewTrees(e) ==
  IF IsEpochChange(e)
  THEN {i + PERPETUAL_STORAGE_EPOCHS : i \in LastInitiatedEpoch .. e}
  ELSE {}

\* Mutant: the height of the last committed block.
StartBlocksAfter_Committed(e) ==
  IF IsEpochChange(e) THEN [startBlock EXCEPT ![e] = height] ELSE startBlock

\* The first block of an epoch records its height as the epoch's start.
StartBlocksAfter(e) ==
  IF IsEpochChange(e) THEN [startBlock EXCEPT ![e] = height + 1] ELSE startBlock

\* Floor of one epoch's part of the pool in a year of the table.
EpochFeeShare(year) ==
  (storagePool * FEE_DISTRIBUTION_TABLE[year]) \div (TABLE_ONE * EPOCHS_PER_YEAR)

Distributes(e) == IsEpochChange(e) /\ e # GENESIS_EPOCH_INDEX

\* Credits left in the distribution pool after the distribution.
Leftover(e) ==
  IF Distributes(e)
  THEN storagePool - MapThenSumSet(LAMBDA y : EpochFeeShare(y) * EPOCHS_PER_YEAR,
                                   1 .. PERPETUAL_STORAGE_YEARS)
  ELSE storagePool

\* Storage items after the trees are created and the pool is distributed.
StorageAfterDistribution(e) ==
  [i \in Epochs |->
     IF Distributes(e) /\ storagePool # 0 /\ i \in e .. (e + PERPETUAL_STORAGE_EPOCHS - 1)
     THEN (IF storage[i] = NoItem THEN 0 ELSE storage[i])
            + EpochFeeShare((i - e) \div EPOCHS_PER_YEAR + 1)
     ELSE IF i \in NewTrees(e) THEN NoItem ELSE storage[i]]

-----------------------------------------------------------------------------
(* The oldest unpaid epoch, seen from a block of epoch e.                  *)

NeedsPayment(e) == e # GENESIS_EPOCH_INDEX /\ unpaidEpoch # e

StartedAfterUnpaid(e) == {i \in (unpaidEpoch + 1) .. e : startBlock[i] # NoItem}

\* Mutant: straight to the current epoch.
NextUnpaidEpoch_Current(e) == e

\* The next epoch to pay: skips epochs in which no block was proposed.
NextUnpaidEpoch(e) ==
  IF unpaidEpoch = e - 1 \/ StartedAfterUnpaid(e) = {}
  THEN e ELSE Min(StartedAfterUnpaid(e))

\* First block after the unpaid epoch; the current epoch's start is not
\* stored yet when the block under execution starts it.
EndBlock(e) ==
  IF IsEpochChange(e) /\ NextUnpaidEpoch(e) = e
  THEN height + 1 ELSE startBlock[NextUnpaidEpoch(e)]

\* UnpaidEpoch::block_count
UnpaidBlockCount(e) == EndBlock(e) - startBlock[unpaidEpoch]

\* The items find_oldest_epoch_needing_payment and the payout read exist.
PayoutReadable(e) ==
  /\ startBlock[unpaidEpoch] # NoItem
  /\ unpaidEpoch \in proposersTree
  /\ storage[unpaidEpoch] # NoItem
  /\ processing[unpaidEpoch] # NoItem
  /\ IsEpochChange(e) \/ StartedAfterUnpaid(e) # {}

-----------------------------------------------------------------------------
(* Payout of the unpaid epoch by a block of epoch e.                       *)

ProposersLimit(e) == (e - unpaidEpoch) * PROPOSERS_PER_LAG

EpochProposers(i) == {p \in Proposers : blockCounts[i][p] > 0}

\* The first proposers of the unpaid epoch in key order.
PaidProposers(e) ==
  {p \in EpochProposers(unpaidEpoch) :
     Cardinality({q \in EpochProposers(unpaidEpoch) : q < p}) < ProposersLimit(e)}

MasternodeReward(e, p) ==
  DecimalDiv((storage[unpaidEpoch] + processing[unpaidEpoch])
               * blockCounts[unpaidEpoch][p] * DECIMAL_ONE,
             UnpaidBlockCount(e))

\* What document d takes of the part of the reward that is still there.
ShareReward(d, reward) == Floor(DecimalDiv(reward * d.percentage, MAX_PERCENTAGE))

\* Mutant: the documents' rewards are not taken from the masternode's.
RewardBefore_NotReduced(e, p) ==
  [i \in 0 .. (Max(ShareIds \cup {0}) + 1) |-> MasternodeReward(e, p)]

\* A proposer's reward before each of its documents, in order of their ids.
RewardBefore(e, p) ==
  LET last == Max(ShareIds \cup {0})
      rest[i \in 0 .. last + 1] ==
        IF i = 0 THEN MasternodeReward(e, p)
        ELSE LET taken == {d \in rewardShares : d.owner = p /\ d.id = i - 1}
             IN rest[i - 1] - MapThenSumSet(LAMBDA d : ShareReward(d, rest[i - 1]), taken)
                              * DECIMAL_ONE
  IN rest

OwnReward(e, p) == RewardBefore(e, p)[Max(ShareIds \cup {0}) + 1]

\* Fractions of credits of all paid proposers, given to the last of them.
FeeLeftovers(e) ==
  MapThenSumSet(LAMBDA p : OwnReward(e, p) % DECIMAL_ONE, PaidProposers(e))

RewardGiven(e, p) ==
  IF p = Max(PaidProposers(e))
  THEN Floor(Floor(OwnReward(e, p)) * DECIMAL_ONE + FeeLeftovers(e))
  ELSE Floor(OwnReward(e, p))

\* Balance updates of the payout; place is the order they are batched in.
Payments(e) ==
  {[to |-> d.payTo, amount |-> ShareReward(d, RewardBefore(e, d.owner)[d.id]),
    place |-> <<d.owner, d.id>>]
     : d \in {x \in rewardShares : x.owner \in PaidProposers(e)}}
  \cup
  {[to |-> p, amount |-> RewardGiven(e, p),
    place |-> <<p, Max(ShareIds \cup {0}) + 1>>] : p \in PaidProposers(e)}

PaymentsTo(e, id) == {y \in Payments(e) : y.to = id}

\* Every payment writes the balance read before the batch plus its amount;
\* op by op, the last write to a key stays.
LastPayments(e, id) ==
  {y \in PaymentsTo(e, id) :
     \A z \in PaymentsTo(e, id) :
       \/ z.place[1] < y.place[1]
       \/ z.place[1] = y.place[1] /\ z.place[2] <= y.place[2]}

\* A batch with two operations on one key fails GroveDB's consistency check.
BatchConsistent(e) ==
  BATCHING_ENABLED => \A y, z \in Payments(e) : y.to = z.to => y = z

\* All proposers of the unpaid epoch are paid by this block.
MarksAsPaid(e) ==
  NeedsPayment(e) /\ Cardinality(PaidProposers(e)) < ProposersLimit(e)

-----------------------------------------------------------------------------
(* A block of epoch e ends without error.                                  *)
PayoutSucceeds(e) ==
  NeedsPayment(e) =>
    /\ PayoutReadable(e)
    /\ UnpaidBlockCount(e) > 0
    /\ \A y \in Payments(e) : y.to \in Identities /\ y.amount \in Nat
    /\ BatchConsistent(e)

BlockEndSucceeds(e) ==
  /\ Leftover(e) \in Nat
  /\ IsEpochChange(e) \/ e \in proposersTree
  /\ PayoutSucceeds(e)
  /\ e \in trees

\* Mutant: paid proposers keep their counts.
ProcessedCounts_KeepPaid(p, e) ==
  [i \in Epochs |->
     IF i = e
     THEN [q \in Proposers |-> (IF IsEpochChange(e) THEN 0 ELSE blockCounts[e][q])
                               + (IF q = p THEN 1 ELSE 0)]
     ELSE blockCounts[i]]

\* The proposer's count goes up, the counts of the paid proposers go away.
ProcessedCounts(p, e) ==
  [i \in Epochs |->
     IF i = e
     THEN [q \in Proposers |-> (IF IsEpochChange(e) THEN 0 ELSE blockCounts[e][q])
                               + (IF q = p THEN 1 ELSE 0)]
     ELSE IF NeedsPayment(e) /\ i = unpaidEpoch
     THEN [q \in Proposers |-> IF q \in PaidProposers(e) THEN 0 ELSE blockCounts[i][q]]
     ELSE blockCounts[i]]

ProcessedBalances(e) ==
  IF NeedsPayment(e)
  THEN [id \in Identities |->
          IF LastPayments(e, id) = {} THEN balances[id]
          ELSE balances[id] + (CHOOSE y \in LastPayments(e, id) : TRUE).amount]
  ELSE balances

\* Mutant: the fees of the block go to the pool under payout.
ProcessingAfter_Unpaid(e, f) ==
  [i \in Epochs |->
     IF i = unpaidEpoch THEN (IF processing[i] = NoItem THEN 0 ELSE processing[i])
                               + f.processing
     ELSE IF i = e /\ processing[i] = NoItem THEN 0 ELSE processing[i]]

\* Processing items: the block's fees join the pool of its epoch.
ProcessingAfter(e, f) ==
  [i \in Epochs |->
     IF i = e THEN (IF processing[e] = NoItem THEN 0 ELSE processing[e]) + f.processing
     ELSE IF MarksAsPaid(e) /\ i = unpaidEpoch THEN NoItem
     ELSE processing[i]]

\* process_block_fees for a block of epoch e proposed by p with fees f.
BlockEndOk(p, e, f) ==
  /\ BlockEndSucceeds(e)
  /\ height' = height + 1
  /\ currentEpoch' = e
  /\ trees' = trees \cup NewTrees(e)
  /\ startBlock' = StartBlocksAfter(e)
  /\ proposersTree' = (proposersTree \cup {e})
                        \ (IF MarksAsPaid(e) THEN {unpaidEpoch} ELSE {})
  /\ blockCounts' = ProcessedCounts(p, e)
  /\ storage' = [i \in Epochs |-> IF MarksAsPaid(e) /\ i = unpaidEpoch THEN NoItem
                                  ELSE StorageAfterDistribution(e)[i]]
  /\ processing' = ProcessingAfter(e, f)
  /\ storagePool' = Leftover(e) + f.storage
  /\ unpaidEpoch' = IF MarksAsPaid(e) THEN NextUnpaidEpoch(e) ELSE unpaidEpoch
  /\ balances' = ProcessedBalances(e)
  /\ outcome' = "ok"
  /\ UNCHANGED rewardShares

\* An error leaves the block's transaction to be dropped by the caller.
BlockEndError(e) ==
  /\ ~BlockEndSucceeds(e)
  /\ outcome' = "error"
  /\ UNCHANGED <<height, currentEpoch, pools, rewardShares>>

\* Epochs the next block may belong to: block times never decrease.
NextEpochs ==
  IF height = 0 THEN {GENESIS_EPOCH_INDEX}
  ELSE {e \in currentEpoch .. (currentEpoch + MaxGap) : e <= MaxEpoch}

BlockEnd ==
  /\ height < MaxHeight
  /\ \E e \in NextEpochs :
       \/ \E p \in Proposers, f \in Fees : BlockEndOk(p, e, f)
       \/ BlockEndError(e)

-----------------------------------------------------------------------------
(* Reward share documents, written by state transitions between blocks.    *)
(* The registry of data triggers has no entry of the reward share kind, so *)
(* only the schema and the unique index on owner and payee restrict them.  *)

UniqueIndex(d, others) ==
  \A x \in others : ~(x.owner = d.owner /\ x.payTo = d.payTo)

CreateRewardShare ==
  \E d \in RewardShare :
    /\ \A x \in rewardShares : x.id # d.id
    /\ UniqueIndex(d, rewardShares)
    /\ rewardShares' = rewardShares \cup {d}
    /\ UNCHANGED <<height, currentEpoch, pools, outcome>>

ReplaceRewardShare ==
  \E old \in rewardShares, q \in Percentages, to \in Payees :
    LET others == rewardShares \ {old}
        new == [old EXCEPT !.percentage = q, !.payTo = to]
    IN /\ new # old
       /\ UniqueIndex(new, others)
       /\ rewardShares' = others \cup {new}
       /\ UNCHANGED <<height, currentEpoch, pools, outcome>>

DeleteRewardShare ==
  /\ \E d \in rewardShares : rewardShares' = rewardShares \ {d}
  /\ UNCHANGED <<height, currentEpoch, pools, outcome>>

-----------------------------------------------------------------------------
\* The state after init_chain has created the initial state structure.
Init ==
  /\ height = 0
  /\ currentEpoch = GENESIS_EPOCH_INDEX
  /\ trees = 0 .. (PERPETUAL_STORAGE_EPOCHS - 1)
  /\ startBlock = [i \in Epochs |-> NoItem]
  /\ proposersTree = {}
  /\ blockCounts = [i \in Epochs |-> [p \in Proposers |-> 0]]
  /\ storage = [i \in Epochs |-> IF i < PERPETUAL_STORAGE_EPOCHS THEN 0 ELSE NoItem]
  /\ processing = [i \in Epochs |-> NoItem]
  /\ storagePool = 0
  /\ unpaidEpoch = GENESIS_EPOCH_INDEX
  /\ balances = [id \in Identities |-> 0]
  /\ rewardShares = {}
  /\ outcome = "ok"

Next == BlockEnd \/ CreateRewardShare \/ ReplaceRewardShare \/ DeleteRewardShare

Spec == Init /\ [][Next]_vars

-----------------------------------------------------------------------------
(* Properties.                                                             *)

\* Types of the state: credits, counts and heights never go below zero, and
\* no block end touches an epoch beyond the trees (process_block_fees).
TypeOK ==
  /\ height \in Nat
  /\ currentEpoch \in 0 .. MaxEpoch
  /\ trees \subseteq Epochs
  /\ startBlock \in [Epochs -> CreditItem]
  /\ proposersTree \subseteq Epochs
  /\ blockCounts \in [Epochs -> [Proposers -> Nat]]
  /\ storage \in [Epochs -> CreditItem]
  /\ processing \in [Epochs -> CreditItem]
  /\ storagePool \in Nat
  /\ unpaidEpoch \in 0 .. MaxEpoch
  /\ balances \in [Identities -> Nat]
  /\ rewardShares \subseteq RewardShare
  /\ outcome \in {"ok", "error"}

Started == {i \in Epochs : startBlock[i] # NoItem}

\* Started epochs are those of the blocks processed so far, and their start
\* heights grow strictly with the epoch: the block count the payout divides
\* by (find_oldest_epoch_needing_payment, UnpaidEpoch::block_count) is never
\* zero and never underflows.
StartBlocksOrdered ==
  /\ \A i \in Started : i <= currentEpoch /\ startBlock[i] \in 1 .. height
  /\ \A i, j \in Started : i < j => startBlock[i] < startBlock[j]

\* The unpaid index names a started epoch, and that epoch and every started
\* one after it still have the proposers tree and the processing fees the
\* payout reads: an index that pointed into a gap between epochs, or at an
\* epoch already marked as paid, would make every later block end fail.
OpenEpochsReadable ==
  height > 0 =>
    /\ unpaidEpoch \in Started
    /\ currentEpoch \in Started
    /\ \A i \in Started :
         i >= unpaidEpoch => i \in proposersTree /\ processing[i] # NoItem

\* The trees fifty years ahead exist without a hole, whatever the gaps
\* between the epochs of consecutive blocks (add_process_epoch_change).
TreesContiguous ==
  trees = 0 .. (IF height = 0 THEN PERPETUAL_STORAGE_EPOCHS - 1
                ELSE currentEpoch + PERPETUAL_STORAGE_EPOCHS)

\* Whatever epoch the next block belongs to, the trees it writes to exist,
\* and if the unpaid epoch has its storage item then every read of
\* find_oldest_epoch_needing_payment succeeds and the payout divides by a
\* positive number of blocks: a block end can only fail on the storage item,
\* on a payee or on the batch, never on a gap between epochs.
PayoutInputsPresent ==
  \A e \in NextEpochs :
    /\ e \in trees
    /\ IsEpochChange(e) \/ e \in proposersTree
    /\ NeedsPayment(e) =>
         /\ storage[unpaidEpoch] # NoItem => PayoutReadable(e)
         /\ UnpaidBlockCount(e) > 0

\* The pools stay in order over any gaps between epochs: well typed, started
\* epochs with growing start heights, everything a payout reads in place, and
\* the trees of the perpetual period ahead complete (process_block_fees).  It is
\* the inductive invariant behind the theorems of FeePoolsProofs.
PoolsInv ==
  /\ TypeOK
  /\ height = 0 => currentEpoch = GENESIS_EPOCH_INDEX /\ unpaidEpoch = GENESIS_EPOCH_INDEX
  /\ StartBlocksOrdered
  /\ OpenEpochsReadable
  /\ TreesContiguous

SumCounts(i) == MapThenSumSet(LAMBDA p : blockCounts[i][p], Proposers)

\* First block after started epoch i.
EpochEnd(i) ==
  LET later == {startBlock[j] : j \in {k \in Started : k > i}}
  IN IF later = {} THEN height + 1 ELSE Min(later)

\* The counts the rewards are proportional to add up to the blocks of the
\* epoch until its payout begins, and only shrink from then on.
EpochBlocksAccounted ==
  \A i \in Started :
    /\ i > unpaidEpoch => SumCounts(i) = EpochEnd(i) - startBlock[i]
    /\ i = unpaidEpoch => SumCounts(i) <= EpochEnd(i) - startBlock[i]
    /\ i < unpaidEpoch => SumCounts(i) = 0

\* The unpaid index moves only from an epoch with no proposer left to the
\* next started epoch: no epoch in which blocks were proposed is left unpaid.
NothingSkipped ==
  [][unpaidEpoch' # unpaidEpoch =>
       /\ unpaidEpoch' > unpaidEpoch
       /\ \A p \in Proposers : blockCounts'[unpaidEpoch][p] = 0
       /\ \A i \in Epochs : unpaidEpoch < i /\ i < unpaidEpoch' => startBlock'[i] = NoItem
       /\ startBlock'[unpaidEpoch'] # NoItem]_vars

\* A block that ends while an older epoch is unpaid pays at least one of its
\* proposers or closes it: the payout of a finished epoch cannot stall.
PayoutMakesProgress ==
  [][height' > height /\ NeedsPayment(currentEpoch') =>
       \/ unpaidEpoch' > unpaidEpoch
       \/ SumCounts(unpaidEpoch)' < SumCounts(unpaidEpoch)]_vars

\* The pool of an epoch under payout is frozen until the epoch is closed:
\* every chunk of proposers shares the same total.
UnpaidPoolFrozen ==
  [][unpaidEpoch < currentEpoch /\ unpaidEpoch' = unpaidEpoch =>
       /\ storage'[unpaidEpoch] = storage[unpaidEpoch]
       /\ processing'[unpaidEpoch] = processing[unpaidEpoch]]_vars
=============================================================================
