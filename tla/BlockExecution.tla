--------------------------- MODULE BlockExecution ---------------------------
(***************************************************************************)
(* The life of a block in the ABCI handlers of dash-abci, with the failures *)
(* the node has to survive.                                                *)
(*                                                                         *)
(* JavaScript Drive executes one block at a time in one GroveDB            *)
(* transaction: block_begin, the block's state transitions, block_end,     *)
(* commit.  A handler that fails makes it abort the transaction and try a  *)
(* block of the same height again, perhaps another one; the process may    *)
(* also stop anywhere.  Two things live outside the transaction and        *)
(* survive an abort: the cached genesis time and the execution context     *)
(* block_begin leaves for block_end.  Withdrawals wait in a queue in       *)
(* storage; block_begin takes the first ones out for signing.              *)
(*                                                                         *)
(* Block fees, which block_end processes, are FeePools'.                   *)
(***************************************************************************)
EXTENDS Naturals, Sequences, FiniteSets

CONSTANTS
    EPOCH_CHANGE_TIME_MS,               \* lifetime of an epoch
    WITHDRAWAL_TRANSACTIONS_QUERY_LIMIT,
    KeyStep,                            \* see EnqueueWithdrawal
    MaxHeight, MaxTime, MaxWithdrawals, \* bounds of a run
    MaxFailures,                        \* bound on failing handlers and crashes
    None

ASSUME EpochTimeAssumption == EPOCH_CHANGE_TIME_MS \in Nat \ {0}
ASSUME LimitAssumption == WITHDRAWAL_TRANSACTIONS_QUERY_LIMIT \in Nat \ {0}
ASSUME KeyStepAssumption == KeyStep \in {0, 1}
ASSUME BoundsAssumption ==
    {MaxHeight, MaxTime, MaxWithdrawals, MaxFailures} \subseteq Nat

VARIABLES
    store,         \* the committed state
    txn,           \* the state as the block's transaction sees it
    phase,         \* what JavaScript does next
    block,         \* the block in execution: its height and time
    genesisCache,  \* DriveCache.genesis_time_ms
    context,       \* Platform.block_execution_context
    unsigned,      \* withdrawals block_begin answered with, to be signed
    signed,        \* withdrawals of committed blocks, in order
    failures

vars == <<store, txn, phase, block, genesisCache, context, unsigned, signed,
          failures>>

Phases == {"idle", "started", "deliver", "failed", "ended"}

Optional(S) == S \cup {None}

State == [initialized : BOOLEAN, height : Nat, lastTime : Optional(Nat),
          genesis : Optional(Nat), epoch : Nat, counter : Nat,
          queue : SUBSET (Nat \X Nat), accepted : Nat]

Block == [height : Nat, time : Nat]

EpochInfoType == [epoch : Nat, previous : Optional(Nat), isChange : BOOLEAN]

ContextType == [block : Block, info : EpochInfoType]

\* What is not there is not taken for something that is.
ASSUME NoneAssumption == None \notin Nat /\ None \notin Block /\ None \notin ContextType

-----------------------------------------------------------------------------
(* Epochs.                                                                 *)

EpochIndex(genesis, time) == (time - genesis) \div EPOCH_CHANGE_TIME_MS

\* EpochInfo::calculate.  The conversion to u16 cannot fail below 65536 epochs.
EpochInfo(genesis, time, previousTime) ==
    IF previousTime = None
    THEN [epoch |-> 0, previous |-> None, isChange |-> TRUE]
    ELSE LET current == EpochIndex(genesis, time)
             last == EpochIndex(genesis, previousTime)
         IN  [epoch |-> current,
              previous |-> IF current # last THEN last ELSE None,
              isChange |-> current > last]

-----------------------------------------------------------------------------
(* Withdrawals.  The queue is a tree of pairs <<key, withdrawal>>.  Keys are *)
(* big-endian indices, so that their order in the tree is the order of the *)
(* numbers; withdrawals are numbered as they are accepted.                 *)

Queued(queue) == {entry[2] : entry \in queue}

\* An insertion under a key that is there replaces the value.
Put(queue, key, withdrawal) ==
    {entry \in queue : entry[1] # key} \cup {<<key, withdrawal>>}

Before(entry, queue) == {other \in queue : other[1] < entry[1]}

\* Mutant: the newest withdrawals are taken.
Dequeued_Newest(queue) ==
    {entry \in queue : Cardinality({other \in queue : other[1] > entry[1]})
                           < WITHDRAWAL_TRANSACTIONS_QUERY_LIMIT}

\* Mutant: only full batches are taken.
Dequeued_FullOnly(queue) ==
    IF Cardinality(queue) < WITHDRAWAL_TRANSACTIONS_QUERY_LIMIT THEN {}
    ELSE {entry \in queue : Cardinality(Before(entry, queue))
                                < WITHDRAWAL_TRANSACTIONS_QUERY_LIMIT}

\* What dequeue_withdrawal_transactions takes out.
Dequeued(queue) ==
    {entry \in queue : Cardinality(Before(entry, queue))
                           < WITHDRAWAL_TRANSACTIONS_QUERY_LIMIT}

\* The withdrawals of a queue in the order of their keys.
InOrder(queue) ==
    [n \in 1..Cardinality(queue) |->
        (CHOOSE entry \in queue : Cardinality(Before(entry, queue)) = n - 1)[2]]

-----------------------------------------------------------------------------
(* Steps.                                                                  *)

\* create_initial_state_structure: an empty queue and a counter of 0.
InitialState == [initialized |-> TRUE, height |-> 0, lastTime |-> None,
                 genesis |-> None, epoch |-> 0, counter |-> 0, queue |-> {},
                 accepted |-> 0]

Init ==
    /\ store = [InitialState EXCEPT !.initialized = FALSE]
    /\ txn = store
    /\ phase = "idle"
    /\ block = None
    /\ genesisCache = None
    /\ context = None
    /\ unsigned = <<>>
    /\ signed = <<>>
    /\ failures = 0

\* init_chain, committed at once.  Tenderdash sends it again when the node stops
\* before it has committed a block.
InitChain ==
    /\ phase = "idle"
    /\ store.height = 0
    /\ store' = InitialState
    /\ txn' = InitialState
    /\ UNCHANGED <<phase, block, genesisCache, context, unsigned, signed,
                   failures>>

\* The transaction of the next block.  Block times grow, and leave room for the
\* blocks that are to come within the bound.
StartBlock(time) ==
    /\ phase = "idle"
    /\ store.initialized
    /\ store.height < MaxHeight
    /\ store.lastTime # None => time > store.lastTime
    /\ time + (MaxHeight - store.height) <= MaxTime
    /\ txn' = store
    /\ block' = [height |-> store.height + 1, time |-> time]
    /\ phase' = "started"
    /\ UNCHANGED <<store, genesisCache, context, unsigned, signed, failures>>

\* The time block_begin goes on with: that of the first block, then
\* get_genesis_time, which asks the cache and then storage.
GenesisTime ==
    IF block.height = 1 THEN block.time
    ELSE IF genesisCache # None THEN genesisCache ELSE txn.genesis

\* init_genesis_time and get_genesis_time leave the time in the cache.
CachedAfterBegin == GenesisTime

\* Mutant: the withdrawals handed out stay in the queue.
AfterBegin_LeavesQueue(genesis) ==
    [txn EXCEPT !.genesis = IF block.height = 1 THEN genesis ELSE @]

\* What block_begin writes in the transaction.
AfterBegin(genesis) ==
    [txn EXCEPT !.genesis = IF block.height = 1 THEN genesis ELSE @,
                !.queue = @ \ Dequeued(@)]

\* Mutant: a context that is set is kept.
ContextAfterBegin_Kept(genesis) ==
    IF context # None THEN context
    ELSE [block |-> block, info |-> EpochInfo(genesis, block.time, txn.lastTime)]

ContextAfterBegin(genesis) ==
    [block |-> block, info |-> EpochInfo(genesis, block.time, txn.lastTime)]

\* block_begin: genesis time, epoch info, context, withdrawals.
BlockBegin ==
    /\ phase = "started"
    /\ GenesisTime # None
    /\ genesisCache' = CachedAfterBegin
    /\ context' = ContextAfterBegin(GenesisTime)
    /\ txn' = AfterBegin(GenesisTime)
    /\ unsigned' = InOrder(Dequeued(txn.queue))
    /\ phase' = "deliver"
    /\ UNCHANGED <<store, block, signed, failures>>

\* block_begin with an error.  The genesis time of a first block is cached
\* before it is stored; the context is replaced before the withdrawals are
\* taken out and completed.
BlockBeginFails ==
    /\ phase = "started"
    /\ failures < MaxFailures
    /\ failures' = failures + 1
    /\ \/ /\ genesisCache' = IF block.height = 1 THEN CachedAfterBegin
                             ELSE genesisCache
          /\ UNCHANGED <<context, txn>>
       \/ /\ GenesisTime # None
          /\ genesisCache' = CachedAfterBegin
          /\ context' = ContextAfterBegin(GenesisTime)
          /\ txn' = AfterBegin(GenesisTime)
    /\ phase' = "failed"
    /\ UNCHANGED <<store, block, unsigned, signed>>

\* The key of a withdrawal, from the counter as it is read before.
EnqueueKey == txn.counter + KeyStep

\* A withdrawal of the block.  The caller reads the latest index and enqueues
\* the transaction under a key that also becomes the latest index.
\* ApplyIdentityCreditWithdrawalTransition of this repository enqueues under
\* the latest index itself (KeyStep = 0); the tests of the Node binding
\* enqueue under the next one (KeyStep = 1).
EnqueueWithdrawal ==
    /\ phase = "deliver"
    /\ txn.accepted < MaxWithdrawals
    /\ txn' = [txn EXCEPT !.counter = EnqueueKey,
                          !.queue = Put(@, EnqueueKey, txn.accepted + 1),
                          !.accepted = @ + 1]
    /\ UNCHANGED <<store, phase, block, genesisCache, context, unsigned, signed,
                   failures>>

\* block_end charges the block to the epoch of the context.
BlockEnd(fails) ==
    /\ phase = "deliver"
    /\ context # None
    /\ fails => failures < MaxFailures
    /\ failures' = IF fails THEN failures + 1 ELSE failures
    /\ txn' = IF fails THEN txn ELSE [txn EXCEPT !.epoch = context.info.epoch]
    /\ phase' = IF fails THEN "failed" ELSE "ended"
    /\ UNCHANGED <<store, block, genesisCache, context, unsigned, signed>>

\* JavaScript commits the transaction, records the block and signs what
\* block_begin handed out; after_finalize_block follows (ContractCache).
Commit ==
    /\ phase = "ended"
    /\ store' = [txn EXCEPT !.height = block.height, !.lastTime = block.time]
    /\ txn' = store'
    /\ signed' = signed \o unsigned
    /\ unsigned' = <<>>
    /\ block' = None
    /\ phase' = "idle"
    /\ UNCHANGED <<genesisCache, context, failures>>

\* The transaction of a failed block is rolled back; memory is not.
Abort ==
    /\ phase = "failed"
    /\ txn' = store
    /\ unsigned' = <<>>
    /\ block' = None
    /\ phase' = "idle"
    /\ UNCHANGED <<store, genesisCache, context, signed, failures>>

\* The process stops and is started again: Platform::open has no genesis time
\* and no context.
Crash ==
    /\ failures < MaxFailures
    /\ failures' = failures + 1
    /\ txn' = store
    /\ unsigned' = <<>>
    /\ block' = None
    /\ phase' = "idle"
    /\ genesisCache' = None
    /\ context' = None
    /\ UNCHANGED <<store, signed>>

Next ==
    \/ InitChain
    \/ \E time \in 0..MaxTime : StartBlock(time)
    \/ BlockBegin
    \/ BlockBeginFails
    \/ \E fails \in BOOLEAN : BlockEnd(fails)
    \/ EnqueueWithdrawal
    \/ Commit
    \/ Abort
    \/ Crash

Spec == Init /\ [][Next]_vars

\* Tenderdash goes on until the block is committed: every handler is called and
\* answers, and failures are transient (there are at most MaxFailures).
Fairness ==
    /\ WF_vars(InitChain /\ ~ store.initialized)
    /\ WF_vars(\E time \in 0..MaxTime : StartBlock(time))
    /\ WF_vars(BlockBegin)
    /\ WF_vars(BlockEnd(FALSE))
    /\ WF_vars(Commit)
    /\ WF_vars(Abort)

FairSpec == Spec /\ Fairness

-----------------------------------------------------------------------------
(* Properties.                                                             *)

\* Types of the committed state, the transaction and what memory keeps.
TypeOK ==
    /\ store \in State
    /\ txn \in State
    /\ phase \in Phases
    /\ block \in Optional(Block)
    /\ genesisCache \in Optional(Nat)
    /\ context \in Optional(ContextType)
    /\ unsigned \in Seq(Nat)
    /\ signed \in Seq(Nat)
    /\ failures \in 0..MaxFailures

\* After the first block, the cached genesis time is the stored one, although it
\* is cached before the block that sets it is committed (init_genesis_time).
GenesisCoherent ==
    store.height > 0 => genesisCache \in {None, store.genesis}

\* block_end works with the context of the block in execution, never with one
\* that an earlier or an abandoned block left (block_execution_context).
ContextIsCurrent ==
    phase \in {"deliver", "ended"} =>
        /\ context # None
        /\ context.block = block
        /\ block.height = store.height + 1

\* The epoch a block is charged to follows the epoch of the last committed
\* block, and an epoch change is announced exactly when the two differ: what
\* process_block_fees relies on (EpochInfo::calculate).
EpochChangesAnnounced ==
    phase \in {"deliver", "ended"} =>
        IF store.height = 0
        THEN context.info.isChange /\ context.info.epoch = 0
        ELSE /\ context.info.epoch >= store.epoch
             /\ context.info.isChange <=> context.info.epoch # store.epoch
             /\ context.info.previous =
                    IF context.info.isChange THEN store.epoch ELSE None

\* Memory that failed blocks and restarts leave behind misleads no later block:
\* neither the genesis time, nor the context, nor the epoch in it (DriveCache,
\* block_execution_context).
MemoryCoherent == TypeOK /\ GenesisCoherent /\ ContextIsCurrent /\ EpochChangesAnnounced

\* Every withdrawal is handed out for signing exactly once and in the order it
\* was accepted, over failed blocks and restarts; the others wait in the queue
\* (dequeue_withdrawal_transactions, add_enqueue_withdrawal_transaction_operations).
WithdrawalsOnce ==
    /\ signed = [n \in 1..Len(signed) |-> n]
    /\ Queued(store.queue) = (Len(signed) + 1)..store.accepted

\* No accepted withdrawal disappears: it waits in the queue or was handed out
\* (apply_identity_credit_withdrawal_transition).
NoWithdrawalLost ==
    \A w \in 1..store.accepted :
        w \in Queued(store.queue) \/ \E n \in 1..Len(signed) : signed[n] = w

\* Every withdrawal that a block committed, with enough blocks to come within
\* the bound for the queue to be emptied one by one, is handed out for signing
\* (dequeue_withdrawal_transactions).
WithdrawalsSigned ==
    \A w \in 1..MaxWithdrawals :
        (/\ w \in Queued(store.queue)
         /\ store.height + Cardinality(store.queue) <= MaxHeight)
            ~> (w <= Len(signed))

\* The committed state moves by whole blocks (BlockLedger), whichever handlers
\* fail and wherever the process stops.
Ledger == INSTANCE BlockLedger WITH
    WITHDRAWAL_LIMIT <- WITHDRAWAL_TRANSACTIONS_QUERY_LIMIT,
    height <- store.height,
    epoch <- store.epoch,
    waiting <- InOrder(store.queue),
    signed <- signed

LedgerSpec == Ledger!Spec

=============================================================================
