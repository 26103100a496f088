# Dash Platform: specification, model checking and proofs

TLA+ models of the Rust core of Dash Platform (this repository), the TLC runs
that check them on small instances, and TLAPS proofs for every instance. Every
definition is translated from the source; `PROJECT.json` maps each one to its
file and lines.

## 1. The system

The repository is the state machine of a Tenderdash chain. JavaScript (not in
this repository) receives the blocks and drives a Rust library through a Node
binding. All state is in GroveDB, a tree of trees with transactions.

| Part | State | Operations | Interacts with |
|---|---|---|---|
| **Fee pools** `dash-abci/src/execution/fee_pools`, `drive/src/drive/fee_pools` | per epoch: start height, proposers and block counts, storage and processing credits; the distribution pool; the unpaid epoch index | `process_block_fees` at the end of every block | identities (balances), reward share documents |
| **Block execution** `dash-abci/src/abci` | execution context in memory | `init_chain`, `block_begin`, `block_end`, `after_finalize_block` | fee pools, withdrawals, genesis time, cache |
| **Genesis time** `drive/src/drive/genesis_time` | an item, and its copy in `DriveCache` | init, get | block execution |
| **Withdrawal queue** `drive/src/drive/identity/withdrawal_queue.rs` | index counter, queue | enqueue, dequeue | block execution, withdrawal transition |
| **Contract storage and cache** `drive/src/drive/contract`, `drive/src/drive/cache.rs` | contract items, document type trees; a global cache and a cache per transaction | insert, update, apply, fetch | node binding (merge and clear), documents |
| **Node binding** `node/src/lib.rs` | map of open transactions, handles in JavaScript | start, commit, rollback, abort, finalize, ca. 40 callbacks | everything |
| **Identities** `dpp/src/identity`, `dpp/src/state_transition` | identities (keys, balance, revision), spent asset locks, key hashes | create, top up, update, withdrawal: validate and apply | withdrawal queue, state repository |
| **Documents batch** `dpp/src/document` | documents | create, replace, delete: validate and apply | data triggers, contracts |
| **Data triggers** `dpp/src/data_trigger` | a registry | one check per contract, type and action | documents batch |
| **Data contracts** `dpp/src/data_contract` | contracts | create, update: validate and apply | contract storage |
| **Document and index store** `drive/src/drive/document`, `drive/src/contract` | primary trees, index trees, references | add, update, delete | storage flags, fees |
| **Queries** `drive/src/query` | none | grouping of where clauses, choice of index, paths and ranges | document store |
| **Storage flags and fees** `drive/src/drive/flags.rs`, `drive/src/fee`, `drive/src/drive/batch` | flags of an element: owner and bytes per epoch | combine, split, sum; batches of high-level operations | all writes |
| **Contract model** `dpp/src/data_contract/extra` | document types derived from a contract | encode and decode documents and index keys | document store, queries |
| **Signing and conversion** `dpp/src/state_transition` | none | sign, write, rebuild, verify | every state transition |

Hard behaviours: blocks are retried after failing handlers and restarts while
caches in memory survive; transactions, handles and caches are keyed by machine
addresses; JavaScript's garbage collector sends messages of its own; the unpaid
epoch index, the current epoch and gaps between epochs move independently of one
another; state transitions arrive in any order and repeatedly; several writes of
one block meet in one batch. `PROJECT.json` lists each hazard at its line with
the properties aimed at it.

What makes the parts correct:

- fee pools: the block end fails only for the three reasons listed in section 5,
  no epoch with blocks is skipped, payouts go on until every proposer is paid,
  credits are neither created nor lost beyond rounding;
- block execution: what an abandoned block left in memory does not mislead the
  next one; the committed state moves by whole blocks;
- withdrawals: handed out once, in order, all of them, eventually;
- contract cache: no read sees what was not committed; a block reads its own
  writes; updates lose no documents;
- identities: credits are backed by asset locks, keys are never lost, replays
  change nothing;
- document store: indices and documents agree, unique indices stay unique, a
  document can be erased, history is kept;
- documents batch: no replace hides another, only owners change documents, what
  is stored is valid and uniquely indexed under the contract as updated, domains
  have parents;
- queries: an answer is what a scan would give; pages deliver each document once;
- node binding: a commit that is answered kept exactly the handle's writes, every
  call is answered, a closed store can be opened again;
- storage operations: nobody is refunded more than was paid, a batch has the
  effect of its operations one after the other, documents read back as written,
  keys are in the order of values;
- signing: what verifies is what was signed, what was signed verifies, added keys
  prove possession, a batch is signed strongly enough.

## 2. Modules

| Module | Models |
|---|---|
| `FeePools` | `process_block_fees` and the reward share documents it reads |
| `FeePoolsCredits` | `FeePools` with history variables for the books |
| `FeePoolsProofs` | theorems about `FeePools` and `FeePoolsCredits` |
| `ContractCache` | node transactions, caches, contract insert, update and apply |
| `ContractCacheProofs` | theorems about `ContractCache` |
| `BlockExecution` | the ABCI handlers, genesis time, withdrawal queue |
| `BlockLedger` | abstract: what executing blocks promises |
| `BlockExecutionProofs` | theorems about `BlockExecution`, its refinement of `BlockLedger` among them |
| `Identities` | identity state transitions |
| `IdentitiesProofs` | theorems about `Identities` |
| `DocumentStore` | add, update and delete of documents with their index trees |
| `DocumentStoreProofs` | theorems about `DocumentStore` and the lookups of `DocumentQuery` |
| `DocumentTable` | abstract: a table of documents with unique indices |
| `DocumentQuery` | queries over `DocumentStore`, and a client that follows pages |
| `DataContracts` | contracts, their validation and what an update may change |
| `DataTriggers` | the registry of data triggers and each trigger |
| `DocumentsBatch` | document batches and contract updates; composes the two above |
| `DocumentsBatchProofs` | theorems about `DocumentsBatch` |
| `NodeBinding` | wrapper, queue, thread, event loop, handles and finalizers |
| `NodeBindingProofs` | theorems about `NodeBinding` |
| `Encoding` | integers, floats and variable-length integers as bytes, scaled down |
| `StorageFlags` | flags of elements: combining, splitting, their bytes |
| `DocumentCodec` | document types, the native form of a document, index keys |
| `DriveOperations` | batches of operations on elements; composes the three above |
| `SignedTransitions` | signing, raw forms, the factory, verification |
| `SignedTransitionsProofs` | theorems about `SignedTransitions` |
| `MC...` | constants of the runs |

### FeePools

One `BlockEnd` step is one call of `process_block_fees` (all its reads come from
the state before the block; all writes are one batch), for a block of any epoch
up to `MaxGap` after the last one, by any proposer, with any of the `Fees`. Items
of GroveDB trees that may be absent are `NoItem`. `BlockEndSucceeds` collects
every way to fail (missing item, missing tree, division, unknown payee,
inconsistent batch); a failing step changes nothing but `outcome`.
`FeePoolsCredits` adds history variables for what was paid in, paid out and
rounded away. Decimals are
integers counted in `1/DECIMAL_ONE` with the rounding of `rust_decimal`. Reward
share documents change between blocks, restricted by the schema and the unique
index only, because the registry of data triggers has no entry of that kind.
The real constants (20 epochs a year, 50 years, 50 proposers per epoch of delay)
are parameters.

### ContractCache

One step is one message of the thread that owns the store. A `Transaction` value
has three addresses in its life (local variable, slot of the map, local variable
of the handler that ends it), and the caches are keyed by address: this is why
`CommitTransaction` merges `RemovedAddress` while callbacks fill `SlotAddress`.
Where the addresses come from is the build's choice; the model takes what the
code gives when the loop's locals keep their stack slots and the map holds one
entry. All clients and events are there in every run: blocks, queries beside
them, writes outside of a block, `apply_contract`, aborted blocks, handles that are
collected late, restarts and evictions. Documents are abstracted to whether the tree
of a type is missing, empty or full.

The cache of this code can be stale, and the properties say exactly when. The
history variable `doubt` collects, per contract, the events that may bring cache and
storage apart, never the comparison itself: the contract was changed while the
global cache had it (`query`); the block's cache kept it while its block was given up
or it was written past that cache, lost it after a change, or took it from a doubtful
global entry (`block`); an update went by a doubtful original, or `apply_contract`
inserted it over itself (`stored`). Refreshing, evicting, `after_finalize_block` and a
restart end doubts of the first two kinds. `QueriesReadCommitted`, `BlockReadsCurrent`
and `DocumentsSurvive` hold for every contract that is not in doubt. No source of doubt
can be dropped: with any one of them taken out of the model, TLC finds a step of the run
`cache` that violates one of the three. `TypesHaveTrees`, which goes with
`DocumentsSurvive`, is proved only.

### BlockExecution and BlockLedger

JavaScript executes one block at a time: `StartBlock`, `BlockBegin`, any number of
`EnqueueWithdrawal`, `BlockEnd`, `Commit`; a handler may fail before or after it
changed memory, then the transaction is aborted; the process may stop anywhere.
`store` is the committed state, `txn` the state in the block's transaction;
`genesisCache` and `context` survive an abort. `KeyStep` is the difference
between the index a caller reads and the key it enqueues under: 1 in the tests
of the binding, 0 in `apply_identity_credit_withdrawal_transition`.
`BlockLedger` is the promise: height, epoch and withdrawals move by whole blocks,
oldest withdrawals first. `LedgerSpec` is the refinement.

### Identities

One `Deliver` step is one state transition that passed all validators and was
applied; a refused one changes nothing. All transitions over the constants may
be delivered in every state, so late, repeated and reordered deliveries are
included. An identity is named by the out point that paid for it, as its id is a
hash of it. Signatures are modelled by which key signed; the cryptography, JSON
schemas and encodings are external. The order of validators is that of
`validate_state_transition_*` in `dpp`: structure, signature, fee, state.

### DocumentStore and DocumentTable

One step is one operation of Drive on a document that succeeds; one that fails
changes nothing. An operation folds over the indices of the type and gathers a
batch; existence (`HasRaw`) is looked up in the state before the batch, while
`UpTreeWhileEmpty`, which deletes a reference and the trees above it that hold
nothing else, counts what the batch has inserted and deleted so far.
`AddToIndex`, `MoveInIndex` and `RemoveFromIndex` keep the three different rules
the code has for a unique index with an empty property. The document type is
chosen in `Init` and is the contract's from then on. GroveDB is external: a
batch needs the parent of every element, and deleting a tree that is not empty is
an error (`deleting_non_empty_trees_returns_error` is set). Any property may be
lacking, those of unique indices included: a reference of such a document stands
at the key 0 or in a tree there (`InTree`), by what put it there. `RefusedExactly`
says what this does to later operations, and `Erasable`, what the code says of
deletes, is violated (section 5). The caller adds new ids only, as the documents batch validator
does, except when it overrides. `DocumentTable` is the promise: a map from ids to
documents in which no two clash in a unique index unless a property is empty.
`TableSpec` is the refinement.

### DocumentQuery

Extends `DocumentStore`, so that the trees a query reads are those that inserts
built. Values are keys (byte sequences); `Grouped` is the validation and grouping
of where clauses with each refusal, `BestIndex` the choice of the index,
`QueryLevels` the levels, ranges and directions that `get_non_primary_key_path_query`
builds, with the start document. What GroveDB makes of a path query is external.
The reference is `Satisfies`, a filter over all documents. Where the answer is
known not to agree (section 5), `Consecutive` and `Pageable` say so.

### DataContracts, DataTriggers and DocumentsBatch

Clients make transitions from copies of documents of any committed state, so
batches are late, repeated or out of order. `ValidBasic` is the basic validation,
`ValidState` the fetch, ownership, revision and time checks, triggers and the
uniqueness check whose result is dropped; then transitions are applied one by one and may stop in the
middle, after which the caller keeps or gives up the block. The store they are
applied to is that of `DocumentStore`, reduced to what decides whether it refuses:
of each document the indices it is entered under (`indexed`) and the unique ones in
which its reference stands in a tree with others (`lodged`). `create_document`,
`update_document` and `remove_document` have the refusals of `insert.rs`, `update.rs`
and `delete.rs`, the one of a document that lacks a property of a unique index
included; document types keep no history here. A contract is its
version, its definitions and per type the properties, required ones and indices;
`UpdateContract` is the whole validation of an update. Triggers are functions of
a transition and the stored documents that end in a result, an error or a panic.
`WellFormed` is what the meta schema asks of a contract before it reaches the
validators. `DomainsUnderParents` speaks of domains as they were created: a
replace may move a domain anywhere, since the rejection is a dropped condition.

### NodeBinding

JavaScript opens wrappers on one path, calls functions without waiting for
answers, and drops wrappers and handles at any time. The thread serves its queue;
answers travel to the event loop. Transactions are keyed by the address of a local
variable in one stack slot, hence at most one entry. Each exported function is a
record of how it treats its transaction argument and what it does to the store.
`Faults` lets the store fail, upon which the thread panics where the code unwraps.
`Orderly` restricts the client to one transaction at a time, as `GroveDB.js` is used.

### Encoding, StorageFlags, DocumentCodec and DriveOperations

Bytes are digits of radix 16 and integers have two of them, so that signs, lengths
above half a byte and boundaries occur among a few values. Flags are written to
and read from bytes as in `flags.rs`. `DocumentCodec` derives the document type
from the CBOR form of a contract and has the native serialization, its reader and
the keys of index trees. `DriveOperations` turns a batch of high-level operations
into storage operations by reading the store before the batch, combines the flags
of replaced elements, splits removed bytes and consumes the costs to fees.
GroveDB's calls of the flag callbacks are external: one call per element, and the
kind of the removal argument (an amount or sections per epoch) is either.

### SignedTransitions

One behaviour is the life of one transition of any of the seven kinds: draft, set
content or key id, let added keys sign, sign, send in one of the forms the type
writes, rebuild by the factory, verify, while keys are disabled and the contract
changes. `to_object` and `from_raw_object` of each kind are modelled property by
property, with `replace_identifier` and the skipping of signatures; `With` and
`Without` insert and remove properties, and every decoder ends in `Restored`, a draft
that got its version, key id and signature back. A signature is who made it and over
which bytes; verification is equality of both. The assumptions are that added keys
are given unsigned, that keys are of the four types, and that levels are 0 to 3.

## 3. Runs

Deadlock is not checked where heights, transactions or deliveries are bounded:
the program goes on, the run ends at its bound (`CHECK_DEADLOCK FALSE`).

| Run | Shows | Bounds and why they are enough |
|---|---|---|
| `payout` | the block end fails only for an unfunded epoch or a payee that is shared or unknown, start heights are ordered, no epoch is skipped, payouts progress and pay from a frozen pool, no credit is created, each payout block loses at most one | 2 proposers, 1 paid per block and epoch of delay, so a payout is cut; epochs to 3 with gaps of up to 2 in a perpetual period of 2, so an epoch may start in the last one with a tree; 4 blocks leave two unpaid epochs behind the current one; blocks with and without storage fees; two shares of 33.33 % to payees that masternodes share |
| `cache` | no uncommitted contract reaches a query; queries, blocks and updates go by what the storage has, save where the cache was passed by | one contract in seven values, with and without history; all clients, evictions and restarts; 3 transactions: one that is given up, the next that finds what it left, and a third in which a late handle of an earlier one is collected |
| `blocks` | caches and context survive failures harmlessly, epoch changes are announced, withdrawals once and in order, refinement of `BlockLedger`, liveness of withdrawals | 4 blocks, epochs of 2 time units and times to 7 (changes of no, one and two epochs, and exact boundaries), 5 withdrawals with 2 per block (the queue is longer than a block takes), 2 failures |
| `withdrawal_lost` (violation) | the second withdrawal of a block replaces the first | 2 withdrawals, `KeyStep = 0` |
| `identities` | credits backed, a master key remains, keys only grow, hashes match | 2 out points, one of which has an instant lock, 3 key ids, 6 key lists with a read only, a withdrawing and a script key, 4 deliveries: create, add, disable, and a repetition |
| `documents` | references and trees agree with the documents, operations are refused exactly for what stored documents stand in the way of, history stays, refinement of `DocumentTable` | 3 ids, 2 properties with 2 values and empty, 5 types: indices that share prefixes, two unique ones, immutable, two with history; three documents can share a value, differ in one, lack one or all values of a unique index, and leave a tree empty behind an update; 2 block times, the second reached with at most one document (`MaxCarried`): an item of an earlier block, and one written twice in the same block; ids and the two values are symmetric |
| `delete_refused` (violation) | a document that lacks a property of a unique index cannot be deleted | 2 ids, 1 value and empty |
| `queries` | answers agree with a scan, pages deliver each document once | 3 documents of a type with a unique compound and a plain index or of one with history; keys of which one is the beginning of another; every operator on either property, both directions, limits 1 and 2, so that pages are full and cut; SQL forms with the value first; stored documents lack no property |
| `binding` | commits keep whole transactions, reads see their own, a closed store opens, every call is answered | 4 calls of which 2 wait (start, write, commit and a late one), 2 wrappers on one path, failing store, collection of handles at any time |
| `transitions` | no lost update, owners only, stored documents valid and uniquely indexed after updates, domains have parents, where a batch may stop | eight kinds of clients, one per behaviour: two owners with clashing notes, batches of two that agree on no or on one unique index, pairs (a unique index of two optional properties), dated documents under a unique index of owner and time, domains and immutable preorders, the other system contracts, and a contract with 12 updates; 4 batches: create, replace, delete, and a late repetition |
| `elements` | refunds bounded, a batch is a sequence, native forms read back, keys ordered, what is refused | 2 documents (one with an owner in its flags), 3 epochs and 3 batches: add, grow in another epoch, remove; fields of every type, negative, zero and boundary values, empty and too long texts |
| `signing` | what verifies was signed and conversely, decoded as sent, key proofs, strength | 2 identities, a key of every type, 2 contents, 2 document types with three demands, 4 edits or signatures: sign, change, sign again in any order |

**Fairness.** `FairSpec` of `BlockExecution` (run `blocks`):
Tenderdash calls the next handler until a block is committed, every handler
answers, and failures are transient, so weak fairness of each handler's success
is what the caller provides; failures and crashes are bounded by `MaxFailures`
and have no fairness, nor have clients that enqueue withdrawals. `InitChain` is
fair only until the chain is initialised. `WithdrawalsSigned` speaks of queues
that the remaining blocks of the bounded run can empty. `Fairness` of `NodeBinding`
(run `binding`): the thread blocks only on its empty queue and the event loop runs,
so each thread's next step and each delivery are weakly fair; JavaScript's calls
and the garbage collector are not. `Answered` excepts threads that ended.

Invariants that belong together are checked as one, a conjunction of named parts:
`PoolsInv`, `BooksKept`, `CacheInv`, `MemoryCoherent`, `IdentitiesInv`,
`IndicesAgree`, `RefusedExactly`, `BindingInv`, `DocumentsFit`, `BytesFaithful` and
`ArrivesIntact`. Each part is defined and explained in its module, the type
invariant among them. Each property has a mutant: a definition changed as a
plausible bug in that code would change it, under which TLC finds the property
violated; for a conjunction the mutant breaks one of the parts.

## 4. Proofs

`FeePoolsProofs`, for all constants allowed by the assumptions of `FeePools`
(any proposers, fees, gaps up to the perpetual period, any heights), prove the
inductive invariant `PoolsInv`, which is also what the run `payout` checks, and from
it each of its parts (types, `StartBlocksOrdered`, `OpenEpochsReadable`,
`TreesContiguous`), `PayoutInputsPresent` and the action property `NothingSkipped`.
`StartBlocksOrdered` and `OpenEpochsReadable` need each other, since the next
unpaid epoch is found among the started epochs and its start height must exceed the
unpaid one's; `TreesContiguous` is what shows that the tree of the current epoch
exists; and before the first block both indices are the genesis epoch. From
`PoolsInv` follows `UnpaidPoolFrozen` too: a block distributes from its own epoch on
and creates later trees, so it reaches the pool of an earlier epoch only by closing it.

The rest is about sums. `MapThenSumSet` is a fold over a finite set, and the library's
induction principles take a predicate, which the provers cannot instantiate; the proofs
state induction for a *set* of good subsets instead (`SubsetInduction`, over finite
sets) and derive a small library of sums from it: `SumOfOneMore`, `SumOfUnion`,
`SumOfOrder`, `SumOfScaled`, `SumOfImage`, `SumOfConstant` and so on. On it rest:

- `PayoutsMakeProgress` (`PayoutMakesProgress`): a paid proposer had a positive count;
- `BlocksAlwaysAccounted` (`EpochBlocksAccounted`): a block adds one to one count and
  one to the length of its epoch; a payout only takes counts of the unpaid epoch;
- `FailuresExplained` (`FailsOnlyFor`): the floors of the table's shares add up to at
  most the pool, so the leftover is not negative, and the shares of a masternode to
  at most its reward, as each is a part of what the earlier ones left. The inductive part is
  `ItemsAccounted`: of the epochs not yet paid, one without a storage item was
  reached by no distribution of a non-empty pool; it holds over gaps because the trees
  created after a gap lie beyond every earlier distribution;
- `BooksAlwaysKept` (`BooksKept`), from `BooksInv`: with `N` blocks in the epoch under
  payout, a pool of `T` and proposers of `G` blocks paid, the credits `x` paid so far
  satisfy `2 N D x <= 2 T D G + F N` (`PaidAtMost`), where `D` is `DECIMAL_ONE` and `F`
  the number of proposers paid, for each proposer's part is rounded to the nearest
  `1/D`; and from below the same with `D - 1` more for each chunk, whose fraction of a
  credit is dropped (`PaidAtLeast`). When all are paid, `G = N`, and the bounds give
  `T - chunks <= x <= T`. Between payouts `Lost` stays in `0 .. chunks`, nothing was
  paid of an epoch that is current, and there is no item beyond the trees.

`BooksFollowPools` shows that `FeePoolsCredits`, which the run checks, implements
`FeePools`, so that the theorems about `FeePools` hold there. The assumptions are that
the fee table adds up to at most one (`test_distribution_table_sum` in the code: exactly
one), that proposers, identities and share documents are finitely many, and
that there are fewer than `2 D` proposers (`D` is `10^28` in `rust_decimal`; below that
number the rounding of all parts together stays under one credit).
`BooksAlwaysKept` has `BATCHING_ENABLED` as a hypothesis, the setting of the default
configuration and of the run: without it two payments to one identity both add to
the balance before the block, and the second write replaces the first.

`DocumentStoreProofs`, for any types with any indices, ids, values and number of blocks,
prove all the properties of the run `documents`: `HistoryKept` (from `PrimaryOK`, the
part of the store that is kept by id), `IndicesAgree`, `RefusedExactly` and the
refinement of `DocumentTable` (`TableSpec`). Assumed is what the code has: `NoDocument`
is no stored value, there are finitely many ids, no property is called `"0"`, the key
below which an index keeps its references, and the indices of a type have properties,
none twice, and differ (the validator of contracts sees to that).
`StoreOK` is the inductive invariant: references and trees agree with the documents.
A document is taken with the set of the indices in which its reference stands in a
tree, for two documents with the same values may differ in that. Inside one operation the batch goes through *stages*, one
per index: `Stage(b, k, id, new)` says that the references of the batch are the entries
of all documents, the first `k` indices holding the document as it is to be and the
others as it was, and that its trees are the roots and those above its references.
`OneIndex` shows that the part of an operation on one index leads from a stage to the
next one, or makes the batch fail exactly when the document stands in a tree of a
unique index it is to leave, or when a unique entry is taken. Below it are
`DeleteOne` (`UpTreeWhileEmpty` removes a reference and just the trees that stood above
nothing else: `UpTreeGone`), and `InsertTrees` and `InsertLeaf`. The case one would
worry about is an update whose index inserts only the trees that did not exist before
the batch, while an earlier index of the same batch has deleted what it emptied.
`LevelRaw` shows that such a tree still stands: if it was on the document's old path of
one index and is on the new path of another, it is on the new path of the first as
well, so that index has not given it up (`ShiftedLevel`). `FoldChain` carries the
stages through the fold over the indices, again with induction over a set.
The module also proves that queries leave the store alone (`QueriesKeepStore`:
`QuerySpec` implements `Spec`), so all of this holds while a client follows pages, and
`LookupsExact` of the trees a query goes through: the tree of the first `n` values of
an index stands just when a stored document has these values (`LevelsExact`), and at
the end of the index, below `"0"`, the lookup of a unique index, or of one that is
not, finds exactly the documents with all of them (`EndExact`). A unique index with
some values empty and some not is excepted at its end, where a query looks in one
place and documents may stand in two.

`ContractCacheProofs`, for any contracts, types, values and clients, prove the
invariant `CacheInv`: types and `NoDirtyRead`, strengthened by the facts that nothing
is ever cached under `RemovedAddress` (so that a commit merges nothing) and that what
is committed is in the history `past`. On it rests `DoubtInv`, with which
`QueriesReadCommitted`, `BlockReadsCurrent`, `TypesHaveTrees` and `DocumentsSurvive`
follow for every behaviour of `Spec`, without a hypothesis. `Agrees` states of one
contract how its entry in the global cache relates to what is committed, its entry in
the block's cache to what is pending, and that a contract the block changed is in the
block's cache, in doubt, or new: this is what makes a read that falls back to the
global cache right (`GotCurrent`). `Founded` states that types and trees of a contract
match in both databases and that the open transaction keeps its documents; an update
preserves it because its original is then what the storage has.

`BlockExecutionProofs` prove `MemoryCoherent` for every chain: `MemoryInv` states per
phase of a block what the transaction, the cached genesis time and the context are
made from. `WithdrawalsOnce` and the refinement of `BlockLedger` (`LedgerSpec`) are
proved from `KeyStep = 1`, under which the callers of the queue take a new key for
every withdrawal; run `withdrawal_lost` shows that they fail for the caller with
`KeyStep = 0`. `WithdrawalsInv` says that the queues hold exactly the numbers that
follow the signed ones, in storage, in the transaction and in the answer of
`block_begin`; every step is then a step of the ledger or leaves it alone.

`NodeBindingProofs` prove `BindingInv`, `CommitsWhole` and `ReadsOwnTransaction` for
any wrappers, call limits and faults. The invariant `FullInv` relates what
JavaScript did to what the thread has served: the queue holds the calls not yet
served in their order, an orderly client makes no call through a handle after it
asked for the next transaction, and therefore the only entry of the map belongs to
the handle whose call is served, although the map's key cannot tell.

`IdentitiesProofs`, for any out points, keys and deliveries, prove the invariant
`IdentitiesInv` (types, `MasterKeyRemains`, `KeyHashesMatch`), the action property
`KeysOnlyGrow`, and `CreditsBacked`. Type correctness is inductive by itself; the other two parts are
inductive given types, and rest on lemmas about `Disabled` and concatenation.
`CreditsBacked` is inductive given types: each transition moves the three sums (out
points spent, balances, withdrawn satoshis) by amounts that balance (`BackedMoves`),
except for what a withdrawal's conversion to satoshis cuts off.

`DocumentsBatchProofs` prove all five properties of `DocumentsBatch`: `DocumentsFit`,
`StopsOnlyOnClash`, `DomainsUnderParents`, `NoLostUpdate` and `OwnersOnly`, for any
clients, batches of any size and any admitted updates. They assume of the constants
what the code guarantees before the modelled functions run: contracts are
`WellFormed` (the meta schema: no property is named like a system property, an index
has a property), ids are records of what they are the hash of
(`ClientsAssumption`, `ContractsAssumption`, `NoDocumentAssumption`). The
inductive invariant `BatchesInv` has, besides the state (every stored and every
committed document fits its contract), what is still true of a batch in the middle
of its application: each of its transitions is admitted and by the owner of its
document (`SentInv`), what was fetched is what is stored until the batch touches it
(`FetchedInv`), documents exist as the validation saw (`PresenceInv`), and a stored
document that agrees with what a transition writes on a unique index, none of whose
properties is missing, was found by the uniqueness check or written by the batch
(`RivalsInv`). Of what stored documents lack, the state says that a document stands in
the tree of a unique index only if it lacks one of its properties, and surely if it
lacks all of them (`LodgedIn`): this is what makes the refusals of the store those
that `StopsOnlyOnClash` lists. Then `VersionsInv`: a
document that was never deleted has one content per revision among the versions
committed so far, which is why an equal revision means an unseen update was not
lost; and `DomainsInv`: parents are stored and untouched, or committed.
`UpdateKeepsUniqueIndices` and `UpdateKeepsFit` are the lemmas about contract
updates: although a patch may extend indices, a unique one stays as it is.
TLC checked each part of the invariant on the instance of run `transitions` first;
doing so on larger data showed that an earlier `DomainsUnderParents` was false for
replaced domains.

`SignedTransitionsProofs` prove all four properties of `SignedTransitions`, for any
identities, keys, contents, demands and number of edits. The lemma they rest on is
`BytesCoverContent`: for two transitions of one kind `to_buffer(true)` writes the
same bytes exactly when their contents are equal. It is proved kind by kind from
what each `to_object` writes (`BatchWrites`, ..., `TopUpWrites`), so a property that
a kind forgets, or one that depends on the signature, would break it. `SignedInv` is
the inductive invariant: a signature in the transition (or in an added key) was made
over the bytes of some transition `u` of the same kind, by a key that was then
allowed to, and `signing` (`proofs`) records the content of `u`; it survives every
edit, because the edit changes the transition and not `u`. From there
`AcceptedAsSigned` needs the lemma in one direction and the injectivity of
signatures, `ArrivesIntact` and `ProofsOfPossession` need it in the other.
`NodeHolds` says what the factory can make of what was sent: nothing, a copy
without a signature, which verifies nowhere (`UnsignedRefused`), or the transition
itself with the contract the node fetched. `StrongEnough` follows from that and from
`get_security_level_requirement` on the fetched contract.

Only model-checked: liveness (`WithdrawalsSigned`, `Answered`); the properties of
`DriveOperations`, which has a recursive operator (`insert_values`, over nested
schemas), and with it `StorageFlags` and `DocumentCodec`; and `AnswersRight` and
`PagesComplete` of `DocumentQuery`. What an answer is read from is proved to be
exact (`LookupsExact`); how it is put together, sorted, flattened and cut sequences
chosen by grouping clauses and indices, is not: it rests on `SortSeq`, an operator of
the TLC module which the prover does not know.

## 5. Findings and observations

Two runs end in a violation, and `PROJECT.json` quotes the lines: `withdrawal_lost`,
the second withdrawal of a block replaces the first in the queue; `delete_refused`, a
document that lacks a property of a unique index is never erased.

The following was met while modelling. Each is part of the model (the actions do
what the code does), and properties that would not hold because of it say so in
their statement.

*Fee pools and blocks.* Two payments of one block to one identity are two
operations on one key and fail the block end, again and again
(`fee_distribution.rs:365`); so does a reward share for an identity that is not
registered. An unfunded epoch has no storage item, which fails
the block end of its payout. Storage credits of an epoch without blocks stay in
its pool. The withdrawal is enqueued before the balance is reduced
(`apply_identity_credit_withdrawal_transition_factory.rs:66`). The comment at
`identity_credit_withdrawal/mod.rs:22` speaks of the latest withdrawals where the
oldest are taken.

*Contract cache and binding.* Committing a block merges the cache of the local
variable's address, where nothing is, so that its contracts do not reach the global
cache ("Merge transactional cache to global cache if present", `cache.rs:57`) and
queries go on with what that had before. Aborting a block clears the cache of the
same address, so its contracts stay under the address of its slot. A handle
that is collected late aborts the transaction then open under the same address.
After an original was cached before an update, the next update takes a type for
new and empties its tree (`contract/mod.rs:562`). A contract that keeps history
cannot be fetched and is written over by `apply_contract`, readonly or not.
`proveQueryMany` demands a transaction and ignores it. Closing drops pending
calls; a failed commit, rollback or flush panics the thread. A dropped wrapper
leaves its thread (comment `lib.rs:134-137`).

*Identities and signing.* The update validator looks at the list of keys before
the new ones are added, so that repeated ids and the limit of 32 are unchecked
(`validate_identity_update_transition_state.rs:138`). Creates and top ups that
the factory decoded have lost signature and version, top ups their target as well;
their buffers lack a type; `replace_identifier` swaps the identifier for null in
their signed data, so that a signature does not cover the target of a top up.
`get_type` of a create is that of a top up. `to_buffer` of the enumeration never
holds the signature (`state_transition/mod.rs:104`). The factory refuses identity
updates. Verification ignores `disabledAt`, signing looks at it. The requirement
of a batch uses the contract as fetched at decoding. Key proofs of a create never
validate. `verify_signature` accepts a script hash key without a check, and the
validator refuses that type. `set_document_schema` leaves `document_types` stale;
`TryFrom<JsonValue>` does not regenerate `binary_properties`; `from_raw_object`
loses `config` and `document_types`.

*Documents and contracts.* A document with an empty property of a unique index
that was inserted cannot be erased, and an update that changes it in this index is
refused (`delete.rs:307`, run `delete_refused`); one that was updated to lack some
but not all of them stands alone, and blocks others with the same values
(`update.rs:534`). No validation of a batch looks for that, so a validated batch may
stop there (`StopsOnlyOnClash`). The conditions a trigger returns are dropped
(`data_trigger/mod.rs:87`); a missing parent domain panics
(`dpns_triggers/mod.rs:159`); the registry has entries of other contracts
(`get_data_triggers_factory.rs:135`); reward shares of one batch are not added up.
The result of the uniqueness check is dropped. Repeated ids in a batch are not
refused; the check for partial compound indices is applied to none. `$updatedAt` of a replace
never reaches `updated_at` (`document_replace_transition.rs:19-20`). A create that
is delivered again brings a deleted document back. The basic validator of a
contract create validates the state transition in place of the contract and so
refuses all. `$defs` of an update are compared with nothing. Appending a property
to a non-unique index is admitted, so stored documents are missing from it, and can
neither be deleted nor, where their values in it change, replaced; an
index with fewer properties panics; a smaller version panics or wraps
(`validate_data_contract_update_transition_basic.rs:113`). Duplicate indices of one
property are admitted. Properties called "required" or "properties" confuse the
path checks; a definition that is referred to twice is refused as a cycle; an
indexed property that is a reference is not checked for its type.

*Queries.* `<` and `<=` ascending with a start document give an empty range.
`BetweenExcludeLeft` and `BetweenExcludeBounds` descending let a bound in. `startAfter` loses documents
with equal values in non-unique indices and cuts every level of a compound one;
`$id ==` ignores it. A descending `orderBy` is ignored without a where clause and
on left-over levels. `blockTime` is searched under keys other than those that
inserts write (`insert.rs:120`, `query/mod.rs:589`). The choice of an index does not
require consecutive properties (`data_contract/extra/index.rs:51-53`). The limit
of an SQL query is not checked.

*Flags and codec.* Flags of several epochs with an owner read later epochs from
offset 3 (`flags.rs:453`). Bytes are taken from the lowest epoch first, though the
comment at `flags.rs:535` says last in, first out, and the epoch that covers the
rest is recorded with none (`flags.rs:581`); key and value are each split against
the same map. An update of the same size moves the base epoch. Shrinking in a
later epoch is refused, or leaves flags that list no epoch and cannot be read.
Documents stored natively can be neither updated nor deleted, and an override
writes over them unseen. Arrays are encoded and never decoded; null becomes
nothing; an empty text reads back as missing; objects are lost; `required` is
looked up by the name of the type. Negative zero has the smallest key; "" and
"\0" have the same one; unsigned integers from 2^63 are out of order.
`DataContract::to_cbor` drops `config`, `DriveContractExt::to_cbor` drops
`canBeDeleted`. The dry run of a delete calls `batch_delete` with
`apply`, and so fails for a document that is not there.

## 6. Not modelled, and plan

External: GroveDB, cryptography, Core, JavaScript, CBOR and JSON schema. Left out,
with the reason in `components` of `PROJECT.json`: the branches that only estimate
costs, proofs of queries, the price of an operation, error types and their codes,
the construction of validators (`Protocol facade`), random documents for tests,
`drive/src/contract/document_type.rs` and `index.rs` (not compiled), the limit of
16 KiB of a buffer, and operation with batching disabled.

Next, in this order:

1. Proofs: `AnswersRight` from `LookupsExact`, for one level of a path query, then for
   all of them, with a sort that the prover knows; the
   splitting of bytes in `StorageFlags`.
2. Model: the state transitions of `Identities` and `DocumentsBatch` in the
   blocks of `BlockExecution`; history types in `DriveOperations`; batches
   without batching.
