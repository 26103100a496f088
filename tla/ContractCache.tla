--------------------------- MODULE ContractCache ---------------------------
(***************************************************************************)
(* Data contracts in storage and in Drive's cache, behind the transactions *)
(* of the node binding.                                                    *)
(*                                                                         *)
(* node/src/lib.rs runs one thread that owns the Platform and a map from   *)
(* addresses to open GroveDB transactions; JavaScript sends it messages,   *)
(* and each message is handled to the end before the next one, so one      *)
(* message is one step here.  drive/src/drive/cache.rs keeps the contracts *)
(* that were read: a global cache for reads outside any transaction and a  *)
(* cache per transaction, keyed by the address of the Transaction value.   *)
(*                                                                         *)
(* That value has three addresses in its life: it is created in a local    *)
(* variable (whose address becomes the key of the map and the handle given *)
(* to JavaScript), lives in a slot of the map while callbacks use it, and  *)
(* is moved out into another local when it ends.  The locals are the same  *)
(* stack slots in every turn of the loop, and the map has one entry under  *)
(* one key, so each of the three is one fixed address.                     *)
(***************************************************************************)
EXTENDS Naturals, FiniteSets

CONSTANTS
    Contracts,        \* contract ids
    DocTypes,         \* document type names
    IndexedTypes,     \* the types that have a top level index
    Bodies,           \* the contract values clients send
    MaxTransactions,  \* bound on StartTransaction
    NoContract, NoEntry

ASSUME BoundAssumption == MaxTransactions \in Nat
ASSUME BodiesAssumption ==
    Bodies \subseteq [version : Nat, keepsHistory : BOOLEAN, readonly : BOOLEAN,
                      config : Nat, types : SUBSET DocTypes]
ASSUME NoContractAssumption == NoContract \notin Bodies
ASSUME NoEntryAssumption == NoEntry \notin [contract : Bodies, fee : BOOLEAN]

VARIABLES
    committed,   \* what a read outside a transaction sees in GroveDB
    pending,     \* what a read in the open transaction sees
    cache,       \* DriveCache.cached_contracts
    open,        \* the transaction in the map (its number), 0 if none
    started,     \* number of transactions started
    held,        \* the handle JavaScript executes a block with, 0 if none
    handles,     \* handles JavaScript has not collected yet
    finalizing,  \* a commit was answered, after_finalize_block is to come
    past,        \* history: the contract values each id ever had committed
    doubt        \* history: what the cache may have missed (see Doubts)

vars == <<committed, pending, cache, open, started, held, handles, finalizing,
          past, doubt>>

LocalAddress == "local"      \* of `transaction` in StartTransaction
SlotAddress == "slot"        \* of the map entry, what callbacks see
RemovedAddress == "removed"  \* of `transaction` moved out by remove()

Addresses == {LocalAddress, SlotAddress, RemovedAddress}

-----------------------------------------------------------------------------
(* Storage.  For each id the stored contract and, for each document type,  *)
(* whether its tree exists and holds documents.                            *)

Tree == {"none", "empty", "full"}

Database == [Contracts -> [contract : Bodies \cup {NoContract},
                           trees : [DocTypes -> Tree]]]

EmptyDatabase ==
    [c \in Contracts |-> [contract |-> NoContract,
                          trees |-> [t \in DocTypes |-> "none"]]]

\* The database a callback works on: the one of its transaction if it has one.
View(tx) == IF tx THEN pending ELSE committed

\* fetch_contract finds an item at key 0 of the contract's root.  A contract
\* that keeps history has a tree there: CorruptedContractPath.
Fetchable(db, c) ==
    /\ db[c].contract # NoContract
    /\ ~ db[c].contract.keepsHistory

\* The checks of update_contract_operations: neither side readonly, the flags
\* of the contract (config: history and mutability defaults, flags of the
\* types) unchanged.
UpdateAllowed(new, original) ==
    /\ ~ original.readonly
    /\ ~ new.readonly
    /\ new.keepsHistory = original.keepsHistory
    /\ new.config = original.config

\* GroveDB refuses a batch that inserts under a path that does not exist: the
\* contract's root, or the tree of a type the original is said to have, under
\* which the top level indices go.
PathsExist(db, c, new, original) ==
    /\ db[c].contract # NoContract
    /\ \A t \in new.types \cap original.types \cap IndexedTypes :
          db[c].trees[t] # "none"

\* Mutant: every type of the new contract gets a new tree.
WithUpdated_AllTypes(db, c, new, original) ==
    [db EXCEPT ![c] =
        [contract |-> new,
         trees |-> [t \in DocTypes |->
                      IF t \in new.types THEN "empty" ELSE db[c].trees[t]]]]

\* The types the original contract does not have get an empty tree.  The batch
\* is applied with validate = false, so a tree that is there is replaced.
WithUpdated(db, c, new, original) ==
    [db EXCEPT ![c] =
        [contract |-> new,
         trees |-> [t \in DocTypes |->
                      IF t \in new.types \ original.types
                      THEN "empty"
                      ELSE db[c].trees[t]]]]

\* insert_contract_operations starts with a new, empty tree for the contract.
WithInserted(db, c, new) ==
    [db EXCEPT ![c] =
        [contract |-> new,
         trees |-> [t \in DocTypes |->
                      IF t \in new.types THEN "empty" ELSE "none"]]]

-----------------------------------------------------------------------------
(* The cache.                                                              *)

\* A ContractFetchInfo: the contract and whether its fee was calculated.
Entry == [contract : Bodies, fee : BOOLEAN]

Cached == [Contracts -> Entry \cup {NoEntry}]

NothingCached == [c \in Contracts |-> NoEntry]

EmptyCache == [global |-> NothingCached,
               transactional |-> [a \in Addresses |-> NothingCached]]

\* DataContractCache::get
CacheGet(c, tx) ==
    IF tx /\ cache.transactional[SlotAddress][c] # NoEntry
    THEN cache.transactional[SlotAddress][c]
    ELSE cache.global[c]

\* Mutant: a contract read in a transaction goes to the global cache.
CacheInsert_Global(ca, c, entry, tx) == [ca EXCEPT !.global[c] = entry]

\* DataContractCache::insert
CacheInsert(ca, c, entry, tx) ==
    IF tx
    THEN [ca EXCEPT !.transactional[SlotAddress][c] = entry]
    ELSE [ca EXCEPT !.global[c] = entry]

\* merge_transactional_cache
CacheMerge(ca, address) ==
    [ca EXCEPT !.global =
        [c \in Contracts |->
            IF ca.transactional[address][c] # NoEntry
            THEN ca.transactional[address][c]
            ELSE @[c]]]

\* clear_transactional_cache
CacheClear(ca, address) == [ca EXCEPT !.transactional[address] = NothingCached]

\* Mutant: only the cache of the transaction that ended is cleared.
CacheClearAll_Removed(ca) == CacheClear(ca, RemovedAddress)

\* clear_all_transactional_cache
CacheClearAll(ca) ==
    [ca EXCEPT !.transactional = [a \in Addresses |-> NothingCached]]

\* What get_contract_with_fetch_info_and_add_to_operations answers ...
GotContract(c, tx) ==
    IF CacheGet(c, tx) # NoEntry
    THEN CacheGet(c, tx).contract
    ELSE IF Fetchable(View(tx), c) THEN View(tx)[c].contract ELSE NoContract

\* ... and the cache it leaves: what was fetched is inserted, and an entry
\* whose fee was not known is inserted again with its fee, under the reader's
\* transaction even when it was found in the global cache.
CacheAfterGet(c, epoch, tx) ==
    LET hit == CacheGet(c, tx)
    IN  IF hit # NoEntry
        THEN IF epoch /\ ~ hit.fee
             THEN CacheInsert(cache, c, [hit EXCEPT !.fee = TRUE], tx)
             ELSE cache
        ELSE IF Fetchable(View(tx), c)
             THEN CacheInsert(cache, c,
                              [contract |-> View(tx)[c].contract,
                               fee |-> epoch], tx)
             ELSE cache

-----------------------------------------------------------------------------
(* What can come between the cache and the storage.  The history doubt     *)
(* names the contracts to which it happened:                               *)
(*  - query: the contract was changed while the global cache had it, by a  *)
(*    block that was committed or by a write that does not refresh it;     *)
(*  - block: the block's cache kept it while the block that had changed it *)
(*    was given up, or while it was written past this cache; or lost it    *)
(*    after a change; or took it from the global cache while that was in   *)
(*    doubt;                                                               *)
(*  - stored: it was updated on the strength of an entry in doubt, or      *)
(*    inserted over a contract that was there.                             *)
(* It says what happened, never whether an entry differs from the storage. *)

Doubts == [query : SUBSET Contracts, block : SUBSET Contracts,
           stored : SUBSET Contracts]

NoDoubt == [query |-> {}, block |-> {}, stored |-> {}]

InGlobal == {c \in Contracts : cache.global[c] # NoEntry}
InBlock == {c \in Contracts : cache.transactional[SlotAddress][c] # NoEntry}

\* The contracts that the open block has changed.
Changed == {c \in Contracts : pending[c].contract # committed[c].contract}

\* The contracts that a read takes from an entry in doubt if it finds one.
Doubted(tx) ==
    IF tx THEN doubt.block \cup (doubt.query \ InBlock) ELSE doubt.query

DoubtAfterGet(c, tx) ==
    [doubt EXCEPT !.block = IF tx THEN @ \cup ({c} \cap Doubted(tx)) ELSE @]

\* A write of c that passes the cache by.
DoubtAfterWrite(c, tx) ==
    LET known == {d \in {c} : committed[d].contract # NoContract}
    IN  IF tx
        THEN [doubt EXCEPT !.block = @ \cup known \cup ({c} \cap InBlock)]
        ELSE [doubt EXCEPT !.query = @ \cup ({c} \cap InGlobal),
                           !.block = @ \cup ({c} \cap InBlock)]

\* An update puts what it wrote into the cache of its reader; the original it
\* went by came from there, too.
DoubtAfterUpdate(c, apply, tx) ==
    LET trusted == {d \in {c} : apply} \cap Doubted(tx)
    IN  IF tx
        THEN [doubt EXCEPT !.block = @ \ {c}, !.stored = @ \cup trusted]
        ELSE [doubt EXCEPT !.query = @ \ {c},
                           !.block = @ \cup ({c} \cap InBlock),
                           !.stored = @ \cup trusted]

-----------------------------------------------------------------------------
(* Transactions: the messages of the drive thread.                         *)

Init ==
    /\ committed = EmptyDatabase
    /\ pending = EmptyDatabase
    /\ cache = EmptyCache
    /\ open = 0
    /\ started = 0
    /\ held = 0
    /\ handles = {}
    /\ finalizing = FALSE
    /\ past = [c \in Contracts |-> {}]
    /\ doubt = NoDoubt

\* JavaScript executes one block after the other: the next transaction starts
\* when the last one was ended.
StartTransaction ==
    /\ held = 0
    /\ open = 0
    /\ ~ finalizing
    /\ started < MaxTransactions
    /\ started' = started + 1
    /\ open' = started + 1
    /\ held' = started + 1
    /\ handles' = handles \cup {started + 1}
    /\ pending' = committed
    /\ UNCHANGED <<committed, cache, finalizing, past, doubt>>

Committing(db) ==
    /\ committed' = db
    /\ past' = [c \in Contracts |->
                  past[c] \cup ({db[c].contract} \ {NoContract})]

\* Commit with the handle held.  All handles carry the same address, so the map
\* has the transaction unless a collected handle removed it.
CommitTransaction ==
    /\ held # 0
    /\ held' = 0
    /\ IF open # 0
       THEN /\ cache' = CacheClear(CacheMerge(cache, RemovedAddress),
                                   RemovedAddress)
            /\ Committing(pending)
            /\ open' = 0
            /\ finalizing' = TRUE
            /\ doubt' = [doubt EXCEPT !.query = @ \cup (Changed \cap InGlobal)]
       ELSE UNCHANGED <<cache, committed, past, open, finalizing, doubt>>
    /\ UNCHANGED <<pending, started, handles>>

\* What rollback, abort and the finalizer of a handle do to the map.
Dropped ==
    /\ cache' = IF open # 0 THEN CacheClear(cache, RemovedAddress) ELSE cache
    /\ open' = 0
    /\ pending' = committed
    /\ doubt' = [doubt EXCEPT !.block = @ \cup (Changed \cap InBlock)]

\* RollbackTransaction and AbortTransaction with the handle held: both remove
\* the transaction from the map and discard it.
AbortTransaction ==
    /\ held # 0
    /\ held' = 0
    /\ Dropped
    /\ UNCHANGED <<committed, started, handles, finalizing, past>>

\* PlatformWrapperTransactionAddress::finalize: a handle JavaScript no longer
\* holds is collected, and AbortTransaction is sent for its address.
Finalize(h) ==
    /\ h \in handles \ {held}
    /\ handles' = handles \ {h}
    /\ Dropped
    /\ UNCHANGED <<committed, started, held, finalizing, past>>

\* after_finalize_block, called once the block's transaction is committed.
AfterFinalizeBlock ==
    /\ finalizing
    /\ finalizing' = FALSE
    /\ cache' = CacheClearAll(cache)
    /\ doubt' = [doubt EXCEPT !.block = {}]
    /\ UNCHANGED <<committed, pending, open, started, held, handles, past>>

\* The process ends, or JavaScript sends Close, and the database is opened
\* again: only what was committed is left.
Restart ==
    /\ pending' = committed
    /\ cache' = EmptyCache
    /\ open' = 0
    /\ held' = 0
    /\ handles' = {}
    /\ finalizing' = FALSE
    /\ doubt' = [doubt EXCEPT !.query = {}, !.block = {}]
    /\ UNCHANGED <<committed, started, past>>

\* moka drops an entry of a cache that is at its capacity.
EvictGlobal(c) ==
    /\ cache.global[c] # NoEntry
    /\ cache' = [cache EXCEPT !.global[c] = NoEntry]
    /\ doubt' = [doubt EXCEPT !.query = @ \ {c}]
    /\ UNCHANGED <<committed, pending, open, started, held, handles, finalizing,
                   past>>

EvictTransactional(c) ==
    /\ cache.transactional[SlotAddress][c] # NoEntry
    /\ cache' = [cache EXCEPT !.transactional[SlotAddress][c] = NoEntry]
    /\ doubt' = [doubt EXCEPT !.block = (@ \ {c}) \cup ({c} \cap Changed)]
    /\ UNCHANGED <<committed, pending, open, started, held, handles, finalizing,
                   past>>

-----------------------------------------------------------------------------
(* Contracts: the callbacks.                                               *)

\* A callback with a transaction runs only if the map has it ("invalid
\* transaction pointer address" otherwise).  Reads outside the block's
\* transaction come from queries; writes outside one are made only while no
\* transaction is open, for GroveDB would refuse the commit of the other.
CanRead(tx) == tx => held # 0 /\ open # 0

CanWrite(tx) ==
    IF tx THEN held # 0 /\ open # 0
          ELSE open = 0 /\ ~ finalizing

\* A batch applied in the transaction, or outside of it and thus for good.
Written(db, tx) ==
    IF tx
    THEN pending' = db /\ UNCHANGED <<committed, past>>
    ELSE Committing(db) /\ pending' = db

Transactions == <<open, started, held, handles, finalizing>>

FetchContract(c, epoch, tx) ==
    /\ CanRead(tx)
    /\ cache' = CacheAfterGet(c, epoch, tx)
    /\ doubt' = DoubtAfterGet(c, tx)
    /\ UNCHANGED <<committed, pending, past>>
    /\ UNCHANGED Transactions

\* insert_contract_cbor; a create transition is valid only for an id that a
\* fetch does not find.  The dry run changes nothing.
CreateContract(c, new, tx) ==
    /\ CanWrite(tx)
    /\ CacheGet(c, tx) = NoEntry
    /\ View(tx)[c].contract = NoContract
    /\ Written(WithInserted(View(tx), c, new), tx)
    /\ doubt' = DoubtAfterWrite(c, tx)
    /\ UNCHANGED cache
    /\ UNCHANGED Transactions

\* A valid update raises the version the fetched contract has by one and keeps
\* its document types.
ValidUpdate(new, original) ==
    /\ original # NoContract
    /\ new.version = original.version + 1
    /\ original.types \subseteq new.types

\* Mutant: the cache is not refreshed after the update.
CacheAfterUpdate_NotRefreshed(ca, db, c, tx) == ca

\* At its end update_contract_cbor fetches the contract and caches it.
CacheAfterUpdate(ca, db, c, tx) ==
    CacheInsert(ca, c, [contract |-> db[c].contract, fee |-> TRUE], tx)

\* update_contract_cbor: the original comes from the cache if it is there; a
\* refused update leaves what reading the original cached; a dry run (apply =
\* FALSE) caches the stored contract again.
UpdateContract(c, new, apply, tx) ==
    LET original == GotContract(c, tx)
        allowed == /\ UpdateAllowed(new, original)
                   /\ PathsExist(View(tx), c, new, original)
        db == IF apply THEN WithUpdated(View(tx), c, new, original)
                       ELSE View(tx)
    IN  /\ CanWrite(tx)
        /\ ValidUpdate(new, original)
        /\ IF allowed
           THEN /\ Written(db, tx)
                /\ cache' = CacheAfterUpdate(CacheAfterGet(c, TRUE, tx), db, c, tx)
                /\ doubt' = DoubtAfterUpdate(c, apply, tx)
           ELSE /\ cache' = CacheAfterGet(c, TRUE, tx)
                /\ doubt' = DoubtAfterGet(c, tx)
                /\ UNCHANGED <<committed, pending, past>>
        /\ UNCHANGED Transactions

\* apply_contract: an update of the contract found in storage, otherwise an
\* insert.  A contract that keeps history has a tree at key 0, which counts as
\* not found; an identical contract gives an empty batch, which is refused.
ApplyContract(c, new, tx) ==
    LET stored == View(tx)[c].contract
        over == {d \in {c} : stored # NoContract}
        missed == DoubtAfterWrite(c, tx)
    IN  /\ CanWrite(tx)
        /\ stored # NoContract => stored.types \subseteq new.types
        /\ \/ /\ ~ Fetchable(View(tx), c)
              /\ Written(WithInserted(View(tx), c, new), tx)
              /\ doubt' = [missed EXCEPT !.stored = @ \cup over]
           \/ /\ Fetchable(View(tx), c)
              /\ new # stored
              /\ UpdateAllowed(new, stored)
              /\ Written(WithUpdated(View(tx), c, new, stored), tx)
              /\ doubt' = missed
        /\ UNCHANGED cache
        /\ UNCHANGED Transactions

\* add_serialized_document_for_contract_id: the contract comes from the cache
\* and the document goes into the tree of its type.
CreateDocument(c, t, tx) ==
    LET contract == GotContract(c, tx)
    IN  /\ CanWrite(tx)
        /\ contract # NoContract
        /\ t \in contract.types
        /\ cache' = CacheAfterGet(c, TRUE, tx)
        /\ doubt' = DoubtAfterGet(c, tx)
        /\ IF View(tx)[c].trees[t] # "none"
           THEN Written([View(tx) EXCEPT ![c].trees[t] = "full"], tx)
           ELSE UNCHANGED <<committed, pending, past>>
        /\ UNCHANGED Transactions

Callback ==
    \E c \in Contracts, tx \in BOOLEAN :
        \/ \E epoch \in BOOLEAN : FetchContract(c, epoch, tx)
        \/ \E new \in Bodies : CreateContract(c, new, tx)
        \/ \E new \in Bodies, apply \in BOOLEAN : UpdateContract(c, new, apply, tx)
        \/ \E new \in Bodies : ApplyContract(c, new, tx)
        \/ \E t \in DocTypes : CreateDocument(c, t, tx)

Next ==
    \/ StartTransaction
    \/ CommitTransaction
    \/ AbortTransaction
    \/ \E h \in 1..MaxTransactions : Finalize(h)
    \/ AfterFinalizeBlock
    \/ Restart
    \/ \E c \in Contracts : EvictGlobal(c) \/ EvictTransactional(c)
    \/ Callback

Spec == Init /\ [][Next]_vars

-----------------------------------------------------------------------------
(* Properties.                                                             *)

\* Types of the state: DriveCache, the map of transactions and the handles.
TypeOK ==
    /\ committed \in Database
    /\ pending \in Database
    /\ cache \in [global : Cached, transactional : [Addresses -> Cached]]
    /\ started \in 0..MaxTransactions
    /\ open \in {0, started}
    /\ held \in {0, started}
    /\ handles \subseteq 1..started
    /\ finalizing \in BOOLEAN
    /\ past \in [Contracts -> SUBSET Bodies]
    /\ doubt \in Doubts

\* A read outside any transaction never gets a contract from the cache that was
\* not committed before: the writes of an open or an abandoned block do not
\* reach the global cache (DataContractCache::insert, cache.rs).
NoDirtyRead ==
    \A c \in Contracts :
        cache.global[c] # NoEntry => cache.global[c].contract \in past[c]

\* Nothing is ever cached under the address of a transaction that was moved out
\* of the map, so the merge at commit brings nothing to the global cache.
NothingUnderRemoved ==
    cache.transactional[RemovedAddress] = NothingCached

\* The history knows every committed contract.
CommittedIsPast ==
    \A c \in Contracts :
        committed[c].contract # NoContract => committed[c].contract \in past[c]

\* No contract that was not committed is served outside its transaction, for the
\* reasons that make it so: the inductive invariant of ContractCacheProofs
\* (DataContractCache, CommitTransaction).
CacheInv == TypeOK /\ NoDirtyRead /\ NothingUnderRemoved /\ CommittedIsPast

\* A read outside any transaction gets the contract that is committed, unless
\* the contract was changed while the global cache had it: by a block, whose
\* changes do not reach that cache, or by apply_contract.  An update outside a
\* transaction, a restart or an eviction ends the doubt (DataContractCache::get,
\* update_contract_cbor, CommitTransaction).
QueriesReadCommitted ==
    \A c \in InGlobal \ doubt.query : cache.global[c].contract = committed[c].contract

\* Inside its transaction a block reads from the cache what it would read from
\* storage, its own updates included, unless what the block's cache or the global
\* cache has of the contract is in doubt; after_finalize_block ends the doubts of
\* the first (DataContractCache::get, AbortTransaction, after_finalize_block).
BlockReadsCurrent ==
    open # 0 =>
        \A c \in Contracts \ Doubted(TRUE) :
            CacheGet(c, TRUE) # NoEntry =>
                CacheGet(c, TRUE).contract = pending[c].contract

\* Documents that are committed stay, whoever writes: no later change of their
\* contract empties the tree of a document type, unless the original of an update
\* came from an entry in doubt, or apply_contract inserted the contract again
\* (update_contract_operations replaces the trees of the types it takes for new).
DocumentsSurvive ==
    [][\A c \in Contracts \ doubt'.stored, t \in DocTypes :
          committed[c].trees[t] = "full" => committed'[c].trees[t] = "full"]_vars

\* Every document type of a committed contract has its tree, or no document of
\* that type could ever be stored, with the same exceptions
\* (insert_contract_operations, "the empty trees which will be necessary to later
\* insert documents").
TypesHaveTrees ==
    \A c \in Contracts \ doubt.stored :
        committed[c].contract # NoContract =>
            \A t \in committed[c].contract.types :
                committed[c].trees[t] # "none"

=============================================================================
