------------------------ MODULE ContractCacheProofs ------------------------
(***************************************************************************)
(* What the contract cache guarantees in every run: its types, and that no *)
(* uncommitted contract is served outside the transaction that wrote it;   *)
(* and what queries and blocks read, and what updates keep, except where   *)
(* the history doubt says that the cache was passed by.                    *)
(***************************************************************************)
EXTENDS ContractCache, TLAPS

Caches == [global : Cached, transactional : [Addresses -> Cached]]

\* What a step that leaves the global cache alone, or adds to it contracts of
\* the history only, has to respect.
CleanCache(ca, history) ==
    /\ ca \in Caches
    /\ ca.transactional[RemovedAddress] = NothingCached
    /\ \A c \in Contracts :
          ca.global[c] # NoEntry => ca.global[c].contract \in history[c]

-----------------------------------------------------------------------------

\* Inserting an entry keeps a cache clean if, outside a transaction, the
\* contract is one of the history (DataContractCache::insert).
LEMMA CacheInsertClean ==
    ASSUME NEW ca, NEW history, CleanCache(ca, history),
           NEW c \in Contracts, NEW entry \in Entry, NEW tx \in BOOLEAN,
           ~ tx => entry.contract \in history[c]
    PROVE  CleanCache(CacheInsert(ca, c, entry, tx), history)
<1>1. CASE tx
  BY <1>1 DEF CleanCache, CacheInsert, Caches, Cached, Addresses, SlotAddress,
              RemovedAddress, LocalAddress
<1>2. CASE ~ tx
  BY <1>2 DEF CleanCache, CacheInsert, Caches, Cached
<1> QED BY <1>1, <1>2

\* A cache that is clean for a history is clean for a longer one.
LEMMA CleanMonotone ==
    ASSUME NEW ca, NEW history, NEW longer, CleanCache(ca, history),
           \A c \in Contracts : history[c] \subseteq longer[c]
    PROVE  CleanCache(ca, longer)
BY DEF CleanCache

\* Clearing the caches of transactions keeps the cache clean.
LEMMA CacheClearClean ==
    ASSUME NEW ca, NEW history, CleanCache(ca, history), NEW address \in Addresses
    PROVE  /\ CleanCache(CacheClear(ca, address), history)
           /\ CleanCache(CacheClearAll(ca), history)
BY DEF CleanCache, CacheClear, CacheClearAll, Caches, Cached, NothingCached,
       Addresses, RemovedAddress

\* The merge at commit takes nothing from under the address of the removed
\* transaction (merge_transactional_cache).
LEMMA CacheMergeClean ==
    ASSUME NEW ca, NEW history, CleanCache(ca, history)
    PROVE  CleanCache(CacheMerge(ca, RemovedAddress), history)
<1>1. CacheMerge(ca, RemovedAddress).global = ca.global
  BY DEF CleanCache, CacheMerge, Caches, Cached, NothingCached
<1>2. CacheMerge(ca, RemovedAddress) = ca
  BY <1>1 DEF CleanCache, CacheMerge, Caches
<1> QED BY <1>2

\* The same two facts about the invariant, in the form the steps use.
LEMMA InvIsClean == CacheInv <=> /\ TypeOK
                                 /\ CommittedIsPast
                                 /\ CleanCache(cache, past)
BY DEF CacheInv, TypeOK, NoDirtyRead, NothingUnderRemoved, CleanCache, Caches

\* What a get answers and leaves (get_contract_with_fetch_info_and_add_to_
\* operations): a contract value, and a cache that is still clean.
LEMMA GetClean ==
    ASSUME CacheInv, NEW c \in Contracts, NEW epoch \in BOOLEAN,
           NEW tx \in BOOLEAN
    PROVE  /\ GotContract(c, tx) \in Bodies \cup {NoContract}
           /\ CleanCache(CacheAfterGet(c, epoch, tx), past)
<1> DEFINE hit == CacheGet(c, tx)
<1>1. CleanCache(cache, past) /\ TypeOK /\ CommittedIsPast
  BY InvIsClean
<1>2. hit \in Entry \cup {NoEntry}
  BY <1>1 DEF CacheGet, CleanCache, Caches, Cached, Addresses
<1>3. View(tx) \in Database
  BY <1>1 DEF View, TypeOK
<1>4. View(tx)[c].contract \in Bodies \cup {NoContract}
  BY <1>3 DEF Database
<1>5. GotContract(c, tx) \in Bodies \cup {NoContract}
  BY <1>2, <1>4 DEF GotContract, Entry
<1>6. CASE hit # NoEntry
  <2>1. ~ tx => hit.contract \in past[c]
    BY <1>6, <1>1 DEF CacheGet, CleanCache
  <2>2. [hit EXCEPT !.fee = TRUE] \in Entry
    BY <1>2, <1>6 DEF Entry
  <2>3. [hit EXCEPT !.fee = TRUE].contract = hit.contract
    BY <1>2, <1>6 DEF Entry
  <2>4. CleanCache(CacheInsert(cache, c, [hit EXCEPT !.fee = TRUE], tx), past)
    BY <1>1, <2>1, <2>2, <2>3, CacheInsertClean
  <2> QED BY <1>5, <1>6, <1>1, <2>4 DEF CacheAfterGet
<1>7. CASE hit = NoEntry /\ Fetchable(View(tx), c)
  <2> DEFINE entry == [contract |-> View(tx)[c].contract, fee |-> epoch]
  <2>1. View(tx)[c].contract \in Bodies
    BY <1>4, <1>7 DEF Fetchable
  <2>2. entry \in Entry
    BY <2>1 DEF Entry
  <2>3. ~ tx => entry.contract \in past[c]
    BY <1>1, <1>7 DEF View, CommittedIsPast, Fetchable
  <2>4. CleanCache(CacheInsert(cache, c, entry, tx), past)
    <3> HIDE DEF entry
    <3> QED BY <1>1, <2>2, <2>3, CacheInsertClean
  <2> QED BY <1>5, <1>7, <2>4 DEF CacheAfterGet
<1>8. CASE hit = NoEntry /\ ~ Fetchable(View(tx), c)
  BY <1>5, <1>8, <1>1 DEF CacheAfterGet
<1> QED BY <1>6, <1>7, <1>8

\* Databases stay databases under the three writes.
LEMMA WritesAreDatabases ==
    ASSUME NEW db \in Database, NEW c \in Contracts, NEW new \in Bodies,
           NEW original
    PROVE  /\ WithInserted(db, c, new) \in Database
           /\ WithUpdated(db, c, new, original) \in Database
           /\ \A t \in DocTypes : [db EXCEPT ![c].trees[t] = "full"] \in Database
<1>1. WithInserted(db, c, new) \in Database
  BY DEF WithInserted, Database, Tree
<1>2. WithUpdated(db, c, new, original) \in Database
  BY DEF WithUpdated, Database, Tree
<1>3. \A t \in DocTypes : [db EXCEPT ![c].trees[t] = "full"] \in Database
  BY DEF Database, Tree
<1> QED BY <1>1, <1>2, <1>3

\* A write in a transaction or outside of it keeps the databases, and the
\* history goes on to know every committed contract.
LEMMA WrittenKeeps ==
    ASSUME CacheInv, NEW db \in Database, NEW tx \in BOOLEAN, Written(db, tx)
    PROVE  /\ committed' \in Database /\ pending' \in Database
           /\ past' \in [Contracts -> SUBSET Bodies]
           /\ CommittedIsPast'
           /\ \A c \in Contracts : past[c] \subseteq past'[c]
           /\ ~ tx => \A c \in Contracts :
                         db[c].contract # NoContract => db[c].contract \in past'[c]
<1>1. TypeOK /\ CommittedIsPast BY DEF CacheInv
<1>2. CASE tx
  BY <1>1, <1>2 DEF Written, TypeOK, CommittedIsPast
<1>3. CASE ~ tx
  <2>1. \A c \in Contracts : db[c].contract \in Bodies \cup {NoContract}
    BY DEF Database
  <2>2. /\ committed' = db /\ pending' = db
        /\ past' = [c \in Contracts |->
                      past[c] \cup ({db[c].contract} \ {NoContract})]
    BY <1>3 DEF Written, Committing
  <2> QED BY <1>1, <1>3, <2>1, <2>2 DEF TypeOK, CommittedIsPast
<1> QED BY <1>2, <1>3

\* A callback changes no transaction, so that its databases, its history and
\* its cache decide the invariant.
LEMMA CallbackKeeps ==
    ASSUME CacheInv, UNCHANGED Transactions,
           committed' \in Database, pending' \in Database,
           past' \in [Contracts -> SUBSET Bodies], CommittedIsPast',
           CleanCache(cache', past'), doubt' \in Doubts
    PROVE  CacheInv'
<1>1. TypeOK BY DEF CacheInv
<1>2. TypeOK'
  BY <1>1 DEF TypeOK, Transactions, CleanCache, Caches
<1> QED BY <1>2 DEF CacheInv, NoDirtyRead, NothingUnderRemoved, CleanCache

\* The histories stay sets of contracts.
LEMMA DoubtsAreTyped ==
    ASSUME TypeOK, NEW c \in Contracts, NEW apply \in BOOLEAN, NEW tx \in BOOLEAN
    PROVE  /\ DoubtAfterGet(c, tx) \in Doubts
           /\ DoubtAfterWrite(c, tx) \in Doubts
           /\ DoubtAfterUpdate(c, apply, tx) \in Doubts
           /\ \A more \in SUBSET Contracts :
                 [DoubtAfterWrite(c, tx) EXCEPT !.stored = @ \cup more] \in Doubts
<1>1. /\ doubt \in Doubts /\ Doubted(tx) \in SUBSET Contracts
      /\ InBlock \in SUBSET Contracts /\ InGlobal \in SUBSET Contracts
  BY DEF TypeOK, Doubts, Doubted, InBlock, InGlobal
<1>2. DoubtAfterGet(c, tx) \in Doubts
  BY <1>1 DEF DoubtAfterGet, Doubts
<1>3. DoubtAfterWrite(c, tx) \in Doubts
  BY <1>1 DEF DoubtAfterWrite, Doubts
<1>4. DoubtAfterUpdate(c, apply, tx) \in Doubts
  BY <1>1 DEF DoubtAfterUpdate, Doubts
<1>5. \A more \in SUBSET Contracts :
        [DoubtAfterWrite(c, tx) EXCEPT !.stored = @ \cup more] \in Doubts
  <2> DEFINE d == DoubtAfterWrite(c, tx)
  <2>1. d \in Doubts BY <1>3
  <2> HIDE DEF d
  <2>2. \A more \in SUBSET Contracts : [d EXCEPT !.stored = @ \cup more] \in Doubts
    BY <2>1 DEF Doubts
  <2> QED BY <2>2 DEF d
<1> QED BY <1>2, <1>3, <1>4, <1>5

-----------------------------------------------------------------------------

\* Every message about transactions keeps the invariant.
LEMMA TransactionStepsKeep ==
    ASSUME CacheInv,
           \/ StartTransaction \/ CommitTransaction \/ AbortTransaction
           \/ \E h \in 1..MaxTransactions : Finalize(h)
           \/ AfterFinalizeBlock \/ Restart
           \/ \E c \in Contracts : EvictGlobal(c) \/ EvictTransactional(c)
    PROVE  CacheInv'
<1>1. TypeOK /\ CommittedIsPast /\ CleanCache(cache, past)
  BY InvIsClean
<1>2. MaxTransactions \in Nat BY BoundAssumption
<1> SUFFICES TypeOK' /\ CommittedIsPast' /\ CleanCache(cache', past')
  BY DEF CacheInv, NoDirtyRead, NothingUnderRemoved, CleanCache
<1>3. CASE StartTransaction
  <2>1. TypeOK'
    BY <1>1, <1>2, <1>3 DEF StartTransaction, TypeOK
  <2> QED BY <1>1, <1>3, <2>1 DEF StartTransaction, CommittedIsPast
<1>4. CASE CommitTransaction
  <2>1. CASE open # 0
    <3>1. /\ cache' = CacheClear(CacheMerge(cache, RemovedAddress), RemovedAddress)
          /\ committed' = pending
          /\ past' = [c \in Contracts |->
                        past[c] \cup ({pending[c].contract} \ {NoContract})]
          /\ open' = 0 /\ held' = 0 /\ finalizing' = TRUE
          /\ UNCHANGED <<pending, started, handles>>
          /\ doubt' \in Doubts
      BY <1>1, <1>4, <2>1 DEF CommitTransaction, Committing, TypeOK, Doubts, InGlobal
    <3>2. \A c \in Contracts : pending[c].contract \in Bodies \cup {NoContract}
      BY <1>1 DEF TypeOK, Database
    <3>3. past' \in [Contracts -> SUBSET Bodies] /\ CommittedIsPast'
      BY <1>1, <3>1, <3>2 DEF TypeOK, CommittedIsPast
    <3>4. CleanCache(cache', past)
      BY <1>1, <3>1, CacheMergeClean, CacheClearClean DEF Addresses
    <3>5. CleanCache(cache', past')
      <4>1. \A c \in Contracts : past[c] \subseteq past'[c] BY <3>1
      <4> QED BY <3>4, <4>1, CleanMonotone
    <3>6. TypeOK'
      BY <1>1, <3>1, <3>3, <3>5 DEF TypeOK, CleanCache, Caches
    <3> QED BY <3>3, <3>5, <3>6
  <2>2. CASE open = 0
    BY <1>1, <1>4, <2>2 DEF CommitTransaction, TypeOK, CommittedIsPast
  <2> QED BY <2>1, <2>2
<1>5. ASSUME Dropped, UNCHANGED <<committed, started, finalizing, past>>,
             held' \in {0, held}, handles' \subseteq handles
      PROVE  TypeOK' /\ CommittedIsPast' /\ CleanCache(cache', past')
  <2>1. CleanCache(CacheClear(cache, RemovedAddress), past)
    BY <1>1, CacheClearClean DEF Addresses
  <2>2. CleanCache(cache', past')
    BY <1>1, <1>5, <2>1 DEF Dropped
  <2>3. doubt' \in Doubts
    BY <1>1, <1>5 DEF TypeOK, Dropped, Doubts, InBlock
  <2>4. TypeOK'
    BY <1>1, <1>5, <2>2, <2>3 DEF TypeOK, Dropped, CleanCache, Caches
  <2> QED BY <1>1, <1>5, <2>2, <2>4 DEF CommittedIsPast
<1>6. CASE AbortTransaction
  BY <1>5, <1>6 DEF AbortTransaction
<1>7. CASE \E h \in 1..MaxTransactions : Finalize(h)
  BY <1>5, <1>7 DEF Finalize
<1>8. CASE AfterFinalizeBlock
  <2>1. CleanCache(cache', past')
    BY <1>1, <1>8, CacheClearClean DEF AfterFinalizeBlock, Addresses
  <2>2. doubt' \in Doubts
    BY <1>1, <1>8 DEF AfterFinalizeBlock, TypeOK, Doubts
  <2>3. TypeOK'
    BY <1>1, <1>8, <2>1, <2>2 DEF AfterFinalizeBlock, TypeOK, CleanCache, Caches
  <2> QED BY <1>1, <1>8, <2>1, <2>3 DEF AfterFinalizeBlock, CommittedIsPast
<1>9. CASE Restart
  <2>1. CleanCache(cache', past')
    BY <1>9 DEF Restart, CleanCache, EmptyCache, NothingCached, Caches, Cached,
                Addresses, RemovedAddress
  <2>2. doubt' \in Doubts
    BY <1>1, <1>9 DEF Restart, TypeOK, Doubts
  <2>3. TypeOK'
    BY <1>1, <1>9, <2>1, <2>2 DEF Restart, TypeOK, CleanCache, Caches
  <2> QED BY <1>1, <1>9, <2>1, <2>3 DEF Restart, CommittedIsPast
<1>10. CASE \E c \in Contracts : EvictGlobal(c) \/ EvictTransactional(c)
  <2>1. PICK c \in Contracts : EvictGlobal(c) \/ EvictTransactional(c)
    BY <1>10
  <2>2. UNCHANGED <<committed, pending, open, started, held, handles,
                    finalizing, past>>
    BY <2>1 DEF EvictGlobal, EvictTransactional
  <2>3. EvictGlobal(c) => CleanCache(cache', past')
    BY <1>1, <2>2 DEF EvictGlobal, CleanCache, Caches, Cached
  <2>4. EvictTransactional(c) => CleanCache(cache', past')
    BY <1>1, <2>2 DEF EvictTransactional, CleanCache, Caches, Cached,
       Addresses, SlotAddress, RemovedAddress, LocalAddress
  <2>5. CleanCache(cache', past')
    BY <2>1, <2>3, <2>4
  <2>6. doubt' \in Doubts
    BY <1>1, <2>1 DEF EvictGlobal, EvictTransactional, TypeOK, Doubts
  <2>7. TypeOK'
    BY <1>1, <2>2, <2>5, <2>6 DEF TypeOK, CleanCache, Caches
  <2> QED BY <1>1, <2>2, <2>5, <2>7 DEF CommittedIsPast
<1> QED BY <1>3, <1>4, <1>6, <1>7, <1>8, <1>9, <1>10

\* Every callback keeps the invariant.
LEMMA CallbacksKeep ==
    ASSUME CacheInv, Callback
    PROVE  CacheInv'
<1>1. TypeOK /\ CommittedIsPast /\ CleanCache(cache, past)
  BY InvIsClean
<1>2. PICK c \in Contracts, tx \in BOOLEAN :
        \/ \E epoch \in BOOLEAN : FetchContract(c, epoch, tx)
        \/ \E new \in Bodies : CreateContract(c, new, tx)
        \/ \E new \in Bodies, apply \in BOOLEAN : UpdateContract(c, new, apply, tx)
        \/ \E new \in Bodies : ApplyContract(c, new, tx)
        \/ \E t \in DocTypes : CreateDocument(c, t, tx)
  BY DEF Callback
<1>3. View(tx) \in Database BY <1>1 DEF View, TypeOK
<1>4. committed \in Database /\ pending \in Database
      /\ past \in [Contracts -> SUBSET Bodies]
  BY <1>1 DEF TypeOK
<1>5. ASSUME UNCHANGED <<committed, pending, past>>, UNCHANGED Transactions,
             CleanCache(cache', past), doubt' \in Doubts
      PROVE  CacheInv'
  <2>1. CommittedIsPast' BY <1>1, <1>5 DEF CommittedIsPast
  <2> QED BY <1>4, <1>5, <2>1, CallbackKeeps
<1>6. ASSUME NEW db \in Database, Written(db, tx), UNCHANGED Transactions,
             CleanCache(cache', past'), doubt' \in Doubts
      PROVE  CacheInv'
  <2>1. /\ committed' \in Database /\ pending' \in Database
        /\ past' \in [Contracts -> SUBSET Bodies] /\ CommittedIsPast'
    BY <1>6, WrittenKeeps
  <2> QED BY <1>6, <2>1, CallbackKeeps
<1>7. ASSUME NEW db \in Database, Written(db, tx), UNCHANGED Transactions,
             CleanCache(cache', past), doubt' \in Doubts
      PROVE  CacheInv'
  <2>1. \A d \in Contracts : past[d] \subseteq past'[d] BY <1>7, WrittenKeeps
  <2>2. CleanCache(cache', past') BY <1>7, <2>1, CleanMonotone
  <2> QED BY <1>6, <1>7, <2>2
<1>8. ASSUME NEW epoch \in BOOLEAN, FetchContract(c, epoch, tx) PROVE CacheInv'
  <2>1. CleanCache(CacheAfterGet(c, epoch, tx), past) BY GetClean
  <2>2. doubt' \in Doubts
    BY <1>1, <1>8, DoubtsAreTyped DEF FetchContract
  <2> QED BY <1>5, <1>8, <2>1, <2>2 DEF FetchContract
<1>9. ASSUME NEW new \in Bodies, CreateContract(c, new, tx) PROVE CacheInv'
  <2>1. WithInserted(View(tx), c, new) \in Database
    BY <1>3, WritesAreDatabases
  <2>2. doubt' \in Doubts
    BY <1>1, <1>9, DoubtsAreTyped DEF CreateContract
  <2> QED BY <1>1, <1>7, <1>9, <2>1, <2>2 DEF CreateContract
<1>10. ASSUME NEW new \in Bodies, NEW apply \in BOOLEAN,
              UpdateContract(c, new, apply, tx)
       PROVE  CacheInv'
  <2> DEFINE original == GotContract(c, tx)
             db == IF apply THEN WithUpdated(View(tx), c, new, original)
                            ELSE View(tx)
             allowed == /\ UpdateAllowed(new, original)
                        /\ PathsExist(View(tx), c, new, original)
             got == CacheAfterGet(c, TRUE, tx)
             entry == [contract |-> db[c].contract, fee |-> TRUE]
  <2>1. CleanCache(got, past) BY GetClean
  <2>2. db \in Database BY <1>3, WritesAreDatabases
  <2>3. /\ DoubtAfterGet(c, tx) \in Doubts
        /\ DoubtAfterUpdate(c, apply, tx) \in Doubts
    BY <1>1, DoubtsAreTyped
  <2>4. CASE allowed
    <3>1. /\ Written(db, tx) /\ cache' = CacheAfterUpdate(got, db, c, tx)
          /\ UNCHANGED Transactions /\ doubt' \in Doubts
      BY <1>10, <2>4, <2>3 DEF UpdateContract
    <3>2. db[c].contract \in Bodies
      <4>1. db[c].contract # NoContract
        BY <2>4, <1>3, NoContractAssumption
           DEF PathsExist, WithUpdated, Database
      <4> QED BY <2>2, <4>1 DEF Database
    <3>3. entry \in Entry BY <3>2 DEF Entry
    <3>4. /\ \A d \in Contracts : past[d] \subseteq past'[d]
          /\ ~ tx => db[c].contract \in past'[c]
      <4> HIDE DEF db
      <4>1. db[c].contract # NoContract BY <3>2, NoContractAssumption
      <4> QED BY <3>1, <2>2, <4>1, WrittenKeeps
    <3>5. CleanCache(got, past')
      <4> HIDE DEF got
      <4> QED BY <2>1, <3>4, CleanMonotone
    <3>6. ~ tx => entry.contract \in past'[c]
      BY <3>4
    <3>7. CleanCache(CacheInsert(got, c, entry, tx), past')
      <4> HIDE DEF got, entry
      <4> QED BY <3>3, <3>5, <3>6, CacheInsertClean
    <3>8. CleanCache(cache', past')
      BY <3>1, <3>7 DEF CacheAfterUpdate
    <3> HIDE DEF db
    <3> QED BY <1>6, <2>2, <3>1, <3>8
  <2>5. CASE ~ allowed
    <3>1. /\ cache' = got
          /\ UNCHANGED <<committed, pending, past>> /\ UNCHANGED Transactions
          /\ doubt' \in Doubts
      BY <1>10, <2>5, <2>3 DEF UpdateContract
    <3> QED BY <1>5, <2>1, <3>1
  <2> QED BY <2>4, <2>5
<1>11. ASSUME NEW new \in Bodies, ApplyContract(c, new, tx) PROVE CacheInv'
  <2>1. /\ WithInserted(View(tx), c, new) \in Database
        /\ WithUpdated(View(tx), c, new, View(tx)[c].contract) \in Database
    BY <1>3, WritesAreDatabases
  <2>2. doubt' \in Doubts
    <3> DEFINE over == {d \in {c} : View(tx)[c].contract # NoContract}
    <3>1. over \in SUBSET Contracts OBVIOUS
    <3>2. /\ DoubtAfterWrite(c, tx) \in Doubts
          /\ [DoubtAfterWrite(c, tx) EXCEPT !.stored = @ \cup over] \in Doubts
      <4> HIDE DEF over
      <4> TRUE \in BOOLEAN OBVIOUS
      <4> QED BY <1>1, <3>1, DoubtsAreTyped
    <3> QED BY <1>11, <3>2 DEF ApplyContract
  <2> QED BY <1>1, <1>7, <1>11, <2>1, <2>2 DEF ApplyContract
<1>12. ASSUME NEW t \in DocTypes, CreateDocument(c, t, tx) PROVE CacheInv'
  <2>1. CleanCache(CacheAfterGet(c, TRUE, tx), past) BY GetClean
  <2>2. [View(tx) EXCEPT ![c].trees[t] = "full"] \in Database
    <3>1. View(tx)[c].trees \in [DocTypes -> Tree] BY <1>3 DEF Database
    <3> QED BY <1>3, <3>1 DEF Database, Tree
  <2>3. doubt' \in Doubts
    BY <1>1, <1>12, DoubtsAreTyped DEF CreateDocument
  <2> QED BY <1>5, <1>7, <1>12, <2>1, <2>2, <2>3 DEF CreateDocument
<1> QED BY <1>2, <1>8, <1>9, <1>10, <1>11, <1>12

-----------------------------------------------------------------------------

\* The invariant holds in every reachable state, for any set of contracts,
\* document types and clients.
THEOREM CacheInvariant == Spec => []CacheInv
<1>1. Init => CacheInv
  <2> SUFFICES ASSUME Init PROVE CacheInv
    OBVIOUS
  <2>1. EmptyDatabase \in Database
    BY DEF EmptyDatabase, Database, Tree
  <2>2. EmptyCache \in Caches /\ EmptyCache.global = NothingCached
        /\ EmptyCache.transactional[RemovedAddress] = NothingCached
    BY DEF EmptyCache, Caches, Cached, NothingCached, Addresses
  <2>3. TypeOK
    <3>1. /\ committed \in Database /\ pending \in Database
          /\ cache \in Caches
          /\ past \in [Contracts -> SUBSET Bodies]
      BY <2>1, <2>2 DEF Init
    <3>2. /\ started \in 0..MaxTransactions /\ open \in {0, started}
          /\ held \in {0, started} /\ handles \subseteq 1..started
      <4>1. started = 0 /\ open = 0 /\ held = 0 /\ handles = {} BY DEF Init
      <4> QED BY <4>1, BoundAssumption
    <3>3. finalizing \in BOOLEAN /\ doubt \in Doubts BY DEF Init, NoDoubt, Doubts
    <3> QED BY <3>1, <3>2, <3>3 DEF TypeOK, Caches
  <2>4. NoDirtyRead
    BY <2>2 DEF Init, NoDirtyRead, NothingCached
  <2>5. NothingUnderRemoved
    BY <2>2 DEF Init, NothingUnderRemoved
  <2>6. CommittedIsPast
    BY DEF Init, CommittedIsPast, EmptyDatabase
  <2> QED BY <2>3, <2>4, <2>5, <2>6 DEF CacheInv
<1>2. CacheInv /\ [Next]_vars => CacheInv'
  <2>1. ASSUME CacheInv, Next PROVE CacheInv'
    BY <2>1, TransactionStepsKeep, CallbacksKeep DEF Next
  <2>2. ASSUME CacheInv, UNCHANGED vars PROVE CacheInv'
    BY <2>2 DEF vars, CacheInv, TypeOK, NoDirtyRead, NothingUnderRemoved,
                CommittedIsPast
  <2> QED BY <2>1, <2>2
<1> QED BY <1>1, <1>2, PTL DEF Spec

\* Types of the cache, the transactions and the handles.
THEOREM CacheTypeCorrect == Spec => []TypeOK
BY CacheInvariant, PTL DEF CacheInv

\* The global cache never serves a contract that was not committed before, with
\* aborted blocks, restarts, evictions and collected handles at any point.
THEOREM NoDirtyReads == Spec => []NoDirtyRead
BY CacheInvariant, PTL DEF CacheInv

-----------------------------------------------------------------------------
(* What the cache has and what the storage has of a contract that is not   *)
(* in doubt, over every order of messages, callbacks and evictions.        *)

\* The contracts of c: a cached one is the one its readers would find, a
\* contract that the block changed is in the block's cache or was new, and no
\* block removes a contract.
Agrees(c) ==
    /\ committed[c].contract # NoContract => pending[c].contract # NoContract
    /\ c \in InGlobal => committed[c].contract # NoContract
    /\ c \in InGlobal \ doubt.query =>
          cache.global[c].contract = committed[c].contract
    /\ c \in InBlock \ doubt.block =>
          cache.transactional[SlotAddress][c].contract = pending[c].contract
    /\ c \in Changed \ (InBlock \cup doubt.block) =>
          committed[c].contract = NoContract

\* The types of the stored contract, and they alone, have their trees.
TreesMatch(db, c) ==
    \A t \in DocTypes :
        db[c].trees[t] # "none" <=>
            db[c].contract # NoContract /\ t \in db[c].contract.types

\* Full trees of the first database are full in the second.
KeepsDocuments(old, new, c) ==
    \A t \in DocTypes : old[c].trees[t] = "full" => new[c].trees[t] = "full"

\* The trees of c.
Founded(c) ==
    /\ TreesMatch(committed, c)
    /\ TreesMatch(pending, c)
    /\ KeepsDocuments(committed, pending, c)

\* The inductive invariant.
DoubtInv ==
    /\ open = 0 => pending = committed
    /\ finalizing => open = 0
    /\ \A c \in Contracts : Agrees(c)
    /\ \A c \in Contracts \ doubt.stored : Founded(c)

\* No step takes documents of a contract that is not in doubt.
DocumentsKept ==
    \A c \in Contracts \ doubt'.stored : KeepsDocuments(committed, committed', c)

\* What the three writes do to the contract they write, and that they leave the
\* other contracts alone.
LEMMA WriteShapes ==
    ASSUME NEW db \in Database, NEW c \in Contracts, NEW new \in Bodies,
           NEW original, NEW t \in DocTypes
    PROVE  /\ WithInserted(db, c, new)[c].contract = new
           /\ \A u \in DocTypes :
                 WithInserted(db, c, new)[c].trees[u] =
                     IF u \in new.types THEN "empty" ELSE "none"
           /\ WithUpdated(db, c, new, original)[c].contract = new
           /\ \A u \in DocTypes :
                 WithUpdated(db, c, new, original)[c].trees[u] =
                     IF u \in new.types \ original.types
                     THEN "empty" ELSE db[c].trees[u]
           /\ [db EXCEPT ![c].trees[t] = "full"][c].contract = db[c].contract
           /\ \A u \in DocTypes :
                 [db EXCEPT ![c].trees[t] = "full"][c].trees[u] =
                     IF u = t THEN "full" ELSE db[c].trees[u]
           /\ \A d \in Contracts \ {c} :
                 /\ WithInserted(db, c, new)[d] = db[d]
                 /\ WithUpdated(db, c, new, original)[d] = db[d]
                 /\ [db EXCEPT ![c].trees[t] = "full"][d] = db[d]
BY DEF WithInserted, WithUpdated, Database

\* An update that keeps the document types gives every new type its tree and
\* touches no other (update_contract_operations).
LEMMA UpdateKeepsTrees ==
    ASSUME NEW db \in Database, NEW c \in Contracts, TreesMatch(db, c),
           NEW new \in Bodies, db[c].contract # NoContract,
           db[c].contract.types \subseteq new.types
    PROVE  /\ TreesMatch(WithUpdated(db, c, new, db[c].contract), c)
           /\ KeepsDocuments(db, WithUpdated(db, c, new, db[c].contract), c)
<1> DEFINE after == WithUpdated(db, c, new, db[c].contract)
<1>1. /\ after[c].contract = new
      /\ \A t \in DocTypes :
            after[c].trees[t] = IF t \in new.types \ db[c].contract.types
                                THEN "empty" ELSE db[c].trees[t]
  BY DEF WithUpdated, Database
<1>2. new # NoContract BY NoContractAssumption
<1> HIDE DEF after
<1>3. TreesMatch(after, c) BY <1>1, <1>2 DEF TreesMatch
<1>4. KeepsDocuments(db, after, c) BY <1>1 DEF TreesMatch, KeepsDocuments
<1> QED BY <1>3, <1>4 DEF after

\* A new contract gets the trees of its types, and no document was there.
LEMMA InsertKeepsTrees ==
    ASSUME NEW db \in Database, NEW c \in Contracts, TreesMatch(db, c),
           NEW new \in Bodies, db[c].contract = NoContract
    PROVE  /\ TreesMatch(WithInserted(db, c, new), c)
           /\ KeepsDocuments(db, WithInserted(db, c, new), c)
<1> DEFINE after == WithInserted(db, c, new)
<1>1. /\ after[c].contract = new
      /\ \A t \in DocTypes :
            after[c].trees[t] = IF t \in new.types THEN "empty" ELSE "none"
  BY DEF WithInserted, Database
<1>2. new # NoContract BY NoContractAssumption
<1> HIDE DEF after
<1>3. TreesMatch(after, c) BY <1>1, <1>2 DEF TreesMatch
<1>4. KeepsDocuments(db, after, c) BY <1>1 DEF TreesMatch, KeepsDocuments
<1> QED BY <1>3, <1>4 DEF after

\* A write keeps the trees in order, and documents, if it does so for the
\* contract it writes, or puts it in doubt.
LEMMA WriteKeepsFounded ==
    ASSUME DoubtInv, NEW db, NEW tx \in BOOLEAN, Written(db, tx),
           ~ tx => open = 0, doubt.stored \subseteq doubt'.stored,
           NEW c \in Contracts, \A d \in Contracts \ {c} : db[d] = View(tx)[d],
           c \notin doubt'.stored =>
               TreesMatch(db, c) /\ KeepsDocuments(View(tx), db, c)
    PROVE  /\ \A d \in Contracts \ doubt'.stored : Founded(d)'
           /\ DocumentsKept
<1>1. SUFFICES ASSUME NEW d \in Contracts \ doubt'.stored
               PROVE  Founded(d)' /\ KeepsDocuments(committed, committed', d)
  BY DEF DocumentsKept
<1>2. Founded(d) BY <1>1 DEF DoubtInv
<1>3. TreesMatch(View(tx), d) BY <1>2 DEF Founded, View
<1>4. TreesMatch(db, d) /\ KeepsDocuments(View(tx), db, d)
  <2>1. CASE d = c BY <1>1, <2>1
  <2>2. CASE d # c
    <3>1. db[d] = View(tx)[d] BY <2>2
    <3> QED BY <1>3, <3>1 DEF TreesMatch, KeepsDocuments
  <2> QED BY <2>1, <2>2
<1>5. CASE tx
  <2>1. committed' = committed /\ pending' = db /\ View(tx) = pending
    BY <1>5 DEF Written, View
  <2> QED BY <1>2, <1>4, <2>1 DEF Founded, TreesMatch, KeepsDocuments
<1>6. CASE ~ tx
  <2>1. committed' = db /\ pending' = db /\ View(tx) = committed
    BY <1>6 DEF Written, Committing, View
  <2> QED BY <1>4, <2>1 DEF Founded, TreesMatch, KeepsDocuments
<1> QED BY <1>5, <1>6

\* A step that leaves the databases and the third kind of doubt alone.
LEMMA NothingWrittenKeepsFounded ==
    ASSUME DoubtInv, UNCHANGED <<committed, pending>>, doubt'.stored = doubt.stored
    PROVE  /\ \A d \in Contracts \ doubt'.stored : Founded(d)'
           /\ DocumentsKept
BY DEF DoubtInv, Founded, TreesMatch, KeepsDocuments, DocumentsKept

-----------------------------------------------------------------------------

\* Where there is no doubt, what a read answers is what the storage has
\* (DataContractCache::get, get_contract_with_fetch_info_and_add_to_operations).
LEMMA GotCurrent ==
    ASSUME DoubtInv, NEW c \in Contracts, NEW tx \in BOOLEAN, c \notin Doubted(tx)
    PROVE  /\ CacheGet(c, tx) # NoEntry =>
                 CacheGet(c, tx).contract = View(tx)[c].contract
           /\ GotContract(c, tx) # NoContract =>
                 GotContract(c, tx) = View(tx)[c].contract
<1>1. Agrees(c) BY DEF DoubtInv
<1>2. CacheGet(c, tx) # NoEntry => CacheGet(c, tx).contract = View(tx)[c].contract
  <2>1. CASE ~ tx
    BY <1>1, <2>1 DEF CacheGet, View, Doubted, Agrees, InGlobal
  <2>2. CASE tx /\ c \in InBlock
    BY <1>1, <2>2 DEF CacheGet, View, Doubted, Agrees, InBlock
  <2>3. CASE tx /\ c \notin InBlock /\ c \in InGlobal
    <3>1. c \notin doubt.block /\ c \notin doubt.query
      BY <2>3 DEF Doubted
    <3>2. cache.global[c].contract = committed[c].contract
      BY <1>1, <2>3, <3>1 DEF Agrees
    <3>3. c \notin Changed
      BY <1>1, <2>3, <3>1 DEF Agrees
    <3>4. pending[c].contract = committed[c].contract
      BY <3>3 DEF Changed
    <3> QED BY <2>3, <3>2, <3>4 DEF CacheGet, View, InBlock
  <2>4. CASE tx /\ c \notin InBlock /\ c \notin InGlobal
    BY <2>4 DEF CacheGet, InBlock, InGlobal
  <2> QED BY <2>1, <2>2, <2>3, <2>4
<1> QED BY <1>2 DEF GotContract

\* What a read leaves in the cache: at most a new entry for the contract read,
\* with the contract it answered.
LEMMA GetShape ==
    ASSUME CacheInv, NEW c \in Contracts, NEW epoch \in BOOLEAN, NEW tx \in BOOLEAN
    PROVE  LET ca == CacheAfterGet(c, epoch, tx)
           IN  /\ ca \in Caches
               /\ \A d \in Contracts \ {c} :
                     /\ ca.global[d] = cache.global[d]
                     /\ ca.transactional[SlotAddress][d] =
                           cache.transactional[SlotAddress][d]
               /\ IF tx
                  THEN /\ ca.global = cache.global
                       /\ \/ ca.transactional[SlotAddress][c] =
                                cache.transactional[SlotAddress][c]
                          \/ /\ ca.transactional[SlotAddress][c] \in Entry
                             /\ ca.transactional[SlotAddress][c].contract =
                                   GotContract(c, tx)
                             /\ GotContract(c, tx) # NoContract
                  ELSE /\ ca.transactional = cache.transactional
                       /\ \/ ca.global[c] = cache.global[c]
                          \/ /\ ca.global[c] \in Entry
                             /\ ca.global[c].contract = GotContract(c, tx)
                             /\ GotContract(c, tx) # NoContract
<1> DEFINE hit == CacheGet(c, tx)
           known == [hit EXCEPT !.fee = TRUE]
           fetched == [contract |-> View(tx)[c].contract, fee |-> epoch]
<1>1. TypeOK /\ cache \in Caches BY DEF CacheInv, TypeOK, Caches
<1>2. hit \in Entry \cup {NoEntry}
  BY <1>1 DEF CacheGet, Caches, Cached, Addresses
<1>3. View(tx)[c].contract \in Bodies \cup {NoContract}
  BY <1>1 DEF TypeOK, View, Database
<1>4. ASSUME NEW entry \in Entry, entry.contract = GotContract(c, tx)
      PROVE  LET ca == CacheInsert(cache, c, entry, tx)
             IN  /\ ca \in Caches
                 /\ \A d \in Contracts \ {c} :
                       /\ ca.global[d] = cache.global[d]
                       /\ ca.transactional[SlotAddress][d] =
                             cache.transactional[SlotAddress][d]
                 /\ IF tx
                    THEN /\ ca.global = cache.global
                         /\ ca.transactional[SlotAddress][c] = entry
                    ELSE /\ ca.transactional = cache.transactional
                         /\ ca.global[c] = entry
  <2>1. CASE tx
    BY <1>1, <2>1 DEF CacheInsert, Caches, Cached, Addresses
  <2>2. CASE ~ tx
    BY <1>1, <2>2 DEF CacheInsert, Caches, Cached
  <2> QED BY <2>1, <2>2
<1>5. CASE hit # NoEntry
  <2>1. known \in Entry /\ known.contract = hit.contract
    BY <1>2, <1>5 DEF Entry
  <2>2. GotContract(c, tx) = hit.contract BY <1>5 DEF GotContract
  <2>3. GotContract(c, tx) # NoContract
    BY <1>2, <1>5, <2>2, NoContractAssumption DEF Entry
  <2>4. CacheAfterGet(c, epoch, tx) \in {cache, CacheInsert(cache, c, known, tx)}
    BY <1>5 DEF CacheAfterGet
  <2> HIDE DEF hit, known
  <2> QED BY <1>1, <1>4, <2>1, <2>2, <2>3, <2>4
<1>6. CASE hit = NoEntry /\ Fetchable(View(tx), c)
  <2>1. fetched \in Entry BY <1>3, <1>6 DEF Entry, Fetchable
  <2>2. GotContract(c, tx) = fetched.contract /\ GotContract(c, tx) # NoContract
    BY <1>6 DEF GotContract, Fetchable
  <2>3. CacheAfterGet(c, epoch, tx) = CacheInsert(cache, c, fetched, tx)
    BY <1>6 DEF CacheAfterGet
  <2> HIDE DEF hit, fetched
  <2> QED BY <1>4, <2>1, <2>2, <2>3
<1>7. CASE hit = NoEntry /\ ~ Fetchable(View(tx), c)
  <2>1. CacheAfterGet(c, epoch, tx) = cache BY <1>7 DEF CacheAfterGet
  <2> QED BY <1>1, <2>1
<1> QED BY <1>5, <1>6, <1>7

\* A step after which a contract has the entries, the values and the doubts it
\* had before, or more doubts, keeps what is said of it.
LEMMA SameAgrees ==
    ASSUME NEW d \in Contracts, Agrees(d),
           cache'.global[d] = cache.global[d],
           cache'.transactional[SlotAddress][d] = cache.transactional[SlotAddress][d],
           committed'[d].contract = committed[d].contract,
           pending'[d].contract = pending[d].contract,
           d \in doubt.query => d \in doubt'.query,
           d \in doubt.block => d \in doubt'.block
    PROVE  Agrees(d)'
BY DEF Agrees, InGlobal, InBlock, Changed

\* A contract that is read outside a transaction is committed.
LEMMA GotExists ==
    ASSUME DoubtInv, NEW c \in Contracts, GotContract(c, FALSE) # NoContract
    PROVE  committed[c].contract # NoContract
<1>1. Agrees(c) BY DEF DoubtInv
<1>2. CASE cache.global[c] # NoEntry
  BY <1>1, <1>2 DEF Agrees, InGlobal
<1>3. CASE cache.global[c] = NoEntry
  BY <1>3 DEF GotContract, CacheGet, View, Fetchable
<1> QED BY <1>2, <1>3

\* A read keeps the cache in agreement with the storage: what it takes from an
\* entry in doubt is in doubt (CacheAfterGet).
LEMMA GetAgrees ==
    ASSUME CacheInv, DoubtInv, NEW c \in Contracts, NEW epoch \in BOOLEAN,
           NEW tx \in BOOLEAN, cache' = CacheAfterGet(c, epoch, tx),
           doubt' = DoubtAfterGet(c, tx),
           \A d \in Contracts : /\ committed'[d].contract = committed[d].contract
                                /\ pending'[d].contract = pending[d].contract
    PROVE  \A d \in Contracts : Agrees(d)'
<1>1. doubt \in Doubts BY DEF CacheInv, TypeOK
<1>2. /\ doubt'.query = doubt.query
      /\ doubt'.block = IF tx THEN doubt.block \cup ({c} \cap Doubted(tx))
                              ELSE doubt.block
  BY <1>1 DEF DoubtAfterGet, Doubts
<1>3. \A d \in Contracts \ {c} :
        /\ cache'.global[d] = cache.global[d]
        /\ cache'.transactional[SlotAddress][d] = cache.transactional[SlotAddress][d]
  BY GetShape
<1>4. \A d \in Contracts : Agrees(d) BY DEF DoubtInv
<1>5. ASSUME NEW d \in Contracts, d # c PROVE Agrees(d)'
  BY <1>2, <1>3, <1>4, <1>5, SameAgrees
<1>6. CASE /\ cache'.global[c] = cache.global[c]
           /\ cache'.transactional[SlotAddress][c] =
                 cache.transactional[SlotAddress][c]
  <2>1. Agrees(c)' BY <1>2, <1>4, <1>6, SameAgrees
  <2> QED BY <1>5, <2>1
<1>7. CASE /\ tx
           /\ cache'.global = cache.global
           /\ cache'.transactional[SlotAddress][c] \in Entry
           /\ cache'.transactional[SlotAddress][c].contract = GotContract(c, tx)
           /\ GotContract(c, tx) # NoContract
  <2>1. cache'.transactional[SlotAddress][c] # NoEntry
    BY <1>7, NoEntryAssumption DEF Entry
  <2>2. c \notin doubt'.block => GotContract(c, tx) = pending[c].contract
    <3>1. c \notin doubt'.block => c \notin Doubted(tx) BY <1>2, <1>7
    <3> QED BY <1>7, <3>1, GotCurrent DEF View
  <2>3. Agrees(c)'
    BY <1>2, <1>4, <1>7, <2>1, <2>2 DEF Agrees, InGlobal, InBlock, Changed
  <2> QED BY <1>5, <2>3
<1>8. CASE /\ ~ tx
           /\ cache'.transactional = cache.transactional
           /\ cache'.global[c] \in Entry
           /\ cache'.global[c].contract = GotContract(c, tx)
           /\ GotContract(c, tx) # NoContract
  <2>1. tx = FALSE BY <1>8
  <2>2. c \notin doubt'.query => GotContract(c, tx) = committed[c].contract
    <3>1. c \notin doubt'.query => c \notin Doubted(tx) BY <1>2, <1>8 DEF Doubted
    <3> QED BY <1>8, <3>1, GotCurrent DEF View
  <2>3. committed[c].contract # NoContract
    BY <1>8, <2>1, GotExists
  <2>4. Agrees(c)'
    BY <1>2, <1>4, <1>8, <2>2, <2>3 DEF Agrees, InGlobal, InBlock, Changed
  <2> QED BY <1>5, <2>4
<1>9. \/ /\ cache'.global[c] = cache.global[c]
         /\ cache'.transactional[SlotAddress][c] = cache.transactional[SlotAddress][c]
      \/ /\ tx
         /\ cache'.global = cache.global
         /\ cache'.transactional[SlotAddress][c] \in Entry
         /\ cache'.transactional[SlotAddress][c].contract = GotContract(c, tx)
         /\ GotContract(c, tx) # NoContract
      \/ /\ ~ tx
         /\ cache'.transactional = cache.transactional
         /\ cache'.global[c] \in Entry
         /\ cache'.global[c].contract = GotContract(c, tx)
         /\ GotContract(c, tx) # NoContract
  BY GetShape
<1> QED BY <1>6, <1>7, <1>8, <1>9

\* A write that passes the cache by leaves it in agreement with the storage, for
\* what it has of the contract is in doubt (DoubtAfterWrite).
LEMMA WriteAgrees ==
    ASSUME CacheInv, DoubtInv, NEW c \in Contracts, NEW tx \in BOOLEAN,
           NEW db, ~ tx => open = 0, Written(db, tx), cache' = cache,
           \A d \in Contracts \ {c} : db[d] = View(tx)[d],
           db[c].contract # NoContract,
           doubt'.query = DoubtAfterWrite(c, tx).query,
           doubt'.block = DoubtAfterWrite(c, tx).block
    PROVE  \A d \in Contracts : Agrees(d)'
<1>1. doubt \in Doubts BY DEF CacheInv, TypeOK
<1>2. \A d \in Contracts : Agrees(d) BY DEF DoubtInv
<1>3. CASE tx
  <2>1. /\ doubt'.query = doubt.query
        /\ doubt'.block = doubt.block
             \cup {d \in {c} : committed[d].contract # NoContract}
             \cup ({c} \cap InBlock)
    BY <1>1, <1>3 DEF DoubtAfterWrite, Doubts
  <2>2. committed' = committed /\ pending' = db /\ View(tx) = pending
    BY <1>3 DEF Written, View
  <2>3. ASSUME NEW d \in Contracts, d # c PROVE Agrees(d)'
    <3>1. db[d] = pending[d] BY <2>2, <2>3
    <3> QED BY <1>2, <2>1, <2>2, <3>1, SameAgrees
  <2>4. Agrees(c)'
    BY <1>2, <2>1, <2>2 DEF Agrees, InGlobal, InBlock, Changed
  <2> QED BY <2>3, <2>4
<1>4. CASE ~ tx
  <2>1. /\ doubt'.query = doubt.query \cup ({c} \cap InGlobal)
        /\ doubt'.block = doubt.block \cup ({c} \cap InBlock)
    BY <1>1, <1>4 DEF DoubtAfterWrite, Doubts
  <2>2. committed' = db /\ pending' = db /\ View(tx) = committed
        /\ pending = committed
    BY <1>4 DEF Written, Committing, View, DoubtInv
  <2>3. ASSUME NEW d \in Contracts, d # c PROVE Agrees(d)'
    <3>1. db[d] = committed[d] BY <2>2, <2>3
    <3> QED BY <1>2, <2>1, <2>2, <3>1, SameAgrees
  <2>4. Agrees(c)'
    BY <1>2, <2>1, <2>2 DEF Agrees, InGlobal, InBlock, Changed
  <2> QED BY <2>3, <2>4
<1> QED BY <1>3, <1>4

\* An update refreshes the cache of its reader (CacheAfterUpdate).
LEMMA UpdateAgrees ==
    ASSUME CacheInv, DoubtInv, NEW c \in Contracts, NEW apply \in BOOLEAN,
           NEW tx \in BOOLEAN, NEW db, ~ tx => open = 0, Written(db, tx),
           cache' = CacheAfterUpdate(CacheAfterGet(c, TRUE, tx), db, c, tx),
           \A d \in Contracts \ {c} : db[d] = View(tx)[d],
           db[c].contract \in Bodies,
           doubt' = DoubtAfterUpdate(c, apply, tx)
    PROVE  \A d \in Contracts : Agrees(d)'
<1> DEFINE got == CacheAfterGet(c, TRUE, tx)
           entry == [contract |-> db[c].contract, fee |-> TRUE]
<1>1. doubt \in Doubts BY DEF CacheInv, TypeOK
<1>2. \A d \in Contracts : Agrees(d) BY DEF DoubtInv
<1>3. /\ got \in Caches
      /\ \A d \in Contracts \ {c} :
            /\ got.global[d] = cache.global[d]
            /\ got.transactional[SlotAddress][d] = cache.transactional[SlotAddress][d]
      /\ IF tx THEN got.global = cache.global
               ELSE got.transactional = cache.transactional
  <2>1. TRUE \in BOOLEAN OBVIOUS
  <2> QED BY <2>1, GetShape
<1>4. entry \in Entry /\ entry.contract = db[c].contract BY DEF Entry
<1>5. entry # NoEntry BY <1>4, NoEntryAssumption DEF Entry
<1>6. db[c].contract # NoContract BY NoContractAssumption
<1>7. cache' = CacheInsert(got, c, entry, tx) BY DEF CacheAfterUpdate
<1> HIDE DEF got, entry
<1>8. IF tx
      THEN /\ cache'.global = got.global
           /\ cache'.transactional[SlotAddress] =
                 [got.transactional[SlotAddress] EXCEPT ![c] = entry]
      ELSE /\ cache'.transactional = got.transactional
           /\ cache'.global = [got.global EXCEPT ![c] = entry]
  <2>1. SlotAddress \in Addresses BY DEF Addresses
  <2>2. CASE tx
    <3>1. cache' = [got EXCEPT !.transactional[SlotAddress][c] = entry]
      BY <1>7, <2>2 DEF CacheInsert
    <3> QED BY <1>3, <2>1, <2>2, <3>1 DEF Caches
  <2>3. CASE ~ tx
    <3>1. cache' = [got EXCEPT !.global[c] = entry]
      BY <1>7, <2>3 DEF CacheInsert
    <3> QED BY <1>3, <2>3, <3>1 DEF Caches
  <2> QED BY <2>2, <2>3
<1>9. /\ got.global \in Cached
      /\ got.transactional[SlotAddress] \in Cached
  BY <1>3 DEF Caches, Addresses
<1>10. \A d \in Contracts \ {c} :
        /\ cache'.global[d] = cache.global[d]
        /\ cache'.transactional[SlotAddress][d] = cache.transactional[SlotAddress][d]
  BY <1>3, <1>8, <1>9 DEF Cached
<1>11. CASE tx
  <2>1. /\ cache'.global = cache.global
        /\ cache'.transactional[SlotAddress][c] = entry
    BY <1>3, <1>8, <1>9, <1>11 DEF Cached
  <2>2. doubt'.query = doubt.query /\ doubt'.block = doubt.block \ {c}
    BY <1>1, <1>11 DEF DoubtAfterUpdate, Doubts
  <2>3. committed' = committed /\ pending' = db /\ View(tx) = pending
    BY <1>11 DEF Written, View
  <2>4. ASSUME NEW d \in Contracts, d # c PROVE Agrees(d)'
    <3>1. db[d] = pending[d] BY <2>3, <2>4
    <3>2. d \in doubt.block => d \in doubt'.block BY <2>2, <2>4
    <3>3. /\ cache'.global[d] = cache.global[d]
          /\ cache'.transactional[SlotAddress][d] = cache.transactional[SlotAddress][d]
      BY <1>10, <2>4
    <3> QED BY <1>2, <2>2, <2>3, <3>1, <3>2, <3>3, SameAgrees
  <2>5. Agrees(c)'
    BY <1>2, <1>4, <1>5, <1>6, <2>1, <2>2, <2>3
       DEF Agrees, InGlobal, InBlock, Changed
  <2> QED BY <2>4, <2>5
<1>12. CASE ~ tx
  <2>1. /\ cache'.transactional = cache.transactional
        /\ cache'.global[c] = entry
    BY <1>3, <1>8, <1>9, <1>12 DEF Cached
  <2>2. /\ doubt'.query = doubt.query \ {c}
        /\ doubt'.block = doubt.block \cup ({c} \cap InBlock)
    BY <1>1, <1>12 DEF DoubtAfterUpdate, Doubts
  <2>3. committed' = db /\ pending' = db /\ View(tx) = committed
        /\ pending = committed
    BY <1>12 DEF Written, Committing, View, DoubtInv
  <2>4. ASSUME NEW d \in Contracts, d # c PROVE Agrees(d)'
    <3>1. db[d] = committed[d] BY <2>3, <2>4
    <3>2. d \in doubt.query => d \in doubt'.query BY <2>2, <2>4
    <3>3. /\ cache'.global[d] = cache.global[d]
          /\ cache'.transactional[SlotAddress][d] = cache.transactional[SlotAddress][d]
      BY <1>10, <2>4
    <3> QED BY <1>2, <2>2, <2>3, <3>1, <3>2, <3>3, SameAgrees
  <2>5. Agrees(c)'
    BY <1>2, <1>4, <1>5, <1>6, <2>1, <2>2, <2>3
       DEF Agrees, InGlobal, InBlock, Changed
  <2> QED BY <2>4, <2>5
<1> QED BY <1>11, <1>12

-----------------------------------------------------------------------------

\* Every message about transactions, a restart and the evictions keep the
\* invariant and the documents.
LEMMA TransactionStepsKeepDoubtInv ==
    ASSUME CacheInv, DoubtInv,
           \/ StartTransaction \/ CommitTransaction \/ AbortTransaction
           \/ \E h \in 1..MaxTransactions : Finalize(h)
           \/ AfterFinalizeBlock \/ Restart
           \/ \E c \in Contracts : EvictGlobal(c) \/ EvictTransactional(c)
    PROVE  DoubtInv' /\ DocumentsKept
<1>1. /\ doubt \in Doubts /\ cache \in Caches
      /\ cache.transactional[RemovedAddress] = NothingCached
  BY DEF CacheInv, TypeOK, Caches, NothingUnderRemoved
<1>2. \A d \in Contracts : Agrees(d) BY DEF DoubtInv
<1>3. \A d \in Contracts \ doubt.stored : Founded(d) BY DEF DoubtInv
<1>4. CASE StartTransaction
  <2>1. /\ pending = committed /\ UNCHANGED <<committed, pending, cache, doubt>>
        /\ ~ finalizing' /\ open' # 0
    BY <1>4 DEF StartTransaction, DoubtInv, CacheInv, TypeOK
  <2>2. \A d \in Contracts : Agrees(d)'
    BY <1>2, <2>1, SameAgrees
  <2> QED BY <2>1, <2>2, NothingWrittenKeepsFounded DEF DoubtInv
<1>5. CASE CommitTransaction /\ open # 0
  <2>1. /\ cache' = CacheClear(CacheMerge(cache, RemovedAddress), RemovedAddress)
        /\ committed' = pending /\ pending' = pending /\ open' = 0
        /\ doubt' = [doubt EXCEPT !.query = @ \cup (Changed \cap InGlobal)]
    BY <1>5 DEF CommitTransaction, Committing
  <2>2. /\ doubt'.query = doubt.query \cup (Changed \cap InGlobal)
        /\ doubt'.block = doubt.block /\ doubt'.stored = doubt.stored
    BY <1>1, <2>1 DEF Doubts
  <2>3. /\ cache'.global = cache.global
        /\ cache'.transactional[SlotAddress] = cache.transactional[SlotAddress]
    <3>1. CacheMerge(cache, RemovedAddress).global = cache.global
      BY <1>1 DEF CacheMerge, Caches, Cached, NothingCached
    <3>2. CacheMerge(cache, RemovedAddress) = cache
      BY <1>1, <3>1 DEF CacheMerge, Caches
    <3> QED BY <1>1, <2>1, <3>2 DEF CacheClear, Caches, Addresses, SlotAddress,
                                    RemovedAddress, LocalAddress
  <2>4. ASSUME NEW d \in Contracts PROVE Agrees(d)'
    BY <1>2, <2>1, <2>2, <2>3 DEF Agrees, InGlobal, InBlock, Changed
  <2>5. ASSUME NEW d \in Contracts \ doubt'.stored
        PROVE  Founded(d)' /\ KeepsDocuments(committed, committed', d)
    BY <1>3, <2>1, <2>2, <2>5 DEF Founded, TreesMatch, KeepsDocuments
  <2> QED BY <2>1, <2>4, <2>5 DEF DoubtInv, DocumentsKept
<1>6. CASE CommitTransaction /\ open = 0
  <2>1. UNCHANGED <<committed, pending, cache, doubt, open, finalizing>>
    BY <1>6 DEF CommitTransaction
  <2>2. \A d \in Contracts : Agrees(d)'
    BY <1>2, <2>1, SameAgrees
  <2> QED BY <2>1, <2>2, NothingWrittenKeepsFounded DEF DoubtInv
<1>7. ASSUME Dropped, UNCHANGED <<committed, finalizing>>
      PROVE  DoubtInv' /\ DocumentsKept
  <2>1. /\ cache' = IF open # 0 THEN CacheClear(cache, RemovedAddress) ELSE cache
        /\ committed' = committed /\ pending' = committed /\ open' = 0
        /\ doubt' = [doubt EXCEPT !.block = @ \cup (Changed \cap InBlock)]
    BY <1>7 DEF Dropped
  <2>2. /\ doubt'.block = doubt.block \cup (Changed \cap InBlock)
        /\ doubt'.query = doubt.query /\ doubt'.stored = doubt.stored
    BY <1>1, <2>1 DEF Doubts
  <2>3. /\ cache'.global = cache.global
        /\ cache'.transactional[SlotAddress] = cache.transactional[SlotAddress]
    BY <1>1, <2>1 DEF CacheClear, Caches, Addresses, SlotAddress,
                      RemovedAddress, LocalAddress
  <2>4. ASSUME NEW d \in Contracts PROVE Agrees(d)'
    BY <1>2, <2>1, <2>2, <2>3 DEF Agrees, InGlobal, InBlock, Changed
  <2>5. ASSUME NEW d \in Contracts \ doubt'.stored
        PROVE  Founded(d)' /\ KeepsDocuments(committed, committed', d)
    BY <1>3, <2>1, <2>2, <2>5 DEF Founded, TreesMatch, KeepsDocuments
  <2> QED BY <2>1, <2>4, <2>5 DEF DoubtInv, DocumentsKept
<1>8. CASE AbortTransaction
  BY <1>7, <1>8 DEF AbortTransaction
<1>9. CASE \E h \in 1..MaxTransactions : Finalize(h)
  BY <1>7, <1>9 DEF Finalize
<1>10. CASE AfterFinalizeBlock
  <2>1. /\ cache' = CacheClearAll(cache) /\ pending = committed
        /\ UNCHANGED <<committed, pending, open>> /\ ~ finalizing'
        /\ doubt' = [doubt EXCEPT !.block = {}]
    BY <1>10 DEF AfterFinalizeBlock, DoubtInv
  <2>2. /\ doubt'.block = {} /\ doubt'.query = doubt.query
        /\ doubt'.stored = doubt.stored
    BY <1>1, <2>1 DEF Doubts
  <2>3. /\ cache'.global = cache.global
        /\ cache'.transactional[SlotAddress] = NothingCached
    BY <1>1, <2>1 DEF CacheClearAll, Caches, Addresses
  <2>4. ASSUME NEW d \in Contracts PROVE Agrees(d)'
    BY <1>2, <2>1, <2>2, <2>3
       DEF Agrees, InGlobal, InBlock, Changed, NothingCached
  <2> QED BY <2>1, <2>2, <2>4, NothingWrittenKeepsFounded DEF DoubtInv
<1>11. CASE Restart
  <2>1. /\ cache' = EmptyCache /\ committed' = committed /\ pending' = committed
        /\ open' = 0
        /\ doubt'.stored = doubt.stored
    BY <1>1, <1>11 DEF Restart, Doubts
  <2>2. /\ cache'.global = NothingCached
        /\ cache'.transactional[SlotAddress] = NothingCached
    BY <2>1 DEF EmptyCache, Addresses
  <2>3. ASSUME NEW d \in Contracts PROVE Agrees(d)'
    BY <1>2, <2>1, <2>2 DEF Agrees, InGlobal, InBlock, Changed, NothingCached
  <2>4. ASSUME NEW d \in Contracts \ doubt'.stored
        PROVE  Founded(d)' /\ KeepsDocuments(committed, committed', d)
    BY <1>3, <2>1, <2>4 DEF Founded, TreesMatch, KeepsDocuments
  <2> QED BY <2>1, <2>3, <2>4 DEF DoubtInv, DocumentsKept
<1>12. ASSUME NEW c \in Contracts, EvictGlobal(c) PROVE DoubtInv' /\ DocumentsKept
  <2>1. /\ cache' = [cache EXCEPT !.global[c] = NoEntry]
        /\ doubt' = [doubt EXCEPT !.query = @ \ {c}]
        /\ UNCHANGED <<committed, pending, open, finalizing>>
    BY <1>12 DEF EvictGlobal
  <2>2. /\ doubt'.query = doubt.query \ {c} /\ doubt'.block = doubt.block
        /\ doubt'.stored = doubt.stored
    BY <1>1, <2>1 DEF Doubts
  <2>3. /\ cache'.transactional = cache.transactional
        /\ \A d \in Contracts :
              cache'.global[d] = IF d = c THEN NoEntry ELSE cache.global[d]
    BY <1>1, <2>1 DEF Caches, Cached
  <2>4. ASSUME NEW d \in Contracts PROVE Agrees(d)'
    BY <1>2, <2>1, <2>2, <2>3 DEF Agrees, InGlobal, InBlock, Changed
  <2> QED BY <2>1, <2>2, <2>4, NothingWrittenKeepsFounded DEF DoubtInv
<1>13. ASSUME NEW c \in Contracts, EvictTransactional(c)
       PROVE  DoubtInv' /\ DocumentsKept
  <2>1. /\ cache' = [cache EXCEPT !.transactional[SlotAddress][c] = NoEntry]
        /\ doubt' = [doubt EXCEPT !.block = (@ \ {c}) \cup ({c} \cap Changed)]
        /\ UNCHANGED <<committed, pending, open, finalizing>>
    BY <1>13 DEF EvictTransactional
  <2>2. /\ doubt'.block = (doubt.block \ {c}) \cup ({c} \cap Changed)
        /\ doubt'.query = doubt.query /\ doubt'.stored = doubt.stored
    BY <1>1, <2>1 DEF Doubts
  <2>3. /\ cache'.global = cache.global
        /\ \A d \in Contracts :
              cache'.transactional[SlotAddress][d] =
                  IF d = c THEN NoEntry ELSE cache.transactional[SlotAddress][d]
    <3>1. SlotAddress \in Addresses BY DEF Addresses
    <3>2. cache.transactional[SlotAddress] \in Cached BY <1>1, <3>1 DEF Caches
    <3>3. /\ cache'.global = cache.global
          /\ cache'.transactional[SlotAddress] =
                [cache.transactional[SlotAddress] EXCEPT ![c] = NoEntry]
      BY <1>1, <2>1, <3>1 DEF Caches
    <3> QED BY <3>2, <3>3 DEF Cached
  <2>4. ASSUME NEW d \in Contracts PROVE Agrees(d)'
    BY <1>2, <2>1, <2>2, <2>3 DEF Agrees, InGlobal, InBlock, Changed
  <2> QED BY <2>1, <2>2, <2>4, NothingWrittenKeepsFounded DEF DoubtInv
<1> QED BY <1>4, <1>5, <1>6, <1>8, <1>9, <1>10, <1>11, <1>12, <1>13

\* A callback leaves the transactions alone, so that what it does to one contract
\* decides the invariant.
LEMMA CallbackKeepsDoubtInv ==
    ASSUME DoubtInv, NEW tx \in BOOLEAN, UNCHANGED Transactions,
           \/ UNCHANGED <<committed, pending>>
           \/ \E db : Written(db, tx) /\ (tx => open # 0),
           \A d \in Contracts : Agrees(d)',
           \A d \in Contracts \ doubt'.stored : Founded(d)'
    PROVE  DoubtInv'
<1>1. open' = open /\ finalizing' = finalizing BY DEF Transactions
<1>2. open = 0 => pending' = committed'
  BY DEF DoubtInv, Written, Committing
<1> QED BY <1>1, <1>2 DEF DoubtInv

\* Every callback keeps the invariant and the documents.
LEMMA CallbacksKeepDoubtInv ==
    ASSUME CacheInv, DoubtInv, Callback
    PROVE  DoubtInv' /\ DocumentsKept
<1>1. /\ committed \in Database /\ pending \in Database /\ doubt \in Doubts
  BY DEF CacheInv, TypeOK
<1>2. PICK c \in Contracts, tx \in BOOLEAN :
        \/ \E epoch \in BOOLEAN : FetchContract(c, epoch, tx)
        \/ \E new \in Bodies : CreateContract(c, new, tx)
        \/ \E new \in Bodies, apply \in BOOLEAN : UpdateContract(c, new, apply, tx)
        \/ \E new \in Bodies : ApplyContract(c, new, tx)
        \/ \E t \in DocTypes : CreateDocument(c, t, tx)
  BY DEF Callback
<1>3. View(tx) \in Database BY <1>1 DEF View
<1>4. \A d \in Contracts \ doubt.stored : TreesMatch(View(tx), d)
  BY DEF DoubtInv, Founded, View
<1>5. DoubtAfterGet(c, tx).stored = doubt.stored
  BY <1>1 DEF DoubtAfterGet, Doubts
<1>6. DoubtAfterWrite(c, tx).stored = doubt.stored
  BY <1>1 DEF DoubtAfterWrite, Doubts
<1>7. ASSUME NEW epoch \in BOOLEAN, UNCHANGED <<committed, pending>>,
             UNCHANGED Transactions, cache' = CacheAfterGet(c, epoch, tx),
             doubt' = DoubtAfterGet(c, tx)
      PROVE  DoubtInv' /\ DocumentsKept
  <2>1. \A d \in Contracts : Agrees(d)' BY <1>7, GetAgrees
  <2>2. /\ \A d \in Contracts \ doubt'.stored : Founded(d)'
        /\ DocumentsKept
    BY <1>5, <1>7, NothingWrittenKeepsFounded
  <2> QED BY <1>7, <2>1, <2>2, CallbackKeepsDoubtInv
<1>8. ASSUME NEW epoch \in BOOLEAN, FetchContract(c, epoch, tx)
      PROVE  DoubtInv' /\ DocumentsKept
  BY <1>7, <1>8 DEF FetchContract
<1>9. ASSUME NEW new \in Bodies, CreateContract(c, new, tx)
      PROVE  DoubtInv' /\ DocumentsKept
  <2> DEFINE db == WithInserted(View(tx), c, new)
  <2>1. /\ CacheGet(c, tx) = NoEntry /\ View(tx)[c].contract = NoContract
        /\ Written(db, tx) /\ cache' = cache
        /\ doubt' = DoubtAfterWrite(c, tx) /\ UNCHANGED Transactions
        /\ tx => open # 0
        /\ ~ tx => open = 0
    BY <1>9 DEF CreateContract, CanWrite
  <2>2. /\ db[c].contract # NoContract
        /\ \A d \in Contracts \ {c} : db[d] = View(tx)[d]
    BY <1>3, NoContractAssumption DEF WithInserted, Database
  <2>3. c \notin doubt'.stored => TreesMatch(db, c) /\ KeepsDocuments(View(tx), db, c)
    BY <1>3, <1>4, <1>6, <2>1, InsertKeepsTrees
  <2> HIDE DEF db
  <2>4. \A d \in Contracts : Agrees(d)'
    BY <2>1, <2>2, WriteAgrees
  <2>5. /\ \A d \in Contracts \ doubt'.stored : Founded(d)'
        /\ DocumentsKept
    BY <1>6, <2>1, <2>2, <2>3, WriteKeepsFounded
  <2> QED BY <2>1, <2>4, <2>5, CallbackKeepsDoubtInv
<1>10. ASSUME NEW new \in Bodies, NEW apply \in BOOLEAN,
              UpdateContract(c, new, apply, tx)
       PROVE  DoubtInv' /\ DocumentsKept
  <2> DEFINE original == GotContract(c, tx)
             updated == WithUpdated(View(tx), c, new, original)
             db == IF apply THEN updated ELSE View(tx)
             allowed == /\ UpdateAllowed(new, original)
                        /\ PathsExist(View(tx), c, new, original)
  <2>1. CASE ~ allowed
    <3>1. /\ cache' = CacheAfterGet(c, TRUE, tx) /\ doubt' = DoubtAfterGet(c, tx)
          /\ UNCHANGED <<committed, pending>> /\ UNCHANGED Transactions
      BY <1>10, <2>1 DEF UpdateContract
    <3> QED BY <1>7, <3>1
  <2>2. CASE allowed
    <3>1. /\ Written(db, tx)
          /\ cache' = CacheAfterUpdate(CacheAfterGet(c, TRUE, tx), db, c, tx)
          /\ doubt' = DoubtAfterUpdate(c, apply, tx)
          /\ UNCHANGED Transactions
          /\ tx => open # 0
          /\ ~ tx => open = 0
          /\ original # NoContract /\ original.types \subseteq new.types
      BY <1>10, <2>2 DEF UpdateContract, ValidUpdate, CanWrite
    <3>2. View(tx)[c].contract \in Bodies
      BY <1>3, <2>2 DEF PathsExist, Database
    <3>3. /\ updated[c].contract = new
          /\ \A d \in Contracts \ {c} : updated[d] = View(tx)[d]
      BY <1>3 DEF WithUpdated, Database
    <3>4. /\ db[c].contract \in Bodies
          /\ \A d \in Contracts \ {c} : db[d] = View(tx)[d]
      BY <3>2, <3>3
    <3>5. doubt'.stored = doubt.stored \cup ({d \in {c} : apply} \cap Doubted(tx))
      BY <1>1, <3>1 DEF DoubtAfterUpdate, Doubts
    <3>6. c \notin doubt'.stored =>
              TreesMatch(db, c) /\ KeepsDocuments(View(tx), db, c)
      <4>1. CASE apply /\ c \notin doubt'.stored
        <5>1. c \notin Doubted(tx) /\ c \notin doubt.stored BY <3>5, <4>1
        <5>2. original = View(tx)[c].contract BY <3>1, <5>1, GotCurrent
        <5>3. View(tx)[c].contract # NoContract
          BY <3>2, NoContractAssumption
        <5>4. TreesMatch(updated, c) /\ KeepsDocuments(View(tx), updated, c)
          BY <1>3, <1>4, <3>1, <5>1, <5>2, <5>3, UpdateKeepsTrees
        <5> QED BY <4>1, <5>4
      <4>2. CASE ~ apply
        BY <1>4, <3>5, <4>2 DEF KeepsDocuments
      <4> QED BY <4>1, <4>2
    <3> HIDE DEF db
    <3>7. \A d \in Contracts : Agrees(d)'
      BY <3>1, <3>4, UpdateAgrees
    <3>8. /\ \A d \in Contracts \ doubt'.stored : Founded(d)'
          /\ DocumentsKept
      BY <3>1, <3>4, <3>5, <3>6, WriteKeepsFounded
    <3> QED BY <3>1, <3>7, <3>8, CallbackKeepsDoubtInv
  <2> QED BY <2>1, <2>2
<1>11. ASSUME NEW new \in Bodies, ApplyContract(c, new, tx)
       PROVE  DoubtInv' /\ DocumentsKept
  <2> DEFINE stored == View(tx)[c].contract
             over == {d \in {c} : stored # NoContract}
             missed == DoubtAfterWrite(c, tx)
  <2>1. /\ cache' = cache /\ UNCHANGED Transactions
        /\ tx => open # 0
        /\ ~ tx => open = 0
        /\ stored # NoContract => stored.types \subseteq new.types
    BY <1>11 DEF ApplyContract, CanWrite
  <2>2. missed \in Doubts
    <3>1. /\ InBlock \in SUBSET Contracts /\ InGlobal \in SUBSET Contracts
      BY DEF InBlock, InGlobal
    <3> QED BY <1>1, <3>1 DEF DoubtAfterWrite, Doubts
  <2>3. ASSUME NEW db, Written(db, tx), db[c].contract = new,
               \A d \in Contracts \ {c} : db[d] = View(tx)[d],
               doubt'.query = missed.query, doubt'.block = missed.block,
               doubt.stored \subseteq doubt'.stored,
               c \notin doubt'.stored =>
                   TreesMatch(db, c) /\ KeepsDocuments(View(tx), db, c)
        PROVE  DoubtInv' /\ DocumentsKept
    <3>1. db[c].contract # NoContract BY <2>3, NoContractAssumption
    <3>2. \A d \in Contracts : Agrees(d)'
      BY <2>1, <2>3, <3>1, WriteAgrees
    <3>3. /\ \A d \in Contracts \ doubt'.stored : Founded(d)'
          /\ DocumentsKept
      BY <2>1, <2>3, WriteKeepsFounded
    <3> QED BY <2>1, <2>3, <3>2, <3>3, CallbackKeepsDoubtInv
  <2>4. CASE ~ Fetchable(View(tx), c)
    <3> DEFINE db == WithInserted(View(tx), c, new)
    <3>1. Written(db, tx) /\ doubt' = [missed EXCEPT !.stored = @ \cup over]
      BY <1>11, <2>4 DEF ApplyContract
    <3>2. /\ doubt'.query = missed.query /\ doubt'.block = missed.block
          /\ doubt'.stored = missed.stored \cup over
      <4> HIDE DEF missed, over
      <4> QED BY <2>2, <3>1 DEF Doubts
    <3>3. /\ db[c].contract = new
          /\ \A d \in Contracts \ {c} : db[d] = View(tx)[d]
      BY <1>3 DEF WithInserted, Database
    <3>4. c \notin doubt'.stored =>
              TreesMatch(db, c) /\ KeepsDocuments(View(tx), db, c)
      <4>1. c \notin doubt'.stored => stored = NoContract /\ c \notin doubt.stored
        BY <1>6, <3>2
      <4> QED BY <1>3, <1>4, <4>1, InsertKeepsTrees
    <3>5. doubt.stored \subseteq doubt'.stored BY <1>6, <3>2
    <3> HIDE DEF db, missed
    <3> QED BY <2>3, <3>1, <3>2, <3>3, <3>4, <3>5
  <2>5. CASE Fetchable(View(tx), c)
    <3> DEFINE db == WithUpdated(View(tx), c, new, stored)
    <3>1. Written(db, tx) /\ doubt' = missed
      BY <1>11, <2>5 DEF ApplyContract
    <3>2. doubt'.stored = doubt.stored BY <1>6, <3>1
    <3>3. /\ db[c].contract = new
          /\ \A d \in Contracts \ {c} : db[d] = View(tx)[d]
      BY <1>3 DEF WithUpdated, Database
    <3>4. c \notin doubt'.stored =>
              TreesMatch(db, c) /\ KeepsDocuments(View(tx), db, c)
      <4>1. stored # NoContract /\ stored.types \subseteq new.types
        BY <2>1, <2>5 DEF Fetchable
      <4> QED BY <1>3, <1>4, <3>2, <4>1, UpdateKeepsTrees
    <3> HIDE DEF db, missed
    <3> QED BY <2>3, <3>1, <3>2, <3>3, <3>4
  <2> QED BY <2>4, <2>5
<1>12. ASSUME NEW t \in DocTypes, CreateDocument(c, t, tx)
       PROVE  DoubtInv' /\ DocumentsKept
  <2> DEFINE db == [View(tx) EXCEPT ![c].trees[t] = "full"]
  <2>1. /\ cache' = CacheAfterGet(c, TRUE, tx) /\ doubt' = DoubtAfterGet(c, tx)
        /\ UNCHANGED Transactions
        /\ tx => open # 0
        /\ ~ tx => open = 0
    BY <1>12 DEF CreateDocument, CanWrite
  <2>2. CASE View(tx)[c].trees[t] = "none"
    <3>1. UNCHANGED <<committed, pending>>
      BY <1>12, <2>2 DEF CreateDocument
    <3> QED BY <1>7, <2>1, <3>1
  <2>3. CASE View(tx)[c].trees[t] # "none"
    <3>1. Written(db, tx)
      BY <1>12, <2>3 DEF CreateDocument
    <3>2. /\ \A d \in Contracts : db[d].contract = View(tx)[d].contract
          /\ \A d \in Contracts \ {c} : db[d] = View(tx)[d]
          /\ \A u \in DocTypes :
                db[c].trees[u] = IF u = t THEN "full" ELSE View(tx)[c].trees[u]
      BY <1>3 DEF Database
    <3> HIDE DEF db
    <3>3. /\ \A d \in Contracts : committed'[d].contract = committed[d].contract
          /\ \A d \in Contracts : pending'[d].contract = pending[d].contract
      <4>1. ~ tx => pending = committed BY <2>1 DEF DoubtInv
      <4> QED BY <3>1, <3>2, <4>1 DEF Written, Committing, View
    <3>4. \A d \in Contracts : Agrees(d)'
      <4> TRUE \in BOOLEAN OBVIOUS
      <4> QED BY <2>1, <3>3, GetAgrees
    <3>5. c \notin doubt'.stored =>
              TreesMatch(db, c) /\ KeepsDocuments(View(tx), db, c)
      BY <1>4, <1>5, <2>1, <2>3, <3>2 DEF TreesMatch, KeepsDocuments
    <3>6. /\ \A d \in Contracts \ doubt'.stored : Founded(d)'
          /\ DocumentsKept
      BY <1>5, <2>1, <3>1, <3>2, <3>5, WriteKeepsFounded
    <3> QED BY <2>1, <3>1, <3>4, <3>6, CallbackKeepsDoubtInv
  <2> QED BY <2>2, <2>3
<1> QED BY <1>2, <1>8, <1>9, <1>10, <1>11, <1>12

\* The invariant holds in every reachable state.
THEOREM DoubtInvariant == Spec => [](CacheInv /\ DoubtInv)
<1>1. Init => DoubtInv
  <2> SUFFICES ASSUME Init PROVE DoubtInv
    OBVIOUS
  <2>1. /\ pending = committed /\ ~ finalizing
        /\ cache.global = NothingCached
        /\ cache.transactional[SlotAddress] = NothingCached
    BY DEF Init, EmptyCache, Addresses
  <2>2. \A c \in Contracts : /\ committed[c].contract = NoContract
                             /\ \A t \in DocTypes : committed[c].trees[t] = "none"
    BY DEF Init, EmptyDatabase
  <2>3. \A c \in Contracts : Agrees(c)
    BY <2>1, <2>2 DEF Agrees, InGlobal, InBlock, Changed, NothingCached
  <2>4. \A c \in Contracts : Founded(c)
    BY <2>1, <2>2 DEF Founded, TreesMatch, KeepsDocuments
  <2> QED BY <2>1, <2>3, <2>4 DEF DoubtInv
<1>2. CacheInv /\ DoubtInv /\ [Next]_vars => DoubtInv'
  <2>1. ASSUME CacheInv, DoubtInv, Next PROVE DoubtInv'
    BY <2>1, TransactionStepsKeepDoubtInv, CallbacksKeepDoubtInv DEF Next
  <2>2. ASSUME DoubtInv, UNCHANGED vars PROVE DoubtInv'
    BY <2>2 DEF vars, DoubtInv, Agrees, Founded, TreesMatch, KeepsDocuments,
                InGlobal, InBlock, Changed
  <2> QED BY <2>1, <2>2
<1> QED BY <1>1, <1>2, CacheInvariant, PTL DEF Spec

\* A query gets the contract that is committed unless it was changed behind the
\* global cache, with blocks, direct writes, aborts, restarts and evictions in any
\* order (DataContractCache::get, CommitTransaction).
THEOREM QueriesAreCurrent == Spec => []QueriesReadCommitted
<1>1. DoubtInv => QueriesReadCommitted
  BY DEF DoubtInv, Agrees, QueriesReadCommitted, InGlobal
<1> QED BY <1>1, DoubtInvariant, PTL

\* A block reads from the cache what its transaction has, its own updates included,
\* unless the entry is in doubt: with queries beside it, aborted blocks before it
\* and apply_contract in it (DataContractCache::get, update_contract_cbor).
THEOREM BlocksReadCurrent == Spec => []BlockReadsCurrent
<1>1. DoubtInv => BlockReadsCurrent
  <2> SUFFICES ASSUME DoubtInv, NEW c \in Contracts \ Doubted(TRUE),
                      CacheGet(c, TRUE) # NoEntry
               PROVE  CacheGet(c, TRUE).contract = pending[c].contract
    BY DEF BlockReadsCurrent
  <2>1. TRUE \in BOOLEAN OBVIOUS
  <2> QED BY <2>1, GotCurrent DEF View
<1> QED BY <1>1, DoubtInvariant, PTL

\* Every document type of a committed contract has its tree, whoever wrote it,
\* unless an update went by an entry in doubt or apply_contract inserted the
\* contract again (insert_contract_operations, update_contract_operations).
THEOREM CommittedTypesHaveTrees == Spec => []TypesHaveTrees
<1>1. CacheInv /\ DoubtInv => TypesHaveTrees
  BY BodiesAssumption DEF CacheInv, TypeOK, Database, DoubtInv, Founded,
                          TreesMatch, TypesHaveTrees
<1> QED BY <1>1, DoubtInvariant, PTL

\* No step of any client empties the tree of a document type that holds committed
\* documents, with the same exceptions (update_contract_operations).
THEOREM DocumentsAreKept == Spec => DocumentsSurvive
<1>1. CacheInv /\ DoubtInv /\ [Next]_vars => [DocumentsKept]_vars
  BY TransactionStepsKeepDoubtInv, CallbacksKeepDoubtInv DEF Next
<1>2. DocumentsKept =>
          \A c \in Contracts \ doubt'.stored, t \in DocTypes :
              committed[c].trees[t] = "full" => committed'[c].trees[t] = "full"
  BY DEF DocumentsKept, KeepsDocuments
<1> QED BY <1>1, <1>2, DoubtInvariant, PTL DEF Spec, DocumentsSurvive

=============================================================================
