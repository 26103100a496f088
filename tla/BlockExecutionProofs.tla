------------------------ MODULE BlockExecutionProofs ------------------------
(***************************************************************************)
(* What executing blocks guarantees in every run: that memory left by       *)
(* failed blocks and restarts misleads no later block, that withdrawals are *)
(* handed out once and in order, and that blocks implement BlockLedger.     *)
(*                                                                         *)
(* MemoryInv relates the committed state, the transaction, the cached       *)
(* genesis time and the context in every phase of a block. WithdrawalsInv   *)
(* says which numbers are signed, in the answer of block_begin and in the   *)
(* queues of the transaction and of storage.                                *)
(***************************************************************************)
EXTENDS BlockExecution, FiniteSetTheorems, SequenceTheorems, TLAPS

-----------------------------------------------------------------------------
(* Queues whose entries are numbered like their keys.                      *)

Pairs(a, b) == {<<k, k>> : k \in (a + 1)..b}

\* A run of pairs has as many entries as numbers.
LEMMA PairsCardinality ==
    ASSUME NEW a \in Nat, NEW b \in Nat, a <= b
    PROVE  IsFiniteSet(Pairs(a, b)) /\ Cardinality(Pairs(a, b)) = b - a
<1> DEFINE f == [k \in (a + 1)..b |-> <<k, k>>]
<1>1. f \in Bijection((a + 1)..b, Pairs(a, b))
  <2>1. f \in [(a + 1)..b -> Pairs(a, b)]
    BY DEF Pairs
  <2>2. \A i, j \in (a + 1)..b : f[i] = f[j] => i = j
    OBVIOUS
  <2>3. \A t \in Pairs(a, b) : \E i \in (a + 1)..b : f[i] = t
    BY DEF Pairs
  <2> QED BY <2>1, <2>2, <2>3 DEF Bijection, Injection, Surjection, IsInjective
<1>2. ExistsBijection((a + 1)..b, Pairs(a, b))
  BY <1>1 DEF ExistsBijection
<1>3. IsFiniteSet((a + 1)..b) /\ Cardinality((a + 1)..b) = b - a
  <2>1. a + 1 \in Int /\ b \in Int OBVIOUS
  <2>2. Cardinality((a + 1)..b) = IF a + 1 > b THEN 0 ELSE b - (a + 1) + 1
    BY <2>1, FS_Interval
  <2>3. IsFiniteSet((a + 1)..b) BY <2>1, FS_Interval
  <2> QED BY <2>2, <2>3
<1> QED BY <1>2, <1>3, FS_Bijection

\* Before the entry of k are those of the smaller numbers.
LEMMA BeforePairs ==
    ASSUME NEW a \in Nat, NEW b \in Nat, a <= b, NEW k \in (a + 1)..b
    PROVE  Cardinality(Before(<<k, k>>, Pairs(a, b))) = k - 1 - a
<1>1. Before(<<k, k>>, Pairs(a, b)) = Pairs(a, k - 1)
  BY DEF Before, Pairs
<1> QED BY <1>1, PairsCardinality

\* In the order of the keys a run is read as it was numbered.
LEMMA InOrderPairs ==
    ASSUME NEW a \in Nat, NEW b \in Nat, a <= b
    PROVE  InOrder(Pairs(a, b)) = [i \in 1..(b - a) |-> a + i]
<1> DEFINE Nth(n) == CHOOSE entry \in Pairs(a, b) :
                        Cardinality(Before(entry, Pairs(a, b))) = n - 1
<1>1. ASSUME NEW n \in 1..(b - a) PROVE Nth(n) = <<a + n, a + n>>
  <2>1. a + n \in (a + 1)..b /\ <<a + n, a + n>> \in Pairs(a, b)
    BY DEF Pairs
  <2>2. Cardinality(Before(<<a + n, a + n>>, Pairs(a, b))) = n - 1
    BY <2>1, BeforePairs
  <2>3. ASSUME NEW e \in Pairs(a, b), Cardinality(Before(e, Pairs(a, b))) = n - 1
        PROVE  e = <<a + n, a + n>>
    <3>1. PICK k \in (a + 1)..b : e = <<k, k>> BY DEF Pairs
    <3>2. k - 1 - a = n - 1 BY <3>1, <2>3, BeforePairs
    <3> QED BY <3>1, <3>2
  <2> QED BY <2>1, <2>2, <2>3
<1>2. Cardinality(Pairs(a, b)) = b - a
  BY PairsCardinality
<1>3. InOrder(Pairs(a, b)) = [n \in 1..(b - a) |-> Nth(n)[2]]
  BY <1>2 DEF InOrder
<1> HIDE DEF Nth
<1> QED BY <1>1, <1>3

\* The query takes the first entries of a run, as many as the limit allows, and
\* leaves the rest (dequeue_withdrawal_transactions).
LEMMA DequeuedPairs ==
    ASSUME NEW a \in Nat, NEW b \in Nat, a <= b
    PROVE  \E m \in a..b :
              /\ m = a + Ledger!Smaller(WITHDRAWAL_TRANSACTIONS_QUERY_LIMIT, b - a)
              /\ Dequeued(Pairs(a, b)) = Pairs(a, m)
              /\ Pairs(a, b) \ Dequeued(Pairs(a, b)) = Pairs(m, b)
<1> DEFINE L == WITHDRAWAL_TRANSACTIONS_QUERY_LIMIT
           m == a + Ledger!Smaller(L, b - a)
<1>1. m \in a..b
  BY LimitAssumption DEF Ledger!Smaller
<1>2. \A k \in (a + 1)..b : Cardinality(Before(<<k, k>>, Pairs(a, b))) < L <=> k <= m
  <2> TAKE k \in (a + 1)..b
  <2>1. Cardinality(Before(<<k, k>>, Pairs(a, b))) = k - 1 - a
    BY BeforePairs
  <2> QED BY <2>1, LimitAssumption DEF Ledger!Smaller
<1> HIDE DEF m
<1>3. Dequeued(Pairs(a, b)) = Pairs(a, m)
  <2>1. \A e \in Dequeued(Pairs(a, b)) : e \in Pairs(a, m)
    BY <1>1, <1>2 DEF Dequeued, Pairs
  <2>2. \A e \in Pairs(a, m) : e \in Dequeued(Pairs(a, b))
    BY <1>1, <1>2 DEF Dequeued, Pairs
  <2> QED BY <2>1, <2>2
<1>4. Pairs(a, b) \ Pairs(a, m) = Pairs(m, b)
  BY <1>1 DEF Pairs
<1> QED BY <1>1, <1>3, <1>4 DEF m

\* An entry under the next number makes the run longer by one.
LEMMA PutPairs ==
    ASSUME NEW a \in Nat, NEW b \in Nat, a <= b
    PROVE  Put(Pairs(a, b), b + 1, b + 1) = Pairs(a, b + 1)
BY DEF Put, Pairs

\* The withdrawals in a run.
LEMMA QueuedPairs ==
    ASSUME NEW a \in Nat, NEW b \in Nat
    PROVE  Queued(Pairs(a, b)) = (a + 1)..b
<1>1. \A w \in Queued(Pairs(a, b)) : w \in (a + 1)..b
  BY DEF Queued, Pairs
<1>2. ASSUME NEW w \in (a + 1)..b PROVE w \in Queued(Pairs(a, b))
  <2>1. <<w, w>> \in Pairs(a, b) BY DEF Pairs
  <2>2. <<w, w>>[2] = w OBVIOUS
  <2> QED BY <2>1, <2>2 DEF Queued
<1> QED BY <1>1, <1>2

\* Epochs follow the order of times, and the genesis time is in epoch 0
\* (EpochInfo::calculate).
LEMMA EpochIndexOrdered ==
    ASSUME NEW g \in Nat, NEW s \in Nat, NEW t \in Nat, g <= s, s <= t
    PROVE  /\ EpochIndex(g, s) \in Nat
           /\ EpochIndex(g, t) \in Nat
           /\ EpochIndex(g, s) <= EpochIndex(g, t)
           /\ EpochIndex(g, g) = 0
BY EpochTimeAssumption DEF EpochIndex

-----------------------------------------------------------------------------
(* The queue.  Under the next index it is a run of withdrawals numbered like *)
(* their keys; under the latest one it never has more than one entry.       *)

QueueShape(st) ==
    IF KeyStep = 1
    THEN st.counter = st.accepted /\ \E a \in 0..st.accepted : st.queue = Pairs(a, st.accepted)
    ELSE st.counter = 0 /\ \/ st.queue = {}
                           \/ \E w \in Nat : st.queue = {<<0, w>>}

\* A single entry is taken by the query.
LEMMA SingleQueue ==
    ASSUME NEW w \in Nat
    PROVE  /\ Dequeued({<<0, w>>}) = {<<0, w>>}
           /\ InOrder({<<0, w>>}) \in Seq(Nat)
<1> DEFINE q == {<<0, w>>}
<1>1. Before(<<0, w>>, q) = {} BY DEF Before
<1>2. Cardinality({}) = 0 /\ Cardinality(q) = 1 BY FS_EmptySet, FS_Singleton
<1>3. Dequeued(q) = q
  BY <1>1, <1>2, LimitAssumption DEF Dequeued
<1> DEFINE Nth(n) == CHOOSE entry \in q : Cardinality(Before(entry, q)) = n - 1
<1>4. \A n \in 1..1 : Nth(n) = <<0, w>>
  BY <1>1, <1>2
<1>5. InOrder(q) = [n \in 1..1 |-> w]
  <2>1. InOrder(q) = [n \in 1..1 |-> Nth(n)[2]]
    BY <1>2 DEF InOrder
  <2> HIDE DEF Nth
  <2> QED BY <2>1, <1>4
<1>6. [n \in 1..1 |-> w] \in Seq(Nat) OBVIOUS
<1> QED BY <1>3, <1>5, <1>6

\* From an empty queue nothing is taken.
LEMMA EmptyQueue == Dequeued({}) = {} /\ InOrder({}) = <<>>
<1>1. Cardinality({}) = 0 BY FS_EmptySet
<1>2. InOrder({}) = [n \in 1..0 |-> (CHOOSE e \in {} : Cardinality(Before(e, {})) = n - 1)[2]]
  BY <1>1 DEF InOrder
<1> QED BY <1>2 DEF Dequeued

\* What block_begin takes out is a sequence of withdrawals, and the queue that is
\* left has the shape again.
LEMMA QueueTaken ==
    ASSUME NEW st \in State, QueueShape(st)
    PROVE  /\ InOrder(Dequeued(st.queue)) \in Seq(Nat)
           /\ QueueShape([st EXCEPT !.queue = @ \ Dequeued(@)])
           /\ [st EXCEPT !.queue = @ \ Dequeued(@)] \in State
<1> DEFINE after == [st EXCEPT !.queue = @ \ Dequeued(@)]
<1>1. after \in State
  BY DEF State, Dequeued
<1>2. after.counter = st.counter /\ after.accepted = st.accepted
        /\ after.queue = st.queue \ Dequeued(st.queue)
  BY DEF State
<1>3. CASE KeyStep = 1
  <2>1. st.accepted \in Nat BY DEF State
  <2>2. PICK a \in 0..st.accepted : st.queue = Pairs(a, st.accepted)
    BY <1>3 DEF QueueShape
  <2>8. a \in Nat /\ a <= st.accepted BY <2>1
  <2>3. PICK m \in a..st.accepted : /\ Dequeued(st.queue) = Pairs(a, m)
                                    /\ st.queue \ Dequeued(st.queue) = Pairs(m, st.accepted)
    <3>1. \E m \in a..st.accepted :
             /\ m = a + Ledger!Smaller(WITHDRAWAL_TRANSACTIONS_QUERY_LIMIT, st.accepted - a)
             /\ Dequeued(Pairs(a, st.accepted)) = Pairs(a, m)
             /\ Pairs(a, st.accepted) \ Dequeued(Pairs(a, st.accepted)) = Pairs(m, st.accepted)
      BY <2>1, <2>8, DequeuedPairs
    <3> QED BY <3>1, <2>2
  <2>9. m \in Nat /\ a <= m BY <2>1, <2>8
  <2>4. InOrder(Dequeued(st.queue)) = [i \in 1..(m - a) |-> a + i]
    BY <2>3, <2>8, <2>9, InOrderPairs
  <2>5. [i \in 1..(m - a) |-> a + i] \in Seq(Nat)
    BY <2>1
  <2>6. m \in 0..after.accepted BY <1>2, <2>1
  <2> HIDE DEF after
  <2>7. QueueShape(after)
    BY <1>2, <1>3, <2>3, <2>6 DEF QueueShape
  <2> QED BY <1>1, <2>4, <2>5, <2>7 DEF after
<1>4. CASE KeyStep # 1
  <2>1. st.queue = {} \/ \E w \in Nat : st.queue = {<<0, w>>}
    BY <1>4 DEF QueueShape
  <2>2. st.queue \ Dequeued(st.queue) = {} /\ InOrder(Dequeued(st.queue)) \in Seq(Nat)
    <3>1. CASE st.queue = {} 
      <4>1. <<>> \in Seq(Nat) OBVIOUS
      <4> QED BY <3>1, <4>1, EmptyQueue
    <3>2. ASSUME NEW w \in Nat, st.queue = {<<0, w>>}
          PROVE  st.queue \ Dequeued(st.queue) = {} /\ InOrder(Dequeued(st.queue)) \in Seq(Nat)
      BY <3>2, SingleQueue
    <3> QED BY <2>1, <3>1, <3>2
  <2> HIDE DEF after
  <2>3. QueueShape(after)
    BY <1>2, <1>4, <2>2 DEF QueueShape
  <2> QED BY <1>1, <2>2, <2>3 DEF after
<1> QED BY <1>3, <1>4

-----------------------------------------------------------------------------
(* Memory.                                                                 *)

Working == phase \in {"deliver", "ended"}

\* The committed state: without blocks it has no times, with some its epoch is
\* that of the last block, counted from the stored genesis time.
StoreInv ==
    /\ store.height = 0 => store.lastTime = None /\ store.epoch = 0
    /\ store.height > 0 => /\ store.genesis \in Nat
                           /\ store.lastTime \in Nat
                           /\ store.genesis <= store.lastTime
                           /\ store.epoch = EpochIndex(store.genesis, store.lastTime)

\* The block in execution and what its transaction has not changed yet.
BlockInv ==
    /\ phase # "idle" => /\ block \in Block
                         /\ block.height = store.height + 1
                         /\ store.lastTime # None => block.time > store.lastTime
    /\ phase \in {"idle", "started"} => txn = store
    /\ txn.lastTime = store.lastTime
    /\ QueueShape(store)
    /\ QueueShape(txn)

\* What block_begin left for the rest of the block.
BegunInv ==
    /\ Working =>
         /\ txn.genesis = IF store.height = 0 THEN block.time ELSE store.genesis
         /\ genesisCache = txn.genesis
         /\ context = [block |-> block,
                       info |-> EpochInfo(txn.genesis, block.time, store.lastTime)]
    /\ phase = "ended" => txn.epoch = context.info.epoch

\* The inductive invariant of MemoryCoherent.
MemoryInv == TypeOK /\ StoreInv /\ GenesisCoherent /\ BlockInv /\ BegunInv

\* The genesis time block_begin finds is the stored one, or that of a first block.
LEMMA GenesisFound ==
    ASSUME MemoryInv, phase = "started", GenesisTime # None
    PROVE  /\ GenesisTime = IF store.height = 0 THEN block.time ELSE store.genesis
           /\ GenesisTime \in Nat
BY NoneAssumption DEF MemoryInv, TypeOK, StoreInv, BlockInv, GenesisCoherent, GenesisTime,
       Block, State, Optional

\* The epoch info of a block (EpochInfo::calculate).
LEMMA EpochInfoTyped ==
    ASSUME MemoryInv, phase # "idle",
           NEW g, g = IF store.height = 0 THEN block.time ELSE store.genesis
    PROVE  EpochInfo(g, block.time, store.lastTime) \in EpochInfoType
<1>1. CASE store.height = 0
  BY <1>1 DEF MemoryInv, TypeOK, StoreInv, EpochInfo, EpochInfoType, Optional
<1>2. CASE store.height # 0
  <2>4. store.height \in Nat BY DEF MemoryInv, TypeOK, State
  <2>5. /\ store.height > 0 /\ g \in Nat /\ store.lastTime \in Nat /\ g <= store.lastTime
    BY <1>2, <2>4 DEF MemoryInv, StoreInv
  <2>6. block.time \in Nat BY DEF MemoryInv, BlockInv, Block
  <2>1. /\ store.height > 0 /\ g \in Nat /\ store.lastTime \in Nat /\ g <= store.lastTime
        /\ block.time \in Nat /\ store.lastTime <= block.time
    BY <2>5, <2>6, NoneAssumption DEF MemoryInv, BlockInv
  <2>2. /\ EpochIndex(g, block.time) \in Nat
        /\ EpochIndex(g, store.lastTime) \in Nat
    BY <2>1, EpochIndexOrdered
  <2>3. store.lastTime # None BY <2>1, NoneAssumption
  <2> QED BY <2>2, <2>3 DEF EpochInfo, EpochInfoType, Optional
<1> QED BY <1>1, <1>2

\* The invariant holds before the chain is initialised.
LEMMA MemoryInit == Init => MemoryInv
<1> SUFFICES ASSUME Init PROVE MemoryInv OBVIOUS
<1>1. InitialState \in State
  BY DEF InitialState, State, Optional
<1>2. /\ store \in State /\ store.height = 0 /\ store.lastTime = None /\ store.epoch = 0
      /\ store.counter = 0 /\ store.accepted = 0 /\ store.queue = {}
  BY <1>1 DEF Init, InitialState, State
<1>3. Pairs(0, 0) = {} BY DEF Pairs
<1>4. QueueShape(store)
  BY <1>2, <1>3 DEF QueueShape
<1>5. TypeOK
  BY <1>2, BoundsAssumption DEF Init, TypeOK, Phases, Optional
<1> QED BY <1>2, <1>4, <1>5 DEF Init, MemoryInv, StoreInv, GenesisCoherent, BlockInv, BegunInv, Working

\* create_initial_state_structure leaves an empty queue of the shape.
LEMMA InitialShape == InitialState \in State /\ QueueShape(InitialState)
<1>1. InitialState \in State
  BY DEF InitialState, State, Optional
<1>2. Pairs(0, 0) = {} BY DEF Pairs
<1>3. QueueShape(InitialState)
  BY <1>2 DEF QueueShape, InitialState
<1> QED BY <1>1, <1>3

\* init_chain, also when it is repeated, keeps the invariant.
LEMMA MemoryInitChain == MemoryInv /\ InitChain => MemoryInv'
<1> SUFFICES ASSUME MemoryInv, InitChain PROVE MemoryInv' OBVIOUS
<1>1. TypeOK' BY InitialShape DEF MemoryInv, InitChain, TypeOK
<1>2. StoreInv' /\ GenesisCoherent' /\ BegunInv'
  BY DEF InitChain, StoreInv, GenesisCoherent, BegunInv, InitialState, Working
<1>3. BlockInv'
  <2>1. store' = InitialState /\ txn' = InitialState /\ phase' = "idle" BY DEF InitChain
  <2> QED BY <2>1, InitialShape DEF BlockInv
<1> QED BY <1>1, <1>2, <1>3 DEF MemoryInv

\* A new block's transaction sees the committed state.
LEMMA MemoryStartBlock ==
    ASSUME NEW time \in 0..MaxTime
    PROVE  MemoryInv /\ StartBlock(time) => MemoryInv'
<1> SUFFICES ASSUME MemoryInv, StartBlock(time) PROVE MemoryInv' OBVIOUS
<1>1. time \in Nat BY BoundsAssumption
<1>2. store.height \in Nat BY DEF MemoryInv, TypeOK, State
<1>3. block' \in Block BY <1>1, <1>2 DEF StartBlock, Block
<1>4. TypeOK' BY <1>3 DEF MemoryInv, StartBlock, TypeOK, Phases, Optional
<1>5. StoreInv' /\ GenesisCoherent' /\ BegunInv'
  BY DEF MemoryInv, StartBlock, StoreInv, GenesisCoherent, BegunInv, Working
<1>6. BlockInv'
  BY <1>3 DEF MemoryInv, StartBlock, BlockInv
<1> QED BY <1>4, <1>5, <1>6 DEF MemoryInv

\* What block_begin writes in memory and in the transaction, however it ends.
LEMMA BegunTyped ==
    ASSUME MemoryInv, phase = "started", GenesisTime # None
    PROVE  /\ AfterBegin(GenesisTime) \in State
           /\ QueueShape(AfterBegin(GenesisTime))
           /\ AfterBegin(GenesisTime).lastTime = store.lastTime
           /\ AfterBegin(GenesisTime).genesis = GenesisTime
           /\ ContextAfterBegin(GenesisTime) \in ContextType
           /\ InOrder(Dequeued(txn.queue)) \in Seq(Nat)
           /\ store.height > 0 => GenesisTime = store.genesis
<1> DEFINE g == GenesisTime
           taken == [txn EXCEPT !.queue = @ \ Dequeued(@)]
<1>1. /\ g = IF store.height = 0 THEN block.time ELSE store.genesis
      /\ g \in Nat
  BY GenesisFound
<1>2. /\ txn = store /\ txn \in State /\ QueueShape(txn) /\ block \in Block
      /\ block.height = store.height + 1 /\ store.height \in Nat
  BY DEF MemoryInv, TypeOK, BlockInv, State
<1>3. /\ InOrder(Dequeued(txn.queue)) \in Seq(Nat) /\ QueueShape(taken) /\ taken \in State
  BY <1>2, QueueTaken
<1> HIDE DEF g
<1>4. /\ AfterBegin(g) = [taken EXCEPT !.genesis = g]
      /\ AfterBegin(g).genesis = g
  <2>1. block.height # 1 => txn.genesis = g
    BY <1>1, <1>2
  <2> QED BY <2>1, <1>2 DEF AfterBegin, State
<1>5. AfterBegin(g) \in State
  BY <1>1, <1>3, <1>4 DEF State, Optional
<1>6. /\ AfterBegin(g).counter = taken.counter /\ AfterBegin(g).accepted = taken.accepted
      /\ AfterBegin(g).queue = taken.queue
  BY <1>3, <1>4 DEF State
<1>7. QueueShape(AfterBegin(g))
  BY <1>3, <1>6 DEF QueueShape
<1>8. AfterBegin(g).lastTime = store.lastTime
  BY <1>2 DEF AfterBegin, State
<1>9. EpochInfo(g, block.time, store.lastTime) \in EpochInfoType
  BY <1>1, EpochInfoTyped
<1>10. ContextAfterBegin(g) \in ContextType
  BY <1>2, <1>9 DEF ContextAfterBegin, ContextType
<1> QED BY <1>1, <1>3, <1>4, <1>5, <1>7, <1>8, <1>10 DEF g

\* block_begin replaces what earlier blocks left in memory.
LEMMA MemoryBlockBegin == MemoryInv /\ BlockBegin => MemoryInv'
<1> SUFFICES ASSUME MemoryInv, BlockBegin PROVE MemoryInv' OBVIOUS
<1>1. phase = "started" /\ GenesisTime # None BY DEF BlockBegin
<1>2. /\ AfterBegin(GenesisTime) \in State
      /\ QueueShape(AfterBegin(GenesisTime))
      /\ AfterBegin(GenesisTime).lastTime = store.lastTime
      /\ AfterBegin(GenesisTime).genesis = GenesisTime
      /\ ContextAfterBegin(GenesisTime) \in ContextType
      /\ InOrder(Dequeued(txn.queue)) \in Seq(Nat)
      /\ store.height > 0 => GenesisTime = store.genesis
  BY <1>1, BegunTyped
<1>3. /\ GenesisTime = IF store.height = 0 THEN block.time ELSE store.genesis
      /\ GenesisTime \in Nat
  BY <1>1, GenesisFound
<1>4. /\ txn = store /\ block \in Block
  BY <1>1 DEF MemoryInv, BlockInv
<1>5. TypeOK'
  BY <1>2, <1>3 DEF MemoryInv, BlockBegin, TypeOK, Phases, Optional, CachedAfterBegin
<1>6. StoreInv' /\ GenesisCoherent'
  BY <1>2 DEF MemoryInv, BlockBegin, StoreInv, GenesisCoherent, CachedAfterBegin
<1>7. BlockInv'
  BY <1>1, <1>2, <1>4 DEF MemoryInv, BlockBegin, BlockInv
<1>8. BegunInv'
  <2>1. /\ txn' = AfterBegin(GenesisTime) /\ genesisCache' = GenesisTime /\ phase' = "deliver"
        /\ context' = ContextAfterBegin(GenesisTime) /\ store' = store /\ block' = block
    BY DEF BlockBegin, CachedAfterBegin
  <2>2. context' = [block |-> block, info |-> EpochInfo(GenesisTime, block.time, store.lastTime)]
    BY <2>1, <1>4 DEF ContextAfterBegin
  <2> QED BY <1>2, <1>3, <2>1, <2>2 DEF BegunInv, Working
<1> QED BY <1>5, <1>6, <1>7, <1>8 DEF MemoryInv

\* A block_begin that fails half-way may leave the genesis time of a first block
\* in the cache, which no later block takes for the stored one.
LEMMA MemoryBlockBeginFails == MemoryInv /\ BlockBeginFails => MemoryInv'
<1> SUFFICES ASSUME MemoryInv, BlockBeginFails PROVE MemoryInv' OBVIOUS
<1>1. /\ phase = "started" /\ phase' = "failed" /\ failures' \in 0..MaxFailures
      /\ store' = store /\ block' = block /\ unsigned' = unsigned /\ signed' = signed
  BY BoundsAssumption DEF BlockBeginFails, MemoryInv, TypeOK
<1>2. /\ txn = store /\ block \in Block /\ block.height = store.height + 1
      /\ store.height \in Nat /\ block.time \in Nat
  BY <1>1 DEF MemoryInv, BlockInv, TypeOK, State, Block
<1>3. StoreInv' /\ BegunInv'
  BY <1>1 DEF MemoryInv, StoreInv, BegunInv, Working
<1>4. CASE /\ genesisCache' = IF block.height = 1 THEN CachedAfterBegin ELSE genesisCache
           /\ UNCHANGED <<context, txn>>
  <2>1. genesisCache' = IF store.height = 0 THEN block.time ELSE genesisCache
    BY <1>2, <1>4 DEF CachedAfterBegin, GenesisTime
  <2>2. TypeOK'
    BY <1>1, <1>2, <1>4, <2>1 DEF MemoryInv, TypeOK, Phases, Optional
  <2>3. GenesisCoherent'
    BY <1>1, <1>2, <2>1 DEF MemoryInv, GenesisCoherent
  <2>4. BlockInv'
    BY <1>1, <1>4 DEF MemoryInv, BlockInv
  <2> QED BY <1>3, <2>2, <2>3, <2>4 DEF MemoryInv
<1>5. CASE /\ GenesisTime # None
           /\ genesisCache' = CachedAfterBegin
           /\ context' = ContextAfterBegin(GenesisTime)
           /\ txn' = AfterBegin(GenesisTime)
  <2>1. /\ AfterBegin(GenesisTime) \in State
        /\ QueueShape(AfterBegin(GenesisTime))
        /\ AfterBegin(GenesisTime).lastTime = store.lastTime
        /\ ContextAfterBegin(GenesisTime) \in ContextType
        /\ store.height > 0 => GenesisTime = store.genesis
    BY <1>1, <1>5, BegunTyped
  <2>2. GenesisTime \in Nat
    BY <1>1, <1>5, GenesisFound
  <2>3. TypeOK'
    BY <1>1, <1>5, <2>1, <2>2 DEF MemoryInv, TypeOK, Phases, Optional, CachedAfterBegin
  <2>4. GenesisCoherent'
    BY <1>1, <1>5, <2>1 DEF GenesisCoherent, CachedAfterBegin
  <2>5. BlockInv'
    BY <1>1, <1>5, <2>1 DEF MemoryInv, BlockInv
  <2> QED BY <1>3, <2>3, <2>4, <2>5 DEF MemoryInv
<1> QED BY <1>4, <1>5 DEF BlockBeginFails

\* A withdrawal leaves memory alone.
LEMMA MemoryEnqueue == MemoryInv /\ EnqueueWithdrawal => MemoryInv'
<1> SUFFICES ASSUME MemoryInv, EnqueueWithdrawal PROVE MemoryInv' OBVIOUS
<1>1. txn \in State /\ QueueShape(txn) BY DEF MemoryInv, TypeOK, BlockInv
<1>2. txn.counter \in Nat /\ txn.accepted \in Nat /\ EnqueueKey \in Nat
  BY <1>1, KeyStepAssumption DEF State, EnqueueKey
<1>3. Put(txn.queue, EnqueueKey, txn.accepted + 1) \in SUBSET (Nat \X Nat)
  BY <1>1, <1>2 DEF State, Put
<1>4. /\ txn' \in State
      /\ txn'.counter = EnqueueKey /\ txn'.accepted = txn.accepted + 1
      /\ txn'.queue = Put(txn.queue, EnqueueKey, txn.accepted + 1)
      /\ txn'.genesis = txn.genesis /\ txn'.lastTime = txn.lastTime
      /\ txn'.epoch = txn.epoch
  <2> DEFINE key == EnqueueKey
             next == txn.accepted + 1
             queue == Put(txn.queue, EnqueueKey, next)
  <2>1. txn' = [txn EXCEPT !.counter = key, !.queue = queue, !.accepted = next]
    BY DEF EnqueueWithdrawal
  <2>2. key \in Nat /\ next \in Nat /\ queue \in SUBSET (Nat \X Nat) BY <1>2, <1>3
  <2> HIDE DEF key, queue, next
  <2>3. /\ txn' \in State
        /\ txn'.counter = key /\ txn'.accepted = next /\ txn'.queue = queue
        /\ txn'.genesis = txn.genesis /\ txn'.lastTime = txn.lastTime
        /\ txn'.epoch = txn.epoch
    BY <1>1, <2>1, <2>2 DEF State
  <2> QED BY <2>3 DEF key, queue, next
<1>5. QueueShape(txn')
  <2>1. CASE KeyStep = 1
    <3>1. PICK a \in 0..txn.accepted : txn.queue = Pairs(a, txn.accepted)
      BY <1>1, <2>1 DEF QueueShape
    <3>2. EnqueueKey = txn.accepted + 1
      BY <1>1, <2>1 DEF QueueShape, EnqueueKey
    <3>3. a \in Nat /\ a <= txn.accepted /\ a \in 0..(txn.accepted + 1) BY <1>2
    <3>4. txn'.queue = Pairs(a, txn.accepted + 1)
      BY <1>2, <1>4, <3>1, <3>2, <3>3, PutPairs
    <3> QED BY <1>4, <2>1, <3>2, <3>3, <3>4 DEF QueueShape
  <2>2. CASE KeyStep # 1
    <3>1. EnqueueKey = 0
      BY <1>1, <1>2, <2>2, KeyStepAssumption DEF QueueShape, EnqueueKey
    <3>2. txn'.queue = {<<0, txn.accepted + 1>>}
      BY <1>1, <1>2, <1>4, <2>2, <3>1 DEF QueueShape, Put
    <3>3. txn.accepted + 1 \in Nat BY <1>2
    <3> QED BY <1>4, <2>2, <3>1, <3>2, <3>3 DEF QueueShape
  <2> QED BY <2>1, <2>2
<1>6. /\ UNCHANGED <<store, phase, block, genesisCache, context, unsigned, signed, failures>>
      /\ phase = "deliver"
  BY DEF EnqueueWithdrawal
<1>7. TypeOK' BY <1>4, <1>6 DEF MemoryInv, TypeOK
<1>8. StoreInv' /\ GenesisCoherent' BY <1>6 DEF MemoryInv, StoreInv, GenesisCoherent
<1>9. BlockInv' BY <1>4, <1>5, <1>6 DEF MemoryInv, BlockInv
<1>10. BegunInv' BY <1>4, <1>6 DEF MemoryInv, BegunInv, Working
<1> QED BY <1>7, <1>8, <1>9, <1>10 DEF MemoryInv

\* block_end charges the epoch of the context.
LEMMA MemoryBlockEnd ==
    ASSUME NEW fails \in BOOLEAN
    PROVE  MemoryInv /\ BlockEnd(fails) => MemoryInv'
<1> SUFFICES ASSUME MemoryInv, BlockEnd(fails) PROVE MemoryInv' OBVIOUS
<1>1. /\ UNCHANGED <<store, block, genesisCache, context, unsigned, signed>>
      /\ phase = "deliver" /\ phase' = IF fails THEN "failed" ELSE "ended"
      /\ txn' = IF fails THEN txn ELSE [txn EXCEPT !.epoch = context.info.epoch]
  BY DEF BlockEnd
<1>2. failures' \in 0..MaxFailures
  BY BoundsAssumption DEF MemoryInv, TypeOK, BlockEnd
<1>3. txn \in State /\ context.info.epoch \in Nat
  BY <1>1 DEF MemoryInv, TypeOK, BlockEnd, EpochInfoType, ContextType, Optional
<1>4. /\ txn' \in State
      /\ txn'.counter = txn.counter /\ txn'.accepted = txn.accepted
      /\ txn'.queue = txn.queue /\ txn'.genesis = txn.genesis /\ txn'.lastTime = txn.lastTime
      /\ ~ fails => txn'.epoch = context.info.epoch
  BY <1>1, <1>3 DEF State
<1>5. TypeOK' BY <1>1, <1>2, <1>4 DEF MemoryInv, TypeOK, Phases
<1>6. StoreInv' /\ GenesisCoherent' BY <1>1 DEF MemoryInv, StoreInv, GenesisCoherent
<1>7. BlockInv'
  <2>1. QueueShape(txn') BY <1>4 DEF MemoryInv, BlockInv, QueueShape
  <2> QED BY <1>1, <1>4, <2>1 DEF MemoryInv, BlockInv
<1>8. BegunInv' BY <1>1, <1>4 DEF MemoryInv, BegunInv, Working
<1> QED BY <1>5, <1>6, <1>7, <1>8 DEF MemoryInv

\* A commit stores the genesis time that is cached and the epoch of the block.
LEMMA MemoryCommit == MemoryInv /\ Commit => MemoryInv'
<1> SUFFICES ASSUME MemoryInv, Commit PROVE MemoryInv' OBVIOUS
<1>1. /\ txn \in State /\ block \in Block /\ phase = "ended"
      /\ block.height = store.height + 1 /\ store.height \in Nat /\ block.time \in Nat
  BY DEF MemoryInv, TypeOK, BlockInv, Commit, Block, State
<1>2. /\ txn' = store' /\ store' \in State
      /\ store'.counter = txn.counter /\ store'.accepted = txn.accepted
      /\ store'.queue = txn.queue /\ store'.genesis = txn.genesis
      /\ store'.lastTime = block.time /\ store'.height = store.height + 1
      /\ store'.epoch = txn.epoch
  BY <1>1 DEF Commit, State, Block, Optional
<1>3. /\ txn.genesis = IF store.height = 0 THEN block.time ELSE store.genesis
      /\ genesisCache = txn.genesis
      /\ txn.epoch = EpochInfo(txn.genesis, block.time, store.lastTime).epoch
  BY <1>1 DEF MemoryInv, BegunInv, Working
<1>4. TypeOK'
  <2>1. signed' \in Seq(Nat) /\ unsigned' \in Seq(Nat)
    BY DEF MemoryInv, TypeOK, Commit
  <2> QED BY <1>2, <2>1 DEF MemoryInv, TypeOK, Commit, Phases, Optional
<1>5. StoreInv'
  <2>1. CASE store.height = 0
    <3>1. store.lastTime = None BY <2>1 DEF MemoryInv, StoreInv
    <3>2. txn.genesis = block.time /\ txn.epoch = 0
      BY <1>3, <2>1, <3>1 DEF EpochInfo
    <3>3. EpochIndex(block.time, block.time) = 0
      BY <1>1, EpochIndexOrdered
    <3> QED BY <1>1, <1>2, <3>2, <3>3 DEF StoreInv
  <2>2. CASE store.height # 0
    <3>1. /\ store.genesis \in Nat /\ store.lastTime \in Nat
          /\ store.genesis <= store.lastTime /\ block.time > store.lastTime
      BY <1>1, <2>2, NoneAssumption DEF MemoryInv, StoreInv, BlockInv
    <3>2. store.lastTime # None BY <3>1, NoneAssumption
    <3>3. txn.epoch = EpochIndex(store.genesis, block.time)
      BY <1>3, <2>2, <3>2 DEF EpochInfo
    <3> QED BY <1>1, <1>2, <1>3, <2>2, <3>1, <3>3 DEF StoreInv
  <2> QED BY <2>1, <2>2
<1>6. GenesisCoherent' BY <1>2, <1>3 DEF GenesisCoherent, Commit
<1>7. BlockInv'
  <2>1. QueueShape(store') BY <1>2 DEF MemoryInv, BlockInv, QueueShape
  <2> QED BY <1>2, <2>1 DEF BlockInv, Commit
<1>8. BegunInv' BY DEF BegunInv, Working, Commit
<1> QED BY <1>4, <1>5, <1>6, <1>7, <1>8 DEF MemoryInv

\* An abort rolls the transaction back, and memory stays true.
LEMMA MemoryAbort == MemoryInv /\ Abort => MemoryInv'
<1> SUFFICES ASSUME MemoryInv, Abort PROVE MemoryInv' OBVIOUS
<1>1. TypeOK' BY DEF MemoryInv, TypeOK, Abort, Phases, Optional
<1> QED BY <1>1 DEF MemoryInv, StoreInv, GenesisCoherent, BlockInv, BegunInv, Working, Abort

\* A restart has no memory.
LEMMA MemoryCrash == MemoryInv /\ Crash => MemoryInv'
<1> SUFFICES ASSUME MemoryInv, Crash PROVE MemoryInv' OBVIOUS
<1>1. TypeOK' BY BoundsAssumption DEF MemoryInv, TypeOK, Crash, Phases, Optional
<1> QED BY <1>1 DEF MemoryInv, StoreInv, GenesisCoherent, BlockInv, BegunInv, Working, Crash

\* The invariant is inductive.
LEMMA MemoryStep == MemoryInv /\ [Next]_vars => MemoryInv'
<1> SUFFICES ASSUME MemoryInv, [Next]_vars PROVE MemoryInv' OBVIOUS
<1>1. CASE UNCHANGED vars
  BY <1>1 DEF vars, MemoryInv, TypeOK, StoreInv, GenesisCoherent, BlockInv, BegunInv,
              Working
<1>2. CASE Next
  BY <1>2, MemoryInitChain, MemoryStartBlock, MemoryBlockBegin, MemoryBlockBeginFails,
     MemoryEnqueue, MemoryBlockEnd, MemoryCommit, MemoryAbort, MemoryCrash DEF Next
<1> QED BY <1>1, <1>2

\* The invariant implies what the runs check.
LEMMA MemoryMeans == MemoryInv => MemoryCoherent
<1> SUFFICES ASSUME MemoryInv PROVE MemoryCoherent OBVIOUS
<1>1. ContextIsCurrent
  <2> SUFFICES ASSUME Working
               PROVE  context # None /\ context.block = block /\ block.height = store.height + 1
    BY DEF ContextIsCurrent, Working
  <2>1. context = [block |-> block, info |-> EpochInfo(txn.genesis, block.time, store.lastTime)]
    BY DEF MemoryInv, BegunInv
  <2>2. phase # "idle" BY DEF Working
  <2>3. block.height = store.height + 1 BY <2>2 DEF MemoryInv, BlockInv
  <2>4. EpochInfo(txn.genesis, block.time, store.lastTime) \in EpochInfoType
    BY <2>2, EpochInfoTyped DEF MemoryInv, BegunInv
  <2>5. context \in ContextType
    BY <2>1, <2>2, <2>4 DEF MemoryInv, BlockInv, ContextType
  <2> QED BY <2>1, <2>3, <2>5, NoneAssumption
<1>2. EpochChangesAnnounced
  <2> SUFFICES ASSUME Working
               PROVE  IF store.height = 0
                      THEN context.info.isChange /\ context.info.epoch = 0
                      ELSE /\ context.info.epoch >= store.epoch
                           /\ context.info.isChange <=> context.info.epoch # store.epoch
                           /\ context.info.previous =
                                  IF context.info.isChange THEN store.epoch ELSE None
    BY DEF EpochChangesAnnounced, Working
  <2>1. /\ context.info = EpochInfo(txn.genesis, block.time, store.lastTime)
        /\ txn.genesis = IF store.height = 0 THEN block.time ELSE store.genesis
    BY DEF MemoryInv, BegunInv
  <2>2. CASE store.height = 0
    <3>1. store.lastTime = None BY <2>2 DEF MemoryInv, StoreInv
    <3> QED BY <2>1, <2>2, <3>1 DEF EpochInfo
  <2>3. CASE store.height # 0
    <3> DEFINE current == EpochIndex(store.genesis, block.time)
               last == EpochIndex(store.genesis, store.lastTime)
    <3>1. store.height \in Nat /\ block.time \in Nat
      BY DEF MemoryInv, TypeOK, State, BlockInv, Block, Working
    <3>2. /\ store.genesis \in Nat /\ store.lastTime \in Nat
          /\ store.genesis <= store.lastTime /\ store.epoch = last
      BY <2>3, <3>1 DEF MemoryInv, StoreInv
    <3>3. store.lastTime # None /\ store.lastTime <= block.time
      BY <3>1, <3>2, NoneAssumption DEF MemoryInv, BlockInv, Working
    <3>4. current \in Nat /\ last \in Nat /\ last <= current
      BY <3>1, <3>2, <3>3, EpochIndexOrdered
    <3>5. context.info = [epoch |-> current,
                          previous |-> IF current # last THEN last ELSE None,
                          isChange |-> current > last]
      BY <2>1, <2>3, <3>3 DEF EpochInfo
    <3> HIDE DEF current, last
    <3>6. /\ context.info.epoch = current
          /\ context.info.previous = IF current # last THEN last ELSE None
          /\ context.info.isChange = (current > last)
      BY <3>5
    <3>7. context.info.isChange <=> current # last
      <4>1. (current > last) <=> current # last BY <3>4
      <4> QED BY <3>6, <4>1, Zenon
    <3> QED BY <2>3, <3>2, <3>4, <3>6, <3>7
  <2> QED BY <2>2, <2>3
<1> QED BY <1>1, <1>2 DEF MemoryCoherent, MemoryInv

\* Whatever handlers fail and wherever the process stops, the cached genesis
\* time, the execution context and the epoch in it are those of the block in
\* execution, for any epoch length, limit and bounds (DriveCache.genesis_time_ms,
\* Platform.block_execution_context).
THEOREM MemoryStaysCoherent == Spec => []MemoryCoherent
<1>1. Spec => []MemoryInv
  BY MemoryInit, MemoryStep, PTL DEF Spec
<1> QED BY <1>1, MemoryMeans, PTL

-----------------------------------------------------------------------------
(* Withdrawals under the next index.                                       *)

\* The numbers after a, up to b.
Run(a, b) == [i \in 1..(b - a) |-> a + i]

\* A run is a sequence of numbers.
LEMMA RunLength ==
    ASSUME NEW a \in Nat, NEW b \in Nat, a <= b
    PROVE  Run(a, b) \in Seq(Nat) /\ Len(Run(a, b)) = b - a
BY DEF Run

\* Two runs that meet are one.
LEMMA RunJoined ==
    ASSUME NEW a \in Nat, NEW m \in Nat, NEW b \in Nat, a <= m, m <= b
    PROVE  Run(a, m) \o Run(m, b) = Run(a, b)
<1> DEFINE s == Run(a, m)
           t == Run(m, b)
           u == Run(a, b)
<1>1. /\ s \in Seq(Nat) /\ Len(s) = m - a
  BY RunLength
<1>2. /\ t \in Seq(Nat) /\ Len(t) = b - m
  BY RunLength
<1>3. /\ u \in Seq(Nat) /\ Len(u) = b - a
  BY RunLength
<1>4. /\ \A i \in 1..(m - a) : s[i] = a + i
      /\ \A i \in 1..(b - m) : t[i] = m + i
      /\ \A i \in 1..(b - a) : u[i] = a + i
  BY DEF Run
<1> HIDE DEF s, t, u
<1>5. /\ s \o t \in Seq(Nat)
      /\ Len(s \o t) = b - a
      /\ \A i \in 1..(b - a) : (s \o t)[i] = IF i <= m - a THEN s[i] ELSE t[i - (m - a)]
  <2>1. Len(s) + Len(t) = b - a BY <1>1, <1>2
  <2>2. /\ s \o t \in Seq(Nat)
        /\ Len(s \o t) = Len(s) + Len(t)
        /\ \A i \in 1..(Len(s) + Len(t)) :
              (s \o t)[i] = IF i <= Len(s) THEN s[i] ELSE t[i - Len(s)]
    BY <1>1, <1>2, ConcatProperties
  <2>3. Len(s \o t) = b - a BY <2>1, <2>2
  <2>4. \A i \in 1..(b - a) : (s \o t)[i] = IF i <= m - a THEN s[i] ELSE t[i - (m - a)]
    BY <1>1, <2>1, <2>2, Zenon
  <2> QED BY <2>2, <2>3, <2>4, Zenon
<1>6. \A i \in 1..(b - a) : (s \o t)[i] = u[i]
  BY <1>4, <1>5
<1>7. s \o t = u
  BY <1>3, <1>5, <1>6, SeqEqual
<1> QED BY <1>7 DEF s, t, u

\* A run is split into the runs before and after a number.
LEMMA RunSplit ==
    ASSUME NEW a \in Nat, NEW m \in Nat, NEW b \in Nat, a <= m, m <= b
    PROVE  /\ SubSeq(Run(a, b), 1, m - a) = Run(a, m)
           /\ SubSeq(Run(a, b), m - a + 1, b - a) = Run(m, b)
<1>1. Run(a, b) \in Seq(Nat) /\ Len(Run(a, b)) = b - a
  BY RunLength
<1>2. SubSeq(Run(a, b), 1, m - a) = [i \in 1..(m - a) |-> Run(a, b)[i]]
  BY <1>1
<1>3. SubSeq(Run(a, b), m - a + 1, b - a) = [i \in 1..(b - m) |-> Run(a, b)[m - a + i]]
  BY <1>1
<1>4. \A i \in 1..(m - a) : Run(a, b)[i] = a + i BY DEF Run
<1>5. \A i \in 1..(b - m) : Run(a, b)[m - a + i] = m + i BY DEF Run
<1> QED BY <1>2, <1>3, <1>4, <1>5 DEF Run

\* The queue of a state from which the first n withdrawals were handed out.
Waiting(st, n) == n \in Nat /\ n <= st.accepted /\ st.queue = Pairs(n, st.accepted)

\* What is signed, what the block in execution was handed and what waits are
\* adjacent runs of numbers.
WithdrawalsInv ==
    /\ signed = Run(0, Len(signed))
    /\ Waiting(store, Len(signed))
    /\ store.height = 0 => store.accepted = 0
    /\ Working =>
         LET done == Len(signed)
             taken == Ledger!Smaller(WITHDRAWAL_TRANSACTIONS_QUERY_LIMIT, store.accepted - done)
         IN  /\ unsigned = Run(done, done + taken)
             /\ store.accepted <= txn.accepted
             /\ Waiting(txn, done + taken)

OnceInv == MemoryInv /\ WithdrawalsInv

\* The numbers that the invariant speaks of.
LEMMA OnceTyped ==
    ASSUME OnceInv
    PROVE  LET done == Len(signed)
               taken == Ledger!Smaller(WITHDRAWAL_TRANSACTIONS_QUERY_LIMIT,
                                       store.accepted - done)
           IN  /\ store \in State /\ txn \in State /\ signed \in Seq(Nat)
               /\ store.accepted \in Nat /\ txn.accepted \in Nat
               /\ done \in Nat /\ done <= store.accepted
               /\ taken \in Nat /\ done + taken \in Nat /\ done + taken <= store.accepted
<1>1. /\ store \in State /\ txn \in State /\ signed \in Seq(Nat)
      /\ store.accepted \in Nat /\ txn.accepted \in Nat
  BY DEF OnceInv, MemoryInv, TypeOK, State
<1>2. Len(signed) \in Nat /\ Len(signed) <= store.accepted
  BY DEF OnceInv, WithdrawalsInv, Waiting
<1> QED BY <1>1, <1>2, LimitAssumption DEF Ledger!Smaller

\* Nothing waits and nothing was signed at the start.
LEMMA OnceInit == Init => OnceInv
<1> SUFFICES ASSUME Init PROVE OnceInv OBVIOUS
<1>1. MemoryInv BY MemoryInit
<1>2. store.accepted = 0 /\ store.queue = {} /\ signed = <<>> /\ phase = "idle"
  BY DEF Init, InitialState
<1>3. Len(signed) = 0 BY <1>2
<1>4. Pairs(0, 0) = {} BY DEF Pairs
<1>5. Run(0, 0) = <<>> BY DEF Run
<1> QED BY <1>1, <1>2, <1>3, <1>4, <1>5 DEF OnceInv, WithdrawalsInv, Waiting, Working

\* init_chain is repeated only before anything was accepted.
LEMMA OnceInitChain == OnceInv /\ InitChain => WithdrawalsInv'
<1> SUFFICES ASSUME OnceInv, InitChain PROVE WithdrawalsInv' OBVIOUS
<1>1. store.accepted = 0 BY DEF OnceInv, WithdrawalsInv, InitChain
<1>2. Len(signed) = 0 BY <1>1, OnceTyped
<1>3. store' = InitialState /\ signed' = signed /\ phase' = "idle" BY DEF InitChain
<1>4. store'.accepted = 0 /\ store'.queue = {} BY <1>3 DEF InitialState
<1>5. Pairs(0, 0) = {} BY DEF Pairs
<1>6. signed' = Run(0, Len(signed')) BY <1>3 DEF OnceInv, WithdrawalsInv
<1>7. Waiting(store', Len(signed')) BY <1>2, <1>3, <1>4, <1>5 DEF Waiting
<1> QED BY <1>3, <1>4, <1>6, <1>7 DEF WithdrawalsInv, Working

\* block_begin moves the first withdrawals of the queue to the answer.
LEMMA OnceBlockBegin == OnceInv /\ BlockBegin => WithdrawalsInv'
<1> SUFFICES ASSUME OnceInv, BlockBegin PROVE WithdrawalsInv' OBVIOUS
<1> DEFINE done == Len(signed)
           taken == Ledger!Smaller(WITHDRAWAL_TRANSACTIONS_QUERY_LIMIT, store.accepted - done)
<1>1. /\ store \in State /\ store.accepted \in Nat
      /\ done \in Nat /\ done <= store.accepted
      /\ taken \in Nat /\ done + taken \in Nat /\ done + taken <= store.accepted
  BY OnceTyped
<1>2. txn = store /\ store' = store /\ signed' = signed /\ phase' = "deliver"
  BY DEF OnceInv, MemoryInv, BlockInv, BlockBegin
<1>3. txn.queue = Pairs(done, store.accepted)
  BY <1>2 DEF OnceInv, WithdrawalsInv, Waiting
<1>4. /\ Dequeued(txn.queue) = Pairs(done, done + taken)
      /\ txn.queue \ Dequeued(txn.queue) = Pairs(done + taken, store.accepted)
  <2>1. \E m \in done..store.accepted :
              /\ m = done + taken
              /\ Dequeued(Pairs(done, store.accepted)) = Pairs(done, m)
              /\ Pairs(done, store.accepted) \ Dequeued(Pairs(done, store.accepted))
                    = Pairs(m, store.accepted)
    BY <1>1, DequeuedPairs
  <2> QED BY <1>3, <2>1
<1>5. unsigned' = Run(done, done + taken)
  <2>1. unsigned' = InOrder(Pairs(done, done + taken)) BY <1>4 DEF BlockBegin
  <2>2. done <= done + taken BY <1>1
  <2> QED BY <1>1, <2>1, <2>2, InOrderPairs DEF Run
<1>6. txn'.accepted = store.accepted /\ txn'.queue = txn.queue \ Dequeued(txn.queue)
  BY <1>1, <1>2 DEF BlockBegin, AfterBegin, State
<1> HIDE DEF taken
<1>7. Waiting(txn', done + taken) BY <1>1, <1>4, <1>6 DEF Waiting
<1>8. store'.accepted <= txn'.accepted BY <1>1, <1>2, <1>6
<1> QED BY <1>2, <1>5, <1>7, <1>8 DEF OnceInv, WithdrawalsInv, taken

\* A withdrawal under the next index is the last of the queue.
LEMMA OnceEnqueue ==
    ASSUME KeyStep = 1
    PROVE  OnceInv /\ EnqueueWithdrawal => WithdrawalsInv'
<1> SUFFICES ASSUME OnceInv, EnqueueWithdrawal PROVE WithdrawalsInv' OBVIOUS
<1> DEFINE done == Len(signed)
           taken == Ledger!Smaller(WITHDRAWAL_TRANSACTIONS_QUERY_LIMIT, store.accepted - done)
<1>1. /\ txn \in State /\ store.accepted \in Nat /\ txn.accepted \in Nat
      /\ taken \in Nat /\ done + taken \in Nat /\ done + taken <= store.accepted
  BY OnceTyped
<1>2. /\ store' = store /\ signed' = signed /\ unsigned' = unsigned
      /\ phase = "deliver" /\ phase' = phase
  BY DEF EnqueueWithdrawal
<1>3. /\ unsigned = Run(done, done + taken) /\ store.accepted <= txn.accepted
      /\ Waiting(txn, done + taken)
  BY <1>2 DEF OnceInv, WithdrawalsInv, Working
<1>4. txn.counter = txn.accepted
  BY DEF OnceInv, MemoryInv, BlockInv, QueueShape
<1> HIDE DEF taken, done
<1>5. /\ txn'.accepted = txn.accepted + 1
      /\ txn'.queue = Put(txn.queue, txn.accepted + 1, txn.accepted + 1)
  BY <1>1, <1>4 DEF EnqueueWithdrawal, EnqueueKey, State
<1>6. txn'.queue = Pairs(done + taken, txn.accepted + 1)
  <2>1. txn.queue = Pairs(done + taken, txn.accepted) /\ done + taken <= txn.accepted
    BY <1>3 DEF Waiting
  <2> QED BY <1>1, <1>5, <2>1, PutPairs
<1>7. Waiting(txn', done + taken)
  BY <1>1, <1>3, <1>5, <1>6 DEF Waiting
<1>8. store'.accepted <= txn'.accepted BY <1>1, <1>2, <1>3, <1>5
<1> QED BY <1>2, <1>3, <1>7, <1>8 DEF OnceInv, WithdrawalsInv, Working, taken, done

\* block_end leaves the withdrawals alone.
LEMMA OnceBlockEnd ==
    ASSUME NEW fails \in BOOLEAN
    PROVE  OnceInv /\ BlockEnd(fails) => WithdrawalsInv'
<1> SUFFICES ASSUME OnceInv, BlockEnd(fails) PROVE WithdrawalsInv' OBVIOUS
<1>1. txn \in State BY OnceTyped
<1>2. /\ store' = store /\ signed' = signed /\ unsigned' = unsigned
      /\ phase = "deliver" /\ phase' \in {"failed", "ended"}
      /\ txn'.accepted = txn.accepted /\ txn'.queue = txn.queue
  BY <1>1 DEF BlockEnd, State
<1> QED BY <1>2 DEF OnceInv, WithdrawalsInv, Working, Waiting

\* A committed block: what was handed out joins what was signed.
LEMMA OnceCommitted ==
    ASSUME OnceInv, Commit
    PROVE  LET done == Len(signed)
               taken == Ledger!Smaller(WITHDRAWAL_TRANSACTIONS_QUERY_LIMIT,
                                       store.accepted - done)
           IN  /\ signed' = Run(0, done + taken)
               /\ Len(signed') = done + taken
               /\ unsigned = Run(done, done + taken)
               /\ store'.accepted = txn.accepted /\ store'.queue = txn.queue
               /\ store.accepted <= store'.accepted
               /\ Waiting(store', done + taken)
<1> DEFINE done == Len(signed)
           taken == Ledger!Smaller(WITHDRAWAL_TRANSACTIONS_QUERY_LIMIT, store.accepted - done)
<1>1. /\ txn \in State /\ done \in Nat
      /\ taken \in Nat /\ done + taken \in Nat
  BY OnceTyped
<1>2. store'.accepted = txn.accepted /\ store'.queue = txn.queue
  BY <1>1 DEF Commit, State
<1>3. /\ unsigned = Run(done, done + taken) /\ store.accepted <= txn.accepted
      /\ Waiting(txn, done + taken) /\ signed = Run(0, done)
  BY DEF OnceInv, WithdrawalsInv, Working, Commit
<1> HIDE DEF taken, done
<1>4. Waiting(store', done + taken) BY <1>2, <1>3 DEF Waiting
<1>5. signed' = Run(0, done) \o Run(done, done + taken) BY <1>3 DEF Commit
<1>6. 0 <= done /\ done <= done + taken /\ 0 \in Nat /\ 0 <= done + taken BY <1>1
<1>7. signed' = Run(0, done + taken) BY <1>1, <1>5, <1>6, RunJoined
<1>8. Len(signed') = done + taken
  <2>1. Len(Run(0, done + taken)) = done + taken - 0 BY <1>1, <1>6, RunLength
  <2> QED BY <1>1, <1>7, <2>1
<1> QED BY <1>2, <1>3, <1>4, <1>7, <1>8 DEF done, taken

\* A commit makes the queue of the transaction the stored one.
LEMMA OnceCommit == OnceInv /\ Commit => WithdrawalsInv'
<1> SUFFICES ASSUME OnceInv, Commit PROVE WithdrawalsInv' OBVIOUS
<1>1. /\ signed' = Run(0, Len(signed')) /\ Waiting(store', Len(signed'))
  BY OnceCommitted
<1>2. store'.height # 0
  BY DEF OnceInv, MemoryInv, TypeOK, State, BlockInv, Block, Commit
<1>3. phase' = "idle" BY DEF Commit
<1> QED BY <1>1, <1>2, <1>3 DEF WithdrawalsInv, Working

\* The invariant is inductive when each withdrawal has a key of its own.
LEMMA OnceStep ==
    ASSUME KeyStep = 1
    PROVE  OnceInv /\ [Next]_vars => OnceInv'
<1> SUFFICES ASSUME OnceInv, [Next]_vars PROVE OnceInv' OBVIOUS
<1>1. MemoryInv' BY MemoryStep DEF OnceInv
<1>2. CASE UNCHANGED vars
  BY <1>1, <1>2 DEF vars, OnceInv, WithdrawalsInv, Working
<1>3. ASSUME NEW time \in 0..MaxTime, StartBlock(time) PROVE WithdrawalsInv'
  BY <1>3 DEF OnceInv, WithdrawalsInv, Working, StartBlock
<1>4. ASSUME BlockBeginFails PROVE WithdrawalsInv'
  BY <1>4 DEF OnceInv, WithdrawalsInv, Working, BlockBeginFails
<1>5. ASSUME Abort PROVE WithdrawalsInv'
  BY <1>5 DEF OnceInv, WithdrawalsInv, Working, Abort
<1>6. ASSUME Crash PROVE WithdrawalsInv'
  BY <1>6 DEF OnceInv, WithdrawalsInv, Working, Crash
<1>7. CASE Next
  <2>1. WithdrawalsInv'
    BY <1>3, <1>4, <1>5, <1>6, <1>7, OnceInitChain, OnceBlockBegin, OnceEnqueue,
       OnceBlockEnd, OnceCommit DEF Next
  <2> QED BY <1>1, <2>1 DEF OnceInv
<1> QED BY <1>2, <1>7

\* The invariant implies what the runs check.
LEMMA OnceMeans == OnceInv => WithdrawalsOnce
<1> SUFFICES ASSUME OnceInv PROVE WithdrawalsOnce OBVIOUS
<1>1. Len(signed) \in Nat /\ store.accepted \in Nat BY OnceTyped
<1>2. signed = [n \in 1..Len(signed) |-> n]
  <2>1. signed = Run(0, Len(signed)) BY DEF OnceInv, WithdrawalsInv
  <2>2. Run(0, Len(signed)) = [n \in 1..Len(signed) |-> n] BY <1>1 DEF Run
  <2> QED BY <2>1, <2>2
<1>3. store.queue = Pairs(Len(signed), store.accepted)
  BY DEF OnceInv, WithdrawalsInv, Waiting
<1> QED BY <1>1, <1>2, <1>3, QueuedPairs DEF WithdrawalsOnce

\* With a new key for every withdrawal, each one is handed out for signing exactly
\* once and in order, over failed blocks and restarts, for any limit of the query
\* (dequeue_withdrawal_transactions).  Under the latest index itself (KeyStep = 0)
\* it does not hold: run withdrawal_lost.
THEOREM WithdrawalsOnceOnly ==
    ASSUME KeyStep = 1
    PROVE  Spec => []WithdrawalsOnce
<1>1. OnceInv /\ [Next]_vars => OnceInv' BY OnceStep
<1>2. Spec => []OnceInv
  BY OnceInit, <1>1, PTL DEF Spec
<1> QED BY <1>2, OnceMeans, PTL

-----------------------------------------------------------------------------

\* Initial states map to the initial ledger.
LEMMA LedgerInit == Init => Ledger!Init
<1> SUFFICES ASSUME Init PROVE Ledger!Init OBVIOUS
<1>1. store.height = 0 /\ store.epoch = 0 /\ store.queue = {} /\ signed = <<>>
  BY DEF Init, InitialState
<1> QED BY <1>1, EmptyQueue DEF Ledger!Init

\* A commit is a block of the ledger.
LEMMA LedgerCommit == OnceInv /\ OnceInv' /\ Commit => Ledger!Next
<1> SUFFICES ASSUME OnceInv, OnceInv', Commit PROVE Ledger!Next OBVIOUS
<1> DEFINE s == Len(signed)
           a == store.accepted
           b == store'.accepted
           t == Ledger!Smaller(WITHDRAWAL_TRANSACTIONS_QUERY_LIMIT, a - s)
           w == InOrder(store.queue)
           v == InOrder(store'.queue)
<1>1. /\ s \in Nat /\ a \in Nat /\ s <= a /\ t \in Nat /\ s + t \in Nat /\ s + t <= a
      /\ signed \in Seq(Nat)
  BY OnceTyped
<1>2. b \in Nat /\ Len(signed') \in Nat
  BY DEF OnceInv, MemoryInv, TypeOK, State
<1>3. /\ signed' = Run(0, s + t) /\ Len(signed') = s + t /\ unsigned = Run(s, s + t)
      /\ a <= b /\ Waiting(store', s + t)
  BY OnceCommitted
<1>4. w = Run(s, a)
  <2>1. store.queue = Pairs(s, a) BY DEF OnceInv, WithdrawalsInv, Waiting
  <2> QED BY <1>1, <2>1, InOrderPairs DEF Run
<1>5. v = Run(s + t, b) /\ s + t <= b
  <2>1. store'.queue = Pairs(s + t, b) /\ s + t <= b BY <1>3 DEF Waiting
  <2> QED BY <1>1, <1>2, <2>1, InOrderPairs DEF Run
<1>6. Len(w) = a - s /\ Len(v) = b - (s + t)
  BY <1>1, <1>2, <1>4, <1>5, RunLength
<1>7. Len(v) + Len(signed') - Len(w) - Len(signed) = b - a
  <2> HIDE DEF a, b, t, w, v
  <2> QED BY <1>1, <1>2, <1>3, <1>6 DEF s
<1>8. store'.height = store.height + 1 /\ store'.epoch = txn.epoch /\ store'.epoch \in Nat
  BY DEF OnceInv, MemoryInv, TypeOK, State, BlockInv, Block, Commit
<1>9. IF store.height = 0 THEN store'.epoch = 0 ELSE store'.epoch >= store.epoch
  <2>1. EpochChangesAnnounced BY MemoryMeans DEF OnceInv, MemoryCoherent
  <2>2. phase = "ended" /\ txn.epoch = context.info.epoch
    BY DEF OnceInv, MemoryInv, BegunInv, Commit
  <2> QED BY <1>8, <2>1, <2>2 DEF EpochChangesAnnounced
<1>10. signed' = signed \o SubSeq(w, 1, t)
  <2>1. s <= s + t /\ (s + t) - s = t BY <1>1
  <2>2. SubSeq(w, 1, (s + t) - s) = Run(s, s + t)
    <3> HIDE DEF s, a, t, w
    <3> QED BY <1>1, <1>4, <2>1, RunSplit
  <2>3. signed' = signed \o unsigned BY DEF Commit
  <2> QED BY <1>3, <2>1, <2>2, <2>3
<1>11. v = SubSeq(w, t + 1, Len(w)) \o [i \in 1..(b - a) |-> (s + Len(w)) + i]
  <2>1. s <= s + t /\ (s + t) - s = t /\ Len(w) = a - s /\ s + Len(w) = a BY <1>1, <1>6
  <2>2. SubSeq(w, (s + t) - s + 1, a - s) = Run(s + t, a)
    <3> HIDE DEF s, a, t, w
    <3> QED BY <1>1, <1>4, <2>1, RunSplit
  <2>3. SubSeq(w, t + 1, Len(w)) = Run(s + t, a) BY <2>1, <2>2
  <2>4. [i \in 1..(b - a) |-> (s + Len(w)) + i] = Run(a, b) BY <2>1 DEF Run
  <2>5. Run(s + t, a) \o Run(a, b) = Run(s + t, b) BY <1>1, <1>2, <1>3, RunJoined
  <2> QED BY <1>5, <2>3, <2>4, <2>5
<1>12. Ledger!Smaller(WITHDRAWAL_TRANSACTIONS_QUERY_LIMIT, Len(w)) = t
  BY <1>6
<1>13. Ledger!CommitBlock(b - a)
  BY <1>8, <1>9, <1>10, <1>11, <1>12 DEF Ledger!CommitBlock
<1> QED BY <1>7, <1>13 DEF Ledger!Next

\* Every other step leaves the ledger alone.
LEMMA LedgerStep ==
    ASSUME KeyStep = 1
    PROVE  OnceInv /\ OnceInv' /\ [Next]_vars => [Ledger!Next]_(Ledger!ledger)
<1> SUFFICES ASSUME OnceInv, OnceInv', [Next]_vars PROVE [Ledger!Next]_(Ledger!ledger)
  OBVIOUS
<1>1. ASSUME store' = store, signed' = signed PROVE UNCHANGED Ledger!ledger
  BY <1>1 DEF Ledger!ledger
<1>2. CASE InitChain
  <2>1. store.height = 0 /\ store' = InitialState /\ signed' = signed
    BY <1>2 DEF InitChain
  <2>2. store.epoch = 0 /\ store.accepted = 0
    BY <2>1 DEF OnceInv, MemoryInv, StoreInv, WithdrawalsInv
  <2>3. store.queue = {}
    BY <2>2, OnceTyped DEF OnceInv, WithdrawalsInv, Waiting, Pairs
  <2>4. store'.height = 0 /\ store'.epoch = 0 /\ store'.queue = {}
    BY <2>1 DEF InitialState
  <2> QED BY <2>1, <2>2, <2>3, <2>4 DEF Ledger!ledger
<1>3. CASE Commit
  BY <1>3, LedgerCommit
<1>4. CASE /\ Next /\ ~ InitChain /\ ~ Commit
  <2>1. store' = store /\ signed' = signed
    BY <1>4 DEF Next, StartBlock, BlockBegin, BlockBeginFails, BlockEnd, EnqueueWithdrawal,
                Abort, Crash
  <2> QED BY <1>1, <2>1
<1>5. CASE UNCHANGED vars
  BY <1>1, <1>5 DEF vars
<1> QED BY <1>2, <1>3, <1>4, <1>5

\* The handlers implement BlockLedger: the committed state moves from one whole
\* block to the next, hands out the oldest withdrawals first, adds new ones at the
\* end and never goes back to an earlier epoch (block_begin, block_end, commit).
THEOREM BlocksImplementLedger ==
    ASSUME KeyStep = 1
    PROVE  Spec => LedgerSpec
<1>1. OnceInv /\ [Next]_vars => OnceInv' BY OnceStep
<1>2. Spec => []OnceInv
  BY OnceInit, <1>1, PTL DEF Spec
<1>3. OnceInv /\ OnceInv' /\ [Next]_vars => [Ledger!Next]_(Ledger!ledger) BY LedgerStep
<1> QED BY <1>2, <1>3, LedgerInit, PTL DEF Spec, LedgerSpec, Ledger!Spec
=============================================================================
