----------------------------- MODULE Identities -----------------------------
(***************************************************************************)
(* Identities and the state transitions that change them (dpp/src/identity *)
(* and dpp/src/state_transition): create and top up, paid by an asset lock *)
(* of the payment chain, update of the public keys, and withdrawal of      *)
(* credits.                                                                *)
(*                                                                         *)
(* State transitions come from the network: any of them, made from any     *)
(* state, may be delivered at any time, late, out of order and again and   *)
(* again.  One step is one delivery that passes all validators (structure, *)
(* signature, fee, state) and is applied; a rejected delivery changes      *)
(* nothing.  The caller delivers state transitions one after the other.    *)
(*                                                                         *)
(* The id of an identity is a hash of the out point that paid for its      *)
(* creation, so the model names an identity by that out point.             *)
(***************************************************************************)
EXTENDS Integers, FiniteSets, Sequences, SequencesExt, FiniteSetsExt

CONSTANTS
  NoIdentity,       \* no identity is stored under an id
  Enabled,          \* a key without a disabledAt property
  OutPoints,        \* outputs of asset lock transactions
  Satoshis,         \* the value of each output
  InstantLocked,    \* out points whose instant lock verifies
  TxHeight,         \* core height of the transaction of each out point
  KeyIds,           \* ids a key may have
  KeyData,          \* key material
  KeyLists,         \* lists of keys a transition may carry
  Amounts,          \* credits a withdrawal may ask for
  Times,            \* block times and disabledAt times
  RATIO,            \* 1000 credits for one satoshi
  MIN_WITHDRAWAL,   \* 1000 credits
  MIN_FEE,          \* the least fee of a state transition
  MAX_KEYS,         \* 32: maxItems of an identity's public keys
  BLOCK_TIME_WINDOW,
  MaxCoreHeight,    \* bound: core chain heights
  MaxDelivered      \* bound: state transitions applied

Purposes == {"AUTHENTICATION", "ENCRYPTION", "DECRYPTION", "WITHDRAW"}
KeyTypes == {"ECDSA_SECP256K1", "BLS12_381", "ECDSA_HASH160", "BIP13_SCRIPT_HASH"}
MASTER == 0
CRITICAL == 1
HIGH == 2
MEDIUM == 3

PublicKey == [id : KeyIds, data : KeyData, type : KeyTypes, purpose : Purposes,
              level : MASTER .. MEDIUM, readOnly : BOOLEAN,
              disabledAt : Times \cup {Enabled}]

Identity == [keys : Seq(PublicKey), balance : Nat, revision : Nat]

ASSUME OutPointAssumption == /\ IsFiniteSet(OutPoints)
                             /\ Satoshis \in [OutPoints -> Nat]
                             /\ TxHeight \in [OutPoints -> Nat]
                             /\ InstantLocked \subseteq OutPoints
ASSUME KeyAssumption == /\ KeyIds \subseteq Nat
                        /\ \A ks \in KeyLists :
                             /\ ks \in Seq(PublicKey)
                             /\ \A i \in DOMAIN ks : ks[i].disabledAt = Enabled
                        /\ MAX_KEYS \in Nat \ {0}
ASSUME CreditAssumption == /\ RATIO \in Nat \ {0}
                           /\ MIN_WITHDRAWAL \in Nat /\ MIN_FEE \in Nat
                           /\ Amounts \subseteq Nat
ASSUME TimeAssumption == /\ Times \subseteq Nat /\ Times # {} /\ Enabled \notin Times
                         /\ BLOCK_TIME_WINDOW \in Nat
                         /\ \A t \in Times : t >= BLOCK_TIME_WINDOW
ASSUME BoundAssumption == MaxCoreHeight \in Nat /\ MaxDelivered \in Nat
ASSUME IdentityAssumption == NoIdentity \notin Identity

VARIABLES
  identities,      \* stored identities, by the out point of their creation
  usedOutPoints,   \* the spent list of asset lock out points
  keyHashes,       \* pairs of key material and identity, by public key hash
  withdrawals,     \* satoshis of the withdrawal transactions, in order
  blockTime,       \* time of the latest platform block header
  coreHeight,      \* its core chain locked height
  delivered        \* number of state transitions applied

stored == <<identities, usedOutPoints, keyHashes, withdrawals>>
header == <<blockTime, coreHeight>>
vars == <<stored, header, delivered>>

Existing == {o \in OutPoints : identities[o] # NoIdentity}

-----------------------------------------------------------------------------
(* Credits.                                                                *)

ConvertSatoshiToCredits(s) == s * RATIO

ConvertCreditsToSatoshi(c) == c \div RATIO

\* StateTransitionFeeValidator: what the identity will have covers the fee.
FeeCovered(balance) == balance >= MIN_FEE

-----------------------------------------------------------------------------
(* Asset lock proofs.                                                      *)

Proofs(o) == {[type |-> "instant", outPoint |-> o]}
             \cup [type : {"chain"}, outPoint : {o}, height : 0 .. MaxCoreHeight]

\* AssetLockTransactionValidator: the out point is not in the spent list.
OutPointUnused(o) == o \notin usedOutPoints

InstantProofValid(p) == p.outPoint \in InstantLocked /\ OutPointUnused(p.outPoint)

\* The proof's height is locked already and not before the transaction.
ChainProofValid(p) ==
  /\ p.height <= coreHeight
  /\ TxHeight[p.outPoint] <= p.height
  /\ OutPointUnused(p.outPoint)

\* AssetLockProofValidator
ProofValid(p) == IF p.type = "instant" THEN InstantProofValid(p) ELSE ChainProofValid(p)

\* The credits of the output a proof names.
LockedCredits(o) == ConvertSatoshiToCredits(Satoshis[o])

-----------------------------------------------------------------------------
(* Public keys.                                                            *)

AllowedSecurityLevels ==
  [p \in Purposes |-> IF p = "AUTHENTICATION" THEN MASTER .. MEDIUM
                      ELSE IF p = "WITHDRAW" THEN {CRITICAL} ELSE {MEDIUM}]

NoDuplicatedIds(keys) == \A i, j \in DOMAIN keys : keys[i].id = keys[j].id => i = j
NoDuplicatedKeys(keys) == \A i, j \in DOMAIN keys : keys[i].data = keys[j].data => i = j

\* PublicKeysValidator, on the keys a transition carries.
KeysValid(keys) ==
  /\ NoDuplicatedIds(keys)
  /\ NoDuplicatedKeys(keys)
  /\ \A i \in DOMAIN keys : keys[i].level \in AllowedSecurityLevels[keys[i].purpose]

IsEnabled(k) == k.disabledAt = Enabled
IsMaster(k) == k.purpose = "AUTHENTICATION" /\ k.level = MASTER

\* RequiredPurposeAndSecurityLevelValidator
HasMasterKey(keys) == \E i \in DOMAIN keys : IsEnabled(keys[i]) /\ IsMaster(keys[i])

\* IdentityUpdatePublicKeysValidator
StoredKeysValid(keys) ==
  Len(keys) <= MAX_KEYS /\ NoDuplicatedIds(keys) /\ NoDuplicatedKeys(keys)

\* The place get_public_key_by_id finds a key at: the first with that id.
Places(keys, id) == {i \in DOMAIN keys :
                       keys[i].id = id /\ \A j \in DOMAIN keys : j < i => keys[j].id # id}

Disabled(keys, ids, at) ==
  [i \in DOMAIN keys |-> IF \E id \in ids : i \in Places(keys, id)
                         THEN [keys[i] EXCEPT !.disabledAt = at] ELSE keys[i]]

\* verify_public_key_level_and_purpose: a master key signs only what needs
\* one.  Whether the key is still enabled is not looked at.
LevelAndPurposeMet(k, required) ==
  /\ k.level = MASTER => required = MASTER
  /\ k.level <= required
  /\ k.purpose = "AUTHENTICATION"

\* validate_state_transition_identity_signature: key number id verifies the
\* signature of a transition that needs security level required.
SignedBy(keys, id, required) ==
  \E i \in Places(keys, id) : /\ keys[i].type # "BIP13_SCRIPT_HASH"
                              /\ LevelAndPurposeMet(keys[i], required)

StoredHashes(o, keys) == {<<keys[i].data, o>> : i \in DOMAIN keys}

-----------------------------------------------------------------------------
(* Identity create.                                                        *)

CreateBasicValid(p, keys) ==
  /\ Len(keys) > 0
  /\ KeysValid(keys)
  /\ HasMasterKey(keys)
  /\ ProofValid(p)

CreateStateValid(o) == o \notin Existing

IdentityCreate(o, p, keys) ==
  /\ CreateBasicValid(p, keys)
  /\ FeeCovered(LockedCredits(o))
  /\ CreateStateValid(o)
  /\ identities' = [identities EXCEPT ![o] =
                      [keys |-> keys, balance |-> LockedCredits(o), revision |-> 0]]
  /\ keyHashes' = keyHashes \cup StoredHashes(o, keys)
  /\ usedOutPoints' = usedOutPoints \cup {o}
  /\ UNCHANGED withdrawals

-----------------------------------------------------------------------------
(* Identity top up: identity id gets the credits locked by out point o.    *)

\* validate_state_transition_key_signature: the identity exists.
TargetExists(id) == id \in Existing

TopUpValid(id, o, p) ==
  /\ ProofValid(p)
  /\ TargetExists(id)
  /\ FeeCovered(LockedCredits(o) + identities[id].balance)

\* Mutant: the out point is not added to the spent list.
IdentityTopUp_NotMarked(id, o, p) ==
  /\ TopUpValid(id, o, p)
  /\ identities' = [identities EXCEPT ![id].balance = @ + LockedCredits(o)]
  /\ UNCHANGED <<usedOutPoints, keyHashes, withdrawals>>

IdentityTopUp(id, o, p) ==
  /\ TopUpValid(id, o, p)
  /\ identities' = [identities EXCEPT ![id].balance = @ + LockedCredits(o)]
  /\ usedOutPoints' = usedOutPoints \cup {o}
  /\ UNCHANGED <<keyHashes, withdrawals>>

-----------------------------------------------------------------------------
(* Identity update: t names the identity, its revision, the key that       *)
(* signed, the keys to add and the ids of the keys to disable.             *)

Updates == [id : OutPoints, revision : 0 .. MaxDelivered, signedBy : KeyIds, add : KeyLists,
            disable : SUBSET KeyIds, disabledAt : Times]

UpdateBasicValid(t) == (t.add # <<>> \/ t.disable # {}) /\ KeysValid(t.add)

InBlockTimeWindow(time) ==
  time \in (blockTime - BLOCK_TIME_WINDOW) .. (blockTime + BLOCK_TIME_WINDOW)

\* Mutant: read only keys can be disabled as well.
MayDisable_ReadOnly(keys, id) ==
  \E i \in Places(keys, id) : IsEnabled(keys[i])

\* A key to disable exists, is not read only and not disabled yet.
MayDisable(keys, id) ==
  \E i \in Places(keys, id) : ~keys[i].readOnly /\ IsEnabled(keys[i])

\* Mutant: the check sees the keys as they are stored.
KeysChecked_Stored(t) == identities[t.id].keys

\* The keys the state validator checks: after disabling, before adding.
KeysChecked(t) == Disabled(identities[t.id].keys, t.disable, t.disabledAt)

\* The revision is unsigned: 0 has no predecessor a revision could equal.
RevisionValid(t) == t.revision = identities[t.id].revision + 1

UpdateStateValid(t) ==
  /\ t.id \in Existing
  /\ RevisionValid(t)
  /\ \A k \in t.disable : MayDisable(identities[t.id].keys, k)
  /\ t.disable # {} => InBlockTimeWindow(t.disabledAt)
  /\ t.add # <<>> => StoredKeysValid(KeysChecked(t))
  /\ HasMasterKey(KeysChecked(t))

UpdateValid(t) ==
  /\ UpdateBasicValid(t)
  /\ t.id \in Existing
  /\ SignedBy(identities[t.id].keys, t.signedBy, MASTER)
  /\ FeeCovered(identities[t.id].balance)
  /\ UpdateStateValid(t)

HashesAfterUpdate(t) == keyHashes \cup StoredHashes(t.id, t.add)

UpdatedIdentity(t) ==
  LET old == identities[t.id]
  IN [keys |-> Disabled(old.keys, t.disable, t.disabledAt) \o t.add,
      balance |-> old.balance, revision |-> t.revision]

IdentityUpdate(t) ==
  /\ UpdateValid(t)
  /\ identities' = [identities EXCEPT ![t.id] = UpdatedIdentity(t)]
  /\ keyHashes' = HashesAfterUpdate(t)
  /\ UNCHANGED <<usedOutPoints, withdrawals>>

-----------------------------------------------------------------------------
(* Withdrawal of credits to the payment chain.                             *)

\* Schema, core fee and output script; only the amount matters below.
WithdrawalBasicValid(amount) == amount >= MIN_WITHDRAWAL

WithdrawalStateValid(id, amount) ==
  id \in Existing /\ identities[id].balance >= amount

\* The withdrawal transaction is queued, then the balance reduced.
CreditWithdrawal(id, amount, signedBy) ==
  /\ WithdrawalBasicValid(amount)
  /\ WithdrawalStateValid(id, amount)
  /\ SignedBy(identities[id].keys, signedBy, HIGH)
  /\ withdrawals' = Append(withdrawals, ConvertCreditsToSatoshi(amount))
  /\ identities' = [identities EXCEPT ![id].balance = @ - amount]
  /\ UNCHANGED <<usedOutPoints, keyHashes>>

-----------------------------------------------------------------------------
Init ==
  /\ identities = [o \in OutPoints |-> NoIdentity]
  /\ usedOutPoints = {}
  /\ keyHashes = {}
  /\ withdrawals = <<>>
  /\ blockTime \in {t \in Times : \A u \in Times : t <= u}
  /\ coreHeight = 0
  /\ delivered = 0

Deliver ==
  /\ delivered < MaxDelivered
  /\ delivered' = delivered + 1
  /\ UNCHANGED header
  /\ \/ \E o \in OutPoints, keys \in KeyLists :
          \E p \in Proofs(o) : IdentityCreate(o, p, keys)
     \/ \E id, o \in OutPoints : \E p \in Proofs(o) : IdentityTopUp(id, o, p)
     \/ \E t \in Updates : IdentityUpdate(t)
     \/ \E id \in OutPoints, amount \in Amounts, k \in KeyIds :
          CreditWithdrawal(id, amount, k)

\* A platform block is finished; its header is the latest one from now on.
NewBlock ==
  /\ blockTime' \in {t \in Times : t >= blockTime}
  /\ coreHeight' \in coreHeight .. MaxCoreHeight
  /\ UNCHANGED <<stored, delivered>>

Next == Deliver \/ NewBlock

Spec == Init /\ [][Next]_vars

-----------------------------------------------------------------------------
(* Properties.                                                             *)

\* Types of the state: in particular no balance, a u64, ever goes below zero
\* (reduce_balance subtracts what validate_..._withdrawal_state compared).
TypeOK ==
  /\ identities \in [OutPoints -> Identity \cup {NoIdentity}]
  /\ usedOutPoints \subseteq OutPoints
  /\ keyHashes \subseteq KeyData \X OutPoints
  /\ withdrawals \in Seq(Nat)
  /\ blockTime \in Times
  /\ coreHeight \in 0 .. MaxCoreHeight
  /\ delivered \in 0 .. MaxDelivered

\* An identity never loses its last enabled master key, in whatever order
\* keys are added and disabled: without one it could never be updated again
\* (validate_identity_update_transition_state).
MasterKeyRemains == \A o \in Existing : HasMasterKey(identities[o].keys)

\* Credits come from asset locks and nowhere else, however proofs of either
\* kind for one out point are repeated between create and top up: balances
\* and withdrawn satoshis are covered by the out points spent, and no more
\* is missing than the parts of a satoshi the withdrawals cut off.
CreditsBacked ==
  LET locked == ConvertSatoshiToCredits(MapThenSumSet(LAMBDA o : Satoshis[o], usedOutPoints))
      held == MapThenSumSet(LAMBDA o : identities[o].balance, Existing)
      paidOut == ConvertSatoshiToCredits(FoldSeq(LAMBDA s, sum : s + sum, 0, withdrawals))
  IN /\ held + paidOut <= locked
     /\ locked <= held + paidOut + (RATIO - 1) * Len(withdrawals)

\* Every key of a stored identity can be found by its hash, and every
\* stored hash belongs to a key of the identity it names
\* (store_identity_public_key_hashes after create and update).
KeyHashesMatch ==
  keyHashes = UNION {StoredHashes(o, identities[o].keys) : o \in Existing}

\* What may become of a list of keys, and of a stored identity.
KeysGrown(old, new) ==
  /\ Len(old) <= Len(new)
  /\ \A i \in DOMAIN old :
       \/ new[i] = old[i]
       \/ /\ IsEnabled(old[i]) /\ ~old[i].readOnly
          /\ ~IsEnabled(new[i])
          /\ [new[i] EXCEPT !.disabledAt = Enabled] = old[i]

Grown(old, new) ==
  /\ KeysGrown(old.keys, new.keys)
  /\ new.keys # old.keys => new.revision = old.revision + 1

\* A key is never removed or changed: it only changes from enabled to
\* disabled, once, never when it is read only, and only together with the
\* next revision, so a repeated update finds its revision taken.
KeysOnlyGrow ==
  [][\A o \in Existing : identities'[o] # NoIdentity /\ Grown(identities[o], identities'[o])]_vars

\* Every identity is well typed, keeps an enabled master key, and is found by
\* exactly the hashes of its keys, after any deliveries (the validators and
\* apply functions of the identity state transitions).
IdentitiesInv == TypeOK /\ MasterKeyRemains /\ KeyHashesMatch
=============================================================================
