-------------------------- MODULE IdentitiesProofs --------------------------
(***************************************************************************)
(* Theorems about Identities, for every set of out points, keys, amounts   *)
(* and times and any number of deliveries.                                 *)
(***************************************************************************)
EXTENDS Identities, SequenceTheorems, FiniteSetTheorems, WellFoundedInduction, TLAPS

-----------------------------------------------------------------------------
(* Lists of keys.                                                          *)

\* Disabling keeps the number and the order of the keys and changes nothing
\* but disabledAt, and that only of keys found by one of the ids.
LEMMA DisabledProperties ==
  ASSUME NEW keys \in Seq(PublicKey), NEW ids, NEW at \in Times
  PROVE  /\ Disabled(keys, ids, at) \in Seq(PublicKey)
         /\ Len(Disabled(keys, ids, at)) = Len(keys)
         /\ \A i \in 1 .. Len(keys) :
              Disabled(keys, ids, at)[i] =
                IF \E id \in ids : i \in Places(keys, id)
                THEN [keys[i] EXCEPT !.disabledAt = at] ELSE keys[i]
<1> DEFINE after == Disabled(keys, ids, at)
<1>1. DOMAIN keys = 1 .. Len(keys) /\ Len(keys) \in Nat
  OBVIOUS
<1>2. ASSUME NEW i \in 1 .. Len(keys)
      PROVE  /\ keys[i] \in PublicKey
             /\ [keys[i] EXCEPT !.disabledAt = at] \in PublicKey
  <2>1. keys[i] \in PublicKey
    BY <1>1, ElementOfSeq
  <2> QED BY <2>1 DEF PublicKey
<1>3. after = [i \in 1 .. Len(keys) |-> IF \E id \in ids : i \in Places(keys, id)
                         THEN [keys[i] EXCEPT !.disabledAt = at] ELSE keys[i]]
  BY <1>1 DEF Disabled
<1>4. after \in [1 .. Len(keys) -> PublicKey]
  BY <1>2, <1>3
<1>5. after \in Seq(PublicKey) /\ Len(after) = Len(keys)
  <2> HIDE DEF after
  <2> QED BY <1>1, <1>4
<1> QED BY <1>3, <1>5

\* The materials of a list of keys do not change when keys are disabled.
LEMMA DisabledHashes ==
  ASSUME NEW keys \in Seq(PublicKey), NEW ids, NEW at \in Times, NEW o
  PROVE  StoredHashes(o, Disabled(keys, ids, at)) = StoredHashes(o, keys)
<1> DEFINE after == Disabled(keys, ids, at)
<1>1. after \in Seq(PublicKey) /\ Len(after) = Len(keys)
  BY DisabledProperties
<1>2. DOMAIN after = 1 .. Len(keys) /\ DOMAIN keys = 1 .. Len(keys)
  BY <1>1
<1>3. ASSUME NEW i \in 1 .. Len(keys) PROVE after[i].data = keys[i].data
  <2>1. keys[i] \in PublicKey
    BY <1>2, ElementOfSeq
  <2>2. [keys[i] EXCEPT !.disabledAt = at].data = keys[i].data
    BY <2>1 DEF PublicKey
  <2>3. after[i] = IF \E id \in ids : i \in Places(keys, id)
                   THEN [keys[i] EXCEPT !.disabledAt = at] ELSE keys[i]
    BY DisabledProperties
  <2> HIDE DEF after
  <2> QED BY <2>2, <2>3
<1>4. StoredHashes(o, after) = StoredHashes(o, keys)
  <2> HIDE DEF after
  <2> QED BY <1>2, <1>3 DEF StoredHashes
<1> QED BY <1>4

\* The hashes of two lists one after the other are those of both.
LEMMA ConcatHashes ==
  ASSUME NEW s \in Seq(PublicKey), NEW t \in Seq(PublicKey), NEW o
  PROVE  StoredHashes(o, s \o t) = StoredHashes(o, s) \cup StoredHashes(o, t)
<1>1. /\ DOMAIN s = 1 .. Len(s) /\ Len(s) \in Nat
      /\ DOMAIN t = 1 .. Len(t) /\ Len(t) \in Nat
      /\ DOMAIN (s \o t) = 1 .. (Len(s) + Len(t))
  BY ConcatProperties, LenProperties
<1>2. \A i \in 1 .. (Len(s) + Len(t)) :
        (s \o t)[i] = IF i <= Len(s) THEN s[i] ELSE t[i - Len(s)]
  BY ConcatProperties
<1>3. StoredHashes(o, s \o t) \subseteq StoredHashes(o, s) \cup StoredHashes(o, t)
  <2> SUFFICES ASSUME NEW i \in 1 .. (Len(s) + Len(t))
               PROVE  <<(s \o t)[i].data, o>> \in StoredHashes(o, s) \cup StoredHashes(o, t)
    BY <1>1 DEF StoredHashes
  <2>1. CASE i <= Len(s)
    <3>1. i \in DOMAIN s /\ (s \o t)[i] = s[i]
      BY <1>1, <1>2, <2>1
    <3> QED BY <3>1 DEF StoredHashes
  <2>2. CASE ~(i <= Len(s))
    <3>1. i - Len(s) \in DOMAIN t /\ (s \o t)[i] = t[i - Len(s)]
      BY <1>1, <1>2, <2>2
    <3> QED BY <3>1 DEF StoredHashes
  <2> QED BY <2>1, <2>2
<1>4. StoredHashes(o, s) \subseteq StoredHashes(o, s \o t)
  <2> SUFFICES ASSUME NEW i \in 1 .. Len(s)
               PROVE  <<s[i].data, o>> \in StoredHashes(o, s \o t)
    BY <1>1 DEF StoredHashes
  <2>1. i \in DOMAIN (s \o t) /\ (s \o t)[i] = s[i]
    BY <1>1, <1>2
  <2> QED BY <2>1 DEF StoredHashes
<1>5. StoredHashes(o, t) \subseteq StoredHashes(o, s \o t)
  <2> SUFFICES ASSUME NEW i \in 1 .. Len(t)
               PROVE  <<t[i].data, o>> \in StoredHashes(o, s \o t)
    BY <1>1 DEF StoredHashes
  <2>1. Len(s) + i \in DOMAIN (s \o t) /\ (s \o t)[Len(s) + i] = t[i]
    BY <1>1, <1>2
  <2> QED BY <2>1 DEF StoredHashes
<1> QED BY <1>3, <1>4, <1>5

\* A list that is continued keeps its enabled master key.
LEMMA ConcatMaster ==
  ASSUME NEW s \in Seq(PublicKey), NEW t \in Seq(PublicKey), HasMasterKey(s)
  PROVE  HasMasterKey(s \o t)
<1>1. PICK i \in DOMAIN s : IsEnabled(s[i]) /\ IsMaster(s[i])
  BY DEF HasMasterKey
<1>2. i \in DOMAIN (s \o t) /\ (s \o t)[i] = s[i]
  BY ConcatProperties, LenProperties
<1> QED BY <1>1, <1>2 DEF HasMasterKey

\* get_public_key_by_id finds at most one key.
LEMMA PlacesUnique ==
  ASSUME NEW keys \in Seq(PublicKey), NEW id,
         NEW i \in Places(keys, id), NEW j \in Places(keys, id)
  PROVE  i = j
<1>1. i \in Int /\ j \in Int
  BY DEF Places
<1>2. ~(i < j) /\ ~(j < i)
  BY DEF Places
<1> QED BY <1>1, <1>2
-----------------------------------------------------------------------------
(* Type correctness.                                                       *)

\* A stored identity has the fields of one.
LEMMA ExistingType ==
  ASSUME TypeOK, NEW o \in Existing
  PROVE  /\ o \in OutPoints
         /\ identities[o] \in Identity
         /\ identities[o].keys \in Seq(PublicKey)
         /\ identities[o].balance \in Nat
         /\ identities[o].revision \in Nat
<1>1. o \in OutPoints /\ identities[o] \in Identity
  BY DEF TypeOK, Existing
<1> QED BY <1>1 DEF Identity

\* The lists of keys a transition carries.
LEMMA KeyListType ==
  ASSUME NEW ks \in KeyLists
  PROVE  ks \in Seq(PublicKey)
BY KeyAssumption

\* The hashes of a list of keys are hashes.
LEMMA HashesType ==
  ASSUME NEW ks \in Seq(PublicKey), NEW o \in OutPoints
  PROVE  StoredHashes(o, ks) \subseteq KeyData \X OutPoints
<1>1. \A i \in DOMAIN ks : ks[i] \in PublicKey
  BY ElementOfSeq
<1>2. \A i \in DOMAIN ks : ks[i].data \in KeyData
  BY <1>1 DEF PublicKey
<1> QED BY <1>2 DEF StoredHashes

\* The credits of an out point.
LEMMA LockedCreditsType ==
  ASSUME NEW o \in OutPoints
  PROVE  LockedCredits(o) \in Nat
<1>1. Satoshis[o] \in Nat /\ RATIO \in Nat
  BY OutPointAssumption, CreditAssumption
<1> QED BY <1>1 DEF LockedCredits, ConvertSatoshiToCredits

\* An identity keeps its shape when its balance changes.
LEMMA BalanceType ==
  ASSUME TypeOK, NEW o \in Existing, NEW b \in Nat
  PROVE  [identities EXCEPT ![o].balance = b]
            \in [OutPoints -> Identity \cup {NoIdentity}]
<1>1. /\ o \in OutPoints /\ identities[o] \in Identity
      /\ identities \in [OutPoints -> Identity \cup {NoIdentity}]
  BY ExistingType DEF TypeOK
<1>2. [identities[o] EXCEPT !.balance = b] \in Identity
  BY <1>1 DEF Identity
<1> QED BY <1>1, <1>2

\* The keys after an update are keys.
LEMMA UpdatedKeysType ==
  ASSUME TypeOK, NEW t \in Updates, t.id \in Existing
  PROVE  Disabled(identities[t.id].keys, t.disable, t.disabledAt) \o t.add
            \in Seq(PublicKey)
<1>1. t.disabledAt \in Times /\ t.add \in KeyLists
  BY DEF Updates
<1>2. identities[t.id].keys \in Seq(PublicKey)
  BY ExistingType
<1>3. Disabled(identities[t.id].keys, t.disable, t.disabledAt) \in Seq(PublicKey)
  BY <1>1, <1>2, DisabledProperties
<1> QED BY <1>1, <1>3, KeyListType, ConcatProperties

-----------------------------------------------------------------------------
(* What each state transition does to the stored identities.               *)

\* A create adds one identity, with the keys it carries.
LEMMA CreateEffect ==
  ASSUME TypeOK, NEW o \in OutPoints, NEW p, NEW keys \in KeyLists,
         IdentityCreate(o, p, keys)
  PROVE  /\ o \notin Existing
         /\ keys \in Seq(PublicKey)
         /\ HasMasterKey(keys)
         /\ identities'[o] \in Identity
         /\ identities'[o].keys = keys
         /\ \A x \in OutPoints : x # o => identities'[x] = identities[x]
         /\ identities' \in [OutPoints -> Identity \cup {NoIdentity}]
         /\ Existing' = Existing \cup {o}
<1> DEFINE new == [keys |-> keys, balance |-> LockedCredits(o), revision |-> 0]
<1>1. keys \in Seq(PublicKey) /\ HasMasterKey(keys) /\ o \notin Existing
  BY KeyListType DEF IdentityCreate, CreateBasicValid, CreateStateValid
<1>2. new \in Identity
  BY <1>1, LockedCreditsType DEF Identity
<1>3. identities' = [identities EXCEPT ![o] = new]
      /\ identities \in [OutPoints -> Identity \cup {NoIdentity}]
  BY DEF IdentityCreate, TypeOK
<1>4. new.keys = keys /\ new # NoIdentity
  BY <1>2, IdentityAssumption
<1> HIDE DEF new
<1>5. /\ identities'[o] = new
      /\ \A x \in OutPoints : x # o => identities'[x] = identities[x]
      /\ identities' \in [OutPoints -> Identity \cup {NoIdentity}]
  BY <1>2, <1>3
<1>6. Existing' = Existing \cup {o}
  BY <1>4, <1>5 DEF Existing
<1> QED BY <1>1, <1>2, <1>4, <1>5, <1>6

\* A new balance for one identity leaves all keys and revisions alone.
LEMMA BalanceEffect ==
  ASSUME TypeOK, NEW o \in Existing, NEW b \in Nat,
         identities' = [identities EXCEPT ![o].balance = b]
  PROVE  /\ identities' \in [OutPoints -> Identity \cup {NoIdentity}]
         /\ Existing' = Existing
         /\ \A x \in Existing : /\ identities'[x].keys = identities[x].keys
                                /\ identities'[x].revision = identities[x].revision
<1>1. /\ o \in OutPoints /\ identities[o] \in Identity
      /\ identities \in [OutPoints -> Identity \cup {NoIdentity}]
  BY ExistingType DEF TypeOK
<1>2. identities' \in [OutPoints -> Identity \cup {NoIdentity}]
  BY BalanceType
<1>3. /\ identities'[o] = [identities[o] EXCEPT !.balance = b]
      /\ \A x \in OutPoints : x # o => identities'[x] = identities[x]
  BY <1>1
<1>4. [identities[o] EXCEPT !.balance = b] \in Identity
  BY <1>1 DEF Identity
<1>5. Existing' = Existing
  BY <1>3, <1>4, IdentityAssumption DEF Existing
<1>6. ASSUME NEW x \in Existing
      PROVE  /\ identities'[x].keys = identities[x].keys
             /\ identities'[x].revision = identities[x].revision
  <2>1. CASE x = o
    BY <1>1, <1>3, <2>1 DEF Identity
  <2>2. CASE x # o
    BY <1>3, <2>2 DEF Existing
  <2> QED BY <2>1, <2>2
<1> QED BY <1>2, <1>5, <1>6

\* A top up is a new balance.
LEMMA TopUpEffect ==
  ASSUME TypeOK, NEW id \in OutPoints, NEW o \in OutPoints, NEW p,
         IdentityTopUp(id, o, p)
  PROVE  /\ id \in Existing
         /\ \E b \in Nat : identities' = [identities EXCEPT ![id].balance = b]
<1>1. id \in Existing
  BY DEF IdentityTopUp, TopUpValid, TargetExists
<1>2. identities[id].balance + LockedCredits(o) \in Nat
  BY <1>1, ExistingType, LockedCreditsType
<1> QED BY <1>1, <1>2 DEF IdentityTopUp

\* A withdrawal is a new balance, and that is not below zero.
LEMMA WithdrawalEffect ==
  ASSUME TypeOK, NEW id \in OutPoints, NEW amount \in Amounts, NEW k,
         CreditWithdrawal(id, amount, k)
  PROVE  /\ id \in Existing
         /\ \E b \in Nat : identities' = [identities EXCEPT ![id].balance = b]
         /\ withdrawals' \in Seq(Nat)
<1>1. id \in Existing /\ identities[id].balance >= amount
  BY DEF CreditWithdrawal, WithdrawalStateValid
<1>2. amount \in Nat /\ identities[id].balance \in Nat
  BY <1>1, ExistingType, CreditAssumption
<1>3. identities[id].balance - amount \in Nat
  BY <1>1, <1>2
<1>4. ConvertCreditsToSatoshi(amount) \in Nat
  BY <1>2, CreditAssumption DEF ConvertCreditsToSatoshi
<1>5. withdrawals' \in Seq(Nat)
  BY <1>4 DEF CreditWithdrawal, TypeOK
<1> QED BY <1>1, <1>3, <1>5 DEF CreditWithdrawal

\* An update gives one identity the next revision and the keys it had,
\* some of them disabled, followed by the keys it carries.
LEMMA UpdateEffect ==
  ASSUME TypeOK, NEW t \in Updates, IdentityUpdate(t)
  PROVE  /\ t.id \in Existing
         /\ t.disabledAt \in Times
         /\ t.add \in Seq(PublicKey)
         /\ identities' \in [OutPoints -> Identity \cup {NoIdentity}]
         /\ Existing' = Existing
         /\ \A x \in OutPoints : x # t.id => identities'[x] = identities[x]
         /\ identities'[t.id].revision = identities[t.id].revision + 1
         /\ identities'[t.id].keys =
              Disabled(identities[t.id].keys, t.disable, t.disabledAt) \o t.add
<1> DEFINE keys == Disabled(identities[t.id].keys, t.disable, t.disabledAt) \o t.add
           new == [keys |-> keys, balance |-> identities[t.id].balance,
                   revision |-> t.revision]
<1>1. /\ t.id \in Existing /\ t.id \in OutPoints
      /\ t.revision = identities[t.id].revision + 1
  BY DEF IdentityUpdate, UpdateValid, UpdateStateValid, RevisionValid, Existing
<1>2. t.disabledAt \in Times /\ t.add \in KeyLists
  BY DEF Updates
<1>3. t.add \in Seq(PublicKey)
  BY <1>2, KeyListType
<1>4. keys \in Seq(PublicKey)
  BY <1>1, UpdatedKeysType
<1>5. /\ identities \in [OutPoints -> Identity \cup {NoIdentity}]
      /\ identities[t.id].balance \in Nat /\ identities[t.id].revision \in Nat
  BY <1>1, ExistingType DEF TypeOK
<1>6. identities' = [identities EXCEPT ![t.id] = new]
  BY DEF IdentityUpdate, UpdatedIdentity
<1> HIDE DEF keys
<1>7. new \in Identity /\ new.keys = keys /\ new.revision = t.revision
  BY <1>1, <1>4, <1>5 DEF Identity
<1> HIDE DEF new
<1>8. /\ identities'[t.id] = new
      /\ \A x \in OutPoints : x # t.id => identities'[x] = identities[x]
      /\ identities' \in [OutPoints -> Identity \cup {NoIdentity}]
  BY <1>1, <1>5, <1>6, <1>7
<1>9. Existing' = Existing
  BY <1>1, <1>7, <1>8, IdentityAssumption DEF Existing
<1> QED BY <1>1, <1>2, <1>3, <1>7, <1>8, <1>9 DEF keys

-----------------------------------------------------------------------------
(* The invariant and its preservation.                                     *)

\* A step that changes neither the identities nor the index of their keys.
LEMMA NewBlockPreserves ==
  ASSUME IdentitiesInv, NewBlock
  PROVE  IdentitiesInv'
<1>1. TypeOK'
  BY DEF IdentitiesInv, TypeOK, NewBlock, stored
<1>2. MasterKeyRemains' /\ KeyHashesMatch'
  BY DEF IdentitiesInv, MasterKeyRemains, KeyHashesMatch, NewBlock, stored, Existing
<1> QED BY <1>1, <1>2 DEF IdentitiesInv

\* The parts of the state that Deliver itself writes.
LEMMA DeliverType ==
  ASSUME TypeOK, delivered < MaxDelivered, delivered' = delivered + 1, UNCHANGED header
  PROVE  /\ blockTime' \in Times
         /\ coreHeight' \in 0 .. MaxCoreHeight
         /\ delivered' \in 0 .. MaxDelivered
BY BoundAssumption DEF TypeOK, header

\* Key lists that are the same give the same index of hashes.
LEMMA SameKeysSameHashes ==
  ASSUME KeyHashesMatch, MasterKeyRemains, Existing' = Existing,
         keyHashes' = keyHashes,
         \A x \in Existing : identities'[x].keys = identities[x].keys
  PROVE  KeyHashesMatch' /\ MasterKeyRemains'
<1>1. \A x \in Existing' : identities'[x].keys = identities[x].keys
  OBVIOUS
<1>2. \A x \in Existing : HasMasterKey(identities[x].keys)
  BY DEF MasterKeyRemains
<1>3. MasterKeyRemains'
  BY <1>1, <1>2 DEF MasterKeyRemains
<1>4. UNION {StoredHashes(x, identities'[x].keys) : x \in Existing'}
        = UNION {StoredHashes(x, identities[x].keys) : x \in Existing}
  BY <1>1
<1>5. KeyHashesMatch'
  BY <1>4 DEF KeyHashesMatch
<1> QED BY <1>3, <1>5

\* A create preserves the invariant.
LEMMA CreatePreserves ==
  ASSUME IdentitiesInv, NEW o \in OutPoints, NEW p, NEW keys \in KeyLists,
         IdentityCreate(o, p, keys),
         delivered < MaxDelivered, delivered' = delivered + 1, UNCHANGED header
  PROVE  IdentitiesInv'
<1>1. TypeOK /\ MasterKeyRemains /\ KeyHashesMatch
  BY DEF IdentitiesInv
<1>2. /\ keys \in Seq(PublicKey) /\ HasMasterKey(keys)
      /\ identities'[o].keys = keys
      /\ \A x \in OutPoints : x # o => identities'[x] = identities[x]
      /\ identities' \in [OutPoints -> Identity \cup {NoIdentity}]
      /\ Existing' = Existing \cup {o}
      /\ o \notin Existing
  BY <1>1, CreateEffect
<1>3. StoredHashes(o, keys) \subseteq KeyData \X OutPoints
  BY <1>2, HashesType
<1>4. /\ usedOutPoints' = usedOutPoints \cup {o}
      /\ keyHashes' = keyHashes \cup StoredHashes(o, keys)
      /\ withdrawals' = withdrawals
  BY DEF IdentityCreate
<1>5. TypeOK'
  BY <1>1, <1>2, <1>3, <1>4, DeliverType DEF TypeOK
<1>6. \A x \in Existing : identities'[x] = identities[x]
  BY <1>2 DEF Existing
<1>7. MasterKeyRemains'
  BY <1>1, <1>2, <1>6 DEF MasterKeyRemains
<1>8. UNION {StoredHashes(x, identities'[x].keys) : x \in Existing'}
        = (UNION {StoredHashes(x, identities[x].keys) : x \in Existing})
            \cup StoredHashes(o, keys)
  BY <1>2, <1>6
<1>9. KeyHashesMatch'
  BY <1>1, <1>4, <1>8 DEF KeyHashesMatch
<1> QED BY <1>5, <1>7, <1>9 DEF IdentitiesInv

\* A top up preserves the invariant.
LEMMA TopUpPreserves ==
  ASSUME IdentitiesInv, NEW id \in OutPoints, NEW o \in OutPoints, NEW p,
         IdentityTopUp(id, o, p),
         delivered < MaxDelivered, delivered' = delivered + 1, UNCHANGED header
  PROVE  IdentitiesInv'
<1>1. TypeOK /\ MasterKeyRemains /\ KeyHashesMatch
  BY DEF IdentitiesInv
<1>2. id \in Existing
  BY <1>1, TopUpEffect
<1>3. PICK b \in Nat : identities' = [identities EXCEPT ![id].balance = b]
  BY <1>1, TopUpEffect
<1>4. /\ identities' \in [OutPoints -> Identity \cup {NoIdentity}]
      /\ Existing' = Existing
      /\ \A x \in Existing : identities'[x].keys = identities[x].keys
  BY <1>1, <1>2, <1>3, BalanceEffect
<1>5. /\ usedOutPoints' = usedOutPoints \cup {o}
      /\ keyHashes' = keyHashes /\ withdrawals' = withdrawals
  BY DEF IdentityTopUp
<1>6. TypeOK'
  BY <1>1, <1>4, <1>5, DeliverType DEF TypeOK
<1> QED BY <1>1, <1>4, <1>5, <1>6, SameKeysSameHashes DEF IdentitiesInv

\* A withdrawal preserves the invariant.
LEMMA WithdrawalPreserves ==
  ASSUME IdentitiesInv, NEW id \in OutPoints, NEW amount \in Amounts, NEW k,
         CreditWithdrawal(id, amount, k),
         delivered < MaxDelivered, delivered' = delivered + 1, UNCHANGED header
  PROVE  IdentitiesInv'
<1>1. TypeOK /\ MasterKeyRemains /\ KeyHashesMatch
  BY DEF IdentitiesInv
<1>2. id \in Existing /\ withdrawals' \in Seq(Nat)
  BY <1>1, WithdrawalEffect
<1>3. PICK b \in Nat : identities' = [identities EXCEPT ![id].balance = b]
  BY <1>1, WithdrawalEffect
<1>4. /\ identities' \in [OutPoints -> Identity \cup {NoIdentity}]
      /\ Existing' = Existing
      /\ \A x \in Existing : identities'[x].keys = identities[x].keys
  BY <1>1, <1>2, <1>3, BalanceEffect
<1>5. usedOutPoints' = usedOutPoints /\ keyHashes' = keyHashes
  BY DEF CreditWithdrawal
<1>6. TypeOK'
  BY <1>1, <1>2, <1>4, <1>5, DeliverType DEF TypeOK
<1> QED BY <1>1, <1>4, <1>5, <1>6, SameKeysSameHashes DEF IdentitiesInv

\* An update preserves the invariant: it was checked that a master key is
\* left after disabling, and disabling changes no key material.
LEMMA UpdatePreserves ==
  ASSUME IdentitiesInv, NEW t \in Updates, IdentityUpdate(t),
         delivered < MaxDelivered, delivered' = delivered + 1, UNCHANGED header
  PROVE  IdentitiesInv'
<1> DEFINE old == identities[t.id].keys
           disabled == Disabled(old, t.disable, t.disabledAt)
<1>1. TypeOK /\ MasterKeyRemains /\ KeyHashesMatch
  BY DEF IdentitiesInv
<1>2. /\ t.id \in Existing /\ t.disabledAt \in Times /\ t.add \in Seq(PublicKey)
      /\ identities' \in [OutPoints -> Identity \cup {NoIdentity}]
      /\ Existing' = Existing
      /\ \A x \in OutPoints : x # t.id => identities'[x] = identities[x]
      /\ identities'[t.id].keys = disabled \o t.add
  BY <1>1, UpdateEffect
<1>3. t.id \in OutPoints /\ old \in Seq(PublicKey)
  BY <1>1, <1>2, ExistingType
<1>4. disabled \in Seq(PublicKey)
  BY <1>2, <1>3, DisabledProperties
<1>5. HasMasterKey(disabled)
  BY DEF IdentityUpdate, UpdateValid, UpdateStateValid, KeysChecked
<1>6. StoredHashes(t.id, disabled) = StoredHashes(t.id, old)
  BY <1>2, <1>3, DisabledHashes
<1> HIDE DEF disabled
<1>7. HasMasterKey(disabled \o t.add)
  BY <1>2, <1>4, <1>5, ConcatMaster
<1>8. StoredHashes(t.id, disabled \o t.add)
        = StoredHashes(t.id, old) \cup StoredHashes(t.id, t.add)
  BY <1>2, <1>4, <1>6, ConcatHashes
<1>9. /\ keyHashes' = keyHashes \cup StoredHashes(t.id, t.add)
      /\ usedOutPoints' = usedOutPoints /\ withdrawals' = withdrawals
  BY DEF IdentityUpdate, HashesAfterUpdate
<1>10. StoredHashes(t.id, t.add) \subseteq KeyData \X OutPoints
  BY <1>2, <1>3, HashesType
<1>11. TypeOK'
  BY <1>1, <1>2, <1>9, <1>10, DeliverType DEF TypeOK
<1>12. \A x \in Existing : x # t.id => identities'[x] = identities[x]
  BY <1>2 DEF Existing
<1>13. MasterKeyRemains'
  BY <1>1, <1>2, <1>7, <1>12 DEF MasterKeyRemains
<1>14. UNION {StoredHashes(x, identities'[x].keys) : x \in Existing'}
         = (UNION {StoredHashes(x, identities[x].keys) : x \in Existing})
             \cup StoredHashes(t.id, t.add)
  <2>1. ASSUME NEW x \in Existing
        PROVE  StoredHashes(x, identities'[x].keys) =
                 IF x = t.id THEN StoredHashes(x, identities[x].keys)
                                    \cup StoredHashes(t.id, t.add)
                 ELSE StoredHashes(x, identities[x].keys)
    BY <1>2, <1>8, <1>12
  <2> DEFINE A(x) == StoredHashes(x, identities'[x].keys)
             B(x) == StoredHashes(x, identities[x].keys)
             C == StoredHashes(t.id, t.add)
  <2>2. \A x \in Existing : A(x) = IF x = t.id THEN B(x) \cup C ELSE B(x)
    BY <2>1
  <2> HIDE DEF A, B, C
  <2>3. UNION {A(x) : x \in Existing} = (UNION {B(x) : x \in Existing}) \cup C
    BY <1>2, <2>2
  <2> QED BY <1>2, <2>3 DEF A, B, C
<1>15. KeyHashesMatch'
  BY <1>1, <1>9, <1>14 DEF KeyHashesMatch
<1> QED BY <1>11, <1>13, <1>15 DEF IdentitiesInv

\* Every delivery preserves the invariant.
LEMMA DeliverPreserves ==
  ASSUME IdentitiesInv, Deliver
  PROVE  IdentitiesInv'
<1>1. delivered < MaxDelivered /\ delivered' = delivered + 1 /\ UNCHANGED header
  BY DEF Deliver
<1>2. CASE \E o \in OutPoints, keys \in KeyLists :
             \E p \in Proofs(o) : IdentityCreate(o, p, keys)
  BY <1>1, <1>2, CreatePreserves
<1>3. CASE \E id, o \in OutPoints : \E p \in Proofs(o) : IdentityTopUp(id, o, p)
  BY <1>1, <1>3, TopUpPreserves
<1>4. CASE \E t \in Updates : IdentityUpdate(t)
  BY <1>1, <1>4, UpdatePreserves
<1>5. CASE \E id \in OutPoints, amount \in Amounts, k \in KeyIds :
             CreditWithdrawal(id, amount, k)
  BY <1>1, <1>5, WithdrawalPreserves
<1> QED BY <1>2, <1>3, <1>4, <1>5 DEF Deliver

\* The invariant holds before the first delivery.
LEMMA InvInitially ==
  ASSUME Init
  PROVE  IdentitiesInv
<1>1. Existing = {}
  BY DEF Init, Existing
<1>2. TypeOK
  BY BoundAssumption DEF Init, TypeOK
<1> QED BY <1>1, <1>2 DEF IdentitiesInv, MasterKeyRemains, KeyHashesMatch, Init

\* Types are right, every identity keeps an enabled master key and the index
\* of key hashes is exact, after any deliveries in any order.
THEOREM IdentitiesInvariant == Spec => []IdentitiesInv
<1>1. Init => IdentitiesInv
  BY InvInitially
<1>2. IdentitiesInv /\ [Next]_vars => IdentitiesInv'
  <2> SUFFICES ASSUME IdentitiesInv, [Next]_vars PROVE IdentitiesInv'
    OBVIOUS
  <2>1. CASE Deliver
    BY <2>1, DeliverPreserves
  <2>2. CASE NewBlock
    BY <2>2, NewBlockPreserves
  <2>3. CASE UNCHANGED vars
    BY <2>3 DEF vars, stored, header, IdentitiesInv, TypeOK, MasterKeyRemains,
                KeyHashesMatch, Existing
  <2> QED BY <2>1, <2>2, <2>3 DEF Next
<1> QED BY <1>1, <1>2, PTL DEF Spec

\* The state is well typed; in particular no balance goes below zero.
THEOREM IdentitiesTypeCorrect == Spec => []TypeOK
BY IdentitiesInvariant, PTL DEF IdentitiesInv

\* An identity never loses its last enabled master key.
THEOREM MasterKeyAlwaysRemains == Spec => []MasterKeyRemains
BY IdentitiesInvariant, PTL DEF IdentitiesInv

\* The index of key hashes always matches the stored keys.
THEOREM KeyHashesAlwaysMatch == Spec => []KeyHashesMatch
BY IdentitiesInvariant, PTL DEF IdentitiesInv

-----------------------------------------------------------------------------
(* Keys only grow.                                                         *)

\* The keys an update names to be disabled pass its checks.
AllMayBeDisabled(keys, ids) == \A id \in ids : MayDisable(keys, id)

\* Each key of a list in which keys that may be disabled are disabled, and to
\* which others are added, is the same key, or an enabled key that is not read
\* only, now disabled.
LEMMA DisabledGrow ==
  ASSUME NEW old \in Seq(PublicKey), NEW add \in Seq(PublicKey),
         NEW ids, NEW at \in Times, AllMayBeDisabled(old, ids)
  PROVE  KeysGrown(old, Disabled(old, ids, at) \o add)
<1> DEFINE disabled == Disabled(old, ids, at)
           new == disabled \o add
<1>1. /\ disabled \in Seq(PublicKey) /\ Len(disabled) = Len(old)
      /\ \A i \in 1 .. Len(old) :
           disabled[i] = IF \E id \in ids : i \in Places(old, id)
                         THEN [old[i] EXCEPT !.disabledAt = at] ELSE old[i]
  BY DisabledProperties
<1> HIDE DEF disabled
<1>3. /\ Len(new) = Len(old) + Len(add) /\ Len(old) \in Nat /\ Len(add) \in Nat
      /\ DOMAIN old = 1 .. Len(old)
      /\ \A i \in 1 .. Len(old) : new[i] = disabled[i]
  <2>1. /\ Len(disabled \o add) = Len(disabled) + Len(add)
        /\ \A i \in 1 .. Len(disabled) + Len(add) :
             (disabled \o add)[i] = IF i <= Len(disabled) THEN disabled[i]
                                    ELSE add[i - Len(disabled)]
    BY <1>1, ConcatProperties
  <2>2. Len(old) \in Nat /\ Len(add) \in Nat /\ DOMAIN old = 1 .. Len(old)
    BY LenProperties
  <2> QED BY <1>1, <2>1, <2>2
<1> HIDE DEF new
<1>4. ASSUME NEW i \in 1 .. Len(old)
      PROVE  \/ new[i] = old[i]
             \/ /\ IsEnabled(old[i]) /\ ~old[i].readOnly
                /\ ~IsEnabled(new[i])
                /\ [new[i] EXCEPT !.disabledAt = Enabled] = old[i]
  <2>1. CASE ~(\E id \in ids : i \in Places(old, id))
    BY <1>1, <1>3, <2>1
  <2>2. CASE \E id \in ids : i \in Places(old, id)
    <3>1. PICK id \in ids : i \in Places(old, id)
      BY <2>2
    <3>2. PICK j \in Places(old, id) : ~old[j].readOnly /\ IsEnabled(old[j])
      BY <3>1 DEF AllMayBeDisabled, MayDisable
    <3>3. i = j
      BY <3>1, <3>2, PlacesUnique
    <3>4. new[i] = [old[i] EXCEPT !.disabledAt = at]
      BY <1>1, <1>3, <2>2
    <3>5. old[i] \in PublicKey
      BY <1>3, ElementOfSeq
    <3>6. old[i].disabledAt = Enabled /\ ~old[i].readOnly
      BY <3>2, <3>3 DEF IsEnabled
    <3>7. new[i].disabledAt = at
      BY <3>4, <3>5 DEF PublicKey
    <3>8. [new[i] EXCEPT !.disabledAt = Enabled] = old[i]
      BY <3>4, <3>5, <3>6 DEF PublicKey
    <3>9. at # Enabled
      BY TimeAssumption
    <3> QED BY <3>6, <3>7, <3>8, <3>9 DEF IsEnabled
  <2> QED BY <2>1, <2>2
<1>5. KeysGrown(old, new)
  BY <1>3, <1>4 DEF KeysGrown
<1> QED BY <1>5 DEF new, disabled

\* An update lets the keys of its identity grow.
LEMMA UpdateGrows ==
  ASSUME TypeOK, NEW t \in Updates, IdentityUpdate(t)
  PROVE  Grown(identities[t.id], identities'[t.id])
<1>1. /\ t.id \in Existing /\ t.disabledAt \in Times /\ t.add \in Seq(PublicKey)
      /\ identities'[t.id].keys =
           Disabled(identities[t.id].keys, t.disable, t.disabledAt) \o t.add
      /\ identities'[t.id].revision = identities[t.id].revision + 1
  BY UpdateEffect
<1>2. identities[t.id].keys \in Seq(PublicKey)
  BY <1>1, ExistingType
<1>3. AllMayBeDisabled(identities[t.id].keys, t.disable)
  BY DEF IdentityUpdate, UpdateValid, UpdateStateValid, AllMayBeDisabled
<1>4. KeysGrown(identities[t.id].keys,
                Disabled(identities[t.id].keys, t.disable, t.disabledAt) \o t.add)
  BY <1>1, <1>2, <1>3, DisabledGrow
<1> QED BY <1>1, <1>4 DEF Grown

\* An identity whose keys are the same has grown.
LEMMA SameKeysGrown ==
  ASSUME NEW old, NEW new, old.keys \in Seq(PublicKey), new.keys = old.keys
  PROVE  Grown(old, new)
<1>1. Len(old.keys) <= Len(old.keys)
  <2>1. Len(old.keys) \in Nat
    BY LenProperties
  <2> QED BY <2>1
<1> QED BY <1>1 DEF Grown, KeysGrown

\* Keys are never removed, never changed except for being disabled once, and
\* change only with the next revision.
THEOREM KeysAlwaysGrow == Spec => KeysOnlyGrow
<1>1. IdentitiesInv /\ [Next]_vars =>
        [\A o \in Existing :
           identities'[o] # NoIdentity /\ Grown(identities[o], identities'[o])]_vars
  <2>2. SUFFICES ASSUME IdentitiesInv, Next, NEW o \in Existing
                 PROVE  identities'[o] # NoIdentity /\ Grown(identities[o], identities'[o])
    OBVIOUS
  <2>1. TypeOK
    BY <2>2 DEF IdentitiesInv
  <2>3. /\ o \in OutPoints /\ identities[o].keys \in Seq(PublicKey)
        /\ identities[o] # NoIdentity
    BY <2>1, ExistingType DEF Existing
  <2>4. CASE identities'[o] = identities[o]
    BY <2>3, <2>4, SameKeysGrown
  <2>5. CASE NewBlock
    BY <2>4, <2>5 DEF NewBlock, stored
  <2>6. CASE \E x \in OutPoints, keys \in KeyLists :
               \E p \in Proofs(x) : IdentityCreate(x, p, keys)
    <3>1. PICK x \in OutPoints, keys \in KeyLists :
                 \E p \in Proofs(x) : IdentityCreate(x, p, keys)
      BY <2>6
    <3>2. x \notin Existing /\ (o # x => identities'[o] = identities[o])
      BY <2>1, <2>3, <3>1, CreateEffect
    <3> QED BY <2>2, <2>4, <3>2
  <2>7. ASSUME NEW id \in Existing, NEW b \in Nat,
               identities' = [identities EXCEPT ![id].balance = b]
        PROVE  identities'[o] # NoIdentity /\ Grown(identities[o], identities'[o])
    <3>1. o \in Existing' /\ identities'[o].keys = identities[o].keys
      BY <2>1, <2>2, <2>7, BalanceEffect
    <3>2. identities'[o] # NoIdentity
      BY <3>1 DEF Existing
    <3> QED BY <2>3, <3>1, <3>2, SameKeysGrown
  <2>8. CASE \E id, x \in OutPoints : \E p \in Proofs(x) : IdentityTopUp(id, x, p)
    <3>1. PICK id \in OutPoints, x \in OutPoints :
                 \E p \in Proofs(x) : IdentityTopUp(id, x, p)
      BY <2>8
    <3>2. /\ id \in Existing
          /\ \E b \in Nat : identities' = [identities EXCEPT ![id].balance = b]
      BY <2>1, <3>1, TopUpEffect
    <3> QED BY <2>7, <3>2
  <2>9. CASE \E id \in OutPoints, amount \in Amounts, k \in KeyIds :
               CreditWithdrawal(id, amount, k)
    <3>1. PICK id \in OutPoints, amount \in Amounts, k \in KeyIds :
                 CreditWithdrawal(id, amount, k)
      BY <2>9
    <3>2. /\ id \in Existing
          /\ \E b \in Nat : identities' = [identities EXCEPT ![id].balance = b]
      BY <2>1, <3>1, WithdrawalEffect
    <3> QED BY <2>7, <3>2
  <2>10. CASE \E t \in Updates : IdentityUpdate(t)
    <3>1. PICK t \in Updates : IdentityUpdate(t)
      BY <2>10
    <3>2. /\ Existing' = Existing
          /\ o # t.id => identities'[o] = identities[o]
      BY <2>1, <2>3, <3>1, UpdateEffect
    <3>3. identities'[o] # NoIdentity
      BY <2>2, <3>2 DEF Existing
    <3>4. o = t.id => Grown(identities[o], identities'[o])
      BY <2>1, <3>1, UpdateGrows
    <3> QED BY <2>4, <3>2, <3>3, <3>4
  <2> QED BY <2>2, <2>5, <2>6, <2>8, <2>9, <2>10 DEF Next, Deliver
<1> QED BY <1>1, IdentitiesInvariant, PTL DEF Spec, KeysOnlyGrow

-----------------------------------------------------------------------------
(* Sums over finite sets.  Induction is stated with a set Good of the sets *)
(* that have the property in question.                                     *)

\* Induction over the subsets of a finite set: what holds of a set whenever it
\* holds of all its proper subsets holds of every subset.  Good is a set, so
\* that the provers can instantiate it.
LEMMA SubsetInduction ==
  ASSUME NEW S, IsFiniteSet(S), NEW Good,
         \A T \in SUBSET S : (\A U \in SUBSET T : U # T => U \in Good) => T \in Good
  PROVE  \A T \in SUBSET S : T \in Good
<1> DEFINE R == StrictSubsetOrdering(S)
           Bad == {T \in SUBSET S : T \notin Good}
<1>1. IsWellFoundedOn(R, SUBSET S)
  BY FS_StrictSubsetOrderingWellFounded, FS_FiniteSubsetsOfFinite
<1>2. SUFFICES ASSUME Bad # {} PROVE FALSE
  OBVIOUS
<1>3. Bad \subseteq SUBSET S
  OBVIOUS
<1>4. PICK T \in Bad : \A U \in Bad : ~(<<U, T>> \in R)
  <2> HIDE DEF R, Bad
  <2> QED BY <1>1, <1>2, <1>3, WFMin
<1>5. ASSUME NEW U \in SUBSET T, U # T PROVE U \in Good
  <2>1. <<U, T>> \in R
    BY <1>5 DEF StrictSubsetOrdering
  <2> HIDE DEF R
  <2> QED BY <1>4, <2>1
<1> QED BY <1>4, <1>5

\* The sum of the integers f[x] over the elements x of a set.
SumOf(f, S) == MapThenSumSet(LAMBDA x : f[x], S)

\* The element a fold takes from a set first.
First(S) == CHOOSE x \in S : TRUE

\* g gives the sum of every subset of S, computed as the fold does.
Sums(f, S, g) ==
  g = [s \in SUBSET S |-> IF s = {} THEN 0 ELSE f[First(s)] + g[s \ {First(s)}]]

\* The sum is that of the fold's function.
LEMMA SumOfDefinition ==
  ASSUME NEW f, NEW S
  PROVE  SumOf(f, S) = (CHOOSE g : Sums(f, S, g))[S]
BY DEF SumOf, MapThenSumSet, MapThenFoldSet, Sums, First

\* The first element of a non-empty set is one of its elements.
LEMMA FirstIn ==
  ASSUME NEW S, S # {}
  PROVE  First(S) \in S
BY DEF First

\* Two functions of the fold agree where both are defined.
LEMMA SumsAgree ==
  ASSUME NEW f, NEW S, IsFiniteSet(S), NEW T \in SUBSET S,
         NEW g, Sums(f, S, g), NEW h, Sums(f, T, h)
  PROVE  \A s \in SUBSET T : g[s] = h[s]
<1> DEFINE Good == {s \in SUBSET T : g[s] = h[s]}
<1>1. IsFiniteSet(T)
  BY FS_Subset
<1>2. ASSUME NEW s \in SUBSET T, \A u \in SUBSET s : u # s => u \in Good
      PROVE  s \in Good
  <2>1. /\ g[s] = IF s = {} THEN 0 ELSE f[First(s)] + g[s \ {First(s)}]
        /\ h[s] = IF s = {} THEN 0 ELSE f[First(s)] + h[s \ {First(s)}]
    <3>1. s \in SUBSET S
      OBVIOUS
    <3> QED BY <3>1 DEF Sums
  <2>2. CASE s = {}
    BY <2>1, <2>2
  <2>3. CASE s # {}
    <3>1. s \ {First(s)} \in SUBSET s /\ s \ {First(s)} # s
      BY <2>3, FirstIn
    <3>2. s \ {First(s)} \in Good
      BY <1>2, <3>1
    <3>3. g[s \ {First(s)}] = h[s \ {First(s)}]
      BY <3>2
    <3> QED BY <2>1, <2>3, <3>3
  <2> QED BY <2>2, <2>3
<1>3. \A s \in SUBSET T : s \in Good
  <2> HIDE DEF Good
  <2> QED BY <1>1, <1>2, SubsetInduction
<1> QED BY <1>3

\* The fold over a finite set has a function.
LEMMA SumsExist ==
  ASSUME NEW f, NEW S, IsFiniteSet(S)
  PROVE  \E g : Sums(f, S, g)
<1> DEFINE Good == {T \in SUBSET S : \E g : Sums(f, T, g)}
           of(T) == CHOOSE g : Sums(f, T, g)
<1>1. ASSUME NEW T \in SUBSET S, \A U \in SUBSET T : U # T => U \in Good
      PROVE  T \in Good
  <2> DEFINE rest(s) == s \ {First(s)}
             h == [s \in SUBSET T |-> IF s = {} THEN 0
                                      ELSE f[First(s)] + of(rest(s))[rest(s)]]
  <2>1. ASSUME NEW U \in SUBSET T, U # T PROVE Sums(f, U, of(U))
    BY <1>1, <2>1
  <2>2. ASSUME NEW s \in SUBSET T, s # {}
        PROVE  /\ rest(s) \in SUBSET T /\ rest(s) # T /\ rest(s) \in SUBSET s
    BY <2>2, FirstIn
  <2>3. ASSUME NEW s \in SUBSET T, s # T PROVE h[s] = of(s)[s]
    <3>0. Sums(f, s, of(s))
      BY <2>1, <2>3
    <3>1. of(s)[s] = IF s = {} THEN 0 ELSE f[First(s)] + of(s)[rest(s)]
      <4> HIDE DEF of
      <4> QED BY <3>0 DEF Sums
    <3>2. CASE s = {}
      <4> HIDE DEF of
      <4> QED BY <3>1, <3>2
    <3>3. CASE s # {}
      <4>1. Sums(f, rest(s), of(rest(s)))
        BY <2>1, <2>2, <3>3
      <4>2. IsFiniteSet(s) /\ rest(s) \in SUBSET s
        BY FS_Subset
      <4>3. of(s)[rest(s)] = of(rest(s))[rest(s)]
        <5> HIDE DEF of, rest, h, Good
        <5> QED BY <3>0, <4>1, <4>2, SumsAgree
      <4> HIDE DEF of
      <4> QED BY <3>1, <3>3, <4>3
    <3> QED BY <3>2, <3>3
  <2>4. ASSUME NEW s \in SUBSET T
        PROVE  h[s] = IF s = {} THEN 0 ELSE f[First(s)] + h[rest(s)]
    <3>1. CASE s # {}
      <4>1. h[rest(s)] = of(rest(s))[rest(s)]
        BY <2>2, <2>3, <3>1
      <4> QED BY <3>1, <4>1
    <3>2. CASE s = {}
      BY <3>2
    <3> QED BY <3>1, <3>2
  <2>5. Sums(f, T, h)
    <3>1. h = [s \in SUBSET T |-> h[s]]
      OBVIOUS
    <3> HIDE DEF h
    <3> QED BY <2>4, <3>1 DEF Sums
  <2> QED BY <2>5
<1>2. \A T \in SUBSET S : T \in Good
  <2> HIDE DEF Good
  <2> QED BY <1>1, SubsetInduction
<1> QED BY <1>2

\* The sum of no integers, and the sum of a set by its first element.
LEMMA SumOfFirst ==
  ASSUME NEW f, NEW S, IsFiniteSet(S)
  PROVE  SumOf(f, S) = IF S = {} THEN 0 ELSE f[First(S)] + SumOf(f, S \ {First(S)})
<1> DEFINE of(T) == CHOOSE g : Sums(f, T, g)
           T == S \ {First(S)}
<1>1. Sums(f, S, of(S)) /\ SumOf(f, S) = of(S)[S]
  BY SumsExist, SumOfDefinition
<1>2. IsFiniteSet(T) /\ T \in SUBSET S
  BY FS_Subset
<1>3. Sums(f, T, of(T)) /\ SumOf(f, T) = of(T)[T]
  BY <1>2, SumsExist, SumOfDefinition
<1>4. of(S)[T] = of(T)[T]
  <2> HIDE DEF of, T
  <2> QED BY <1>1, <1>2, <1>3, SumsAgree
<1>5. of(S)[S] = IF S = {} THEN 0 ELSE f[First(S)] + of(S)[T]
  <2> HIDE DEF of
  <2> QED BY <1>1 DEF Sums
<1> QED BY <1>1, <1>3, <1>4, <1>5

\* A sum of integers is an integer, and any element may be added last: the
\* sum does not depend on the order of the fold.
LEMMA SumOfElement ==
  ASSUME NEW f, NEW S, IsFiniteSet(S), \A x \in S : f[x] \in Int
  PROVE  /\ SumOf(f, S) \in Int
         /\ \A x \in S : SumOf(f, S) = f[x] + SumOf(f, S \ {x})
<1> DEFINE Right(T) == /\ SumOf(f, T) \in Int
                       /\ \A x \in T : SumOf(f, T) = f[x] + SumOf(f, T \ {x})
           Good == {T \in SUBSET S : Right(T)}
<1>1. ASSUME NEW T \in SUBSET S, \A U \in SUBSET T : U # T => U \in Good
      PROVE  T \in Good
  <2>1. IsFiniteSet(T)
    BY FS_Subset
  <2>2. ASSUME NEW U \in SUBSET T, U # T PROVE Right(U)
    BY <1>1, <2>2
  <2> DEFINE c == First(T)
  <2>3. CASE T = {}
    <3>1. SumOf(f, T) = 0
      BY <2>1, <2>3, SumOfFirst
    <3> QED BY <2>3, <3>1
  <2>4. CASE T # {}
    <3>1. c \in T
      BY <2>4, FirstIn
    <3> HIDE DEF c
    <3>2. SumOf(f, T) = f[c] + SumOf(f, T \ {c})
      BY <2>1, <2>4, SumOfFirst DEF c
    <3>3. Right(T \ {c})
      BY <2>2, <3>1
    <3>4. SumOf(f, T) \in Int
      BY <3>1, <3>2, <3>3
    <3>5. ASSUME NEW x \in T PROVE SumOf(f, T) = f[x] + SumOf(f, T \ {x})
      <4>1. CASE x = c
        BY <3>2, <4>1
      <4>2. CASE x # c
        <5>1. Right(T \ {x})
          BY <2>2
        <5>2. SumOf(f, T \ {c}) = f[x] + SumOf(f, (T \ {c}) \ {x})
          BY <3>3, <4>2
        <5>3. SumOf(f, T \ {x}) = f[c] + SumOf(f, (T \ {x}) \ {c})
          BY <5>1, <4>2, <3>1
        <5> DEFINE a == SumOf(f, (T \ {x}) \ {c})
        <5>4. SumOf(f, T \ {c}) = f[x] + a /\ SumOf(f, T \ {x}) = f[c] + a
          <6>1. (T \ {c}) \ {x} = (T \ {x}) \ {c}
            OBVIOUS
          <6> QED BY <5>2, <5>3, <6>1
        <5>5. Right((T \ {x}) \ {c})
          BY <2>2, <3>1
        <5>6. a \in Int /\ f[x] \in Int /\ f[c] \in Int
          BY <3>1, <5>5
        <5> HIDE DEF Right, a
        <5> QED BY <3>2, <5>4, <5>6
      <4> QED BY <4>1, <4>2
    <3> QED BY <3>4, <3>5
  <2> QED BY <2>3, <2>4
<1>2. \A T \in SUBSET S : T \in Good
  <2> HIDE DEF Good
  <2> QED BY <1>1, SubsetInduction
<1>3. Right(S)
  BY <1>2
<1> QED BY <1>3

\* The sum of nothing is zero.
LEMMA SumOfNone ==
  ASSUME NEW f
  PROVE  SumOf(f, {}) = 0
BY SumOfFirst, FS_EmptySet

\* The sum of a set with one more element.
LEMMA SumOfOneMore ==
  ASSUME NEW f, NEW S, IsFiniteSet(S), NEW x, x \notin S,
         \A y \in S \cup {x} : f[y] \in Int
  PROVE  SumOf(f, S \cup {x}) = f[x] + SumOf(f, S)
<1>1. IsFiniteSet(S \cup {x})
  BY FS_AddElement
<1>2. (S \cup {x}) \ {x} = S /\ x \in S \cup {x}
  OBVIOUS
<1> QED BY <1>1, <1>2, SumOfElement

\* Sums are compared, and added, element by element.
LEMMA SumOfLinear ==
  ASSUME NEW S, IsFiniteSet(S), NEW f, NEW g, NEW h,
         \A x \in S : f[x] \in Int /\ g[x] \in Int /\ h[x] = f[x] + g[x]
  PROVE  SumOf(h, S) = SumOf(f, S) + SumOf(g, S)
<1> DEFINE Good == {T \in SUBSET S : SumOf(h, T) = SumOf(f, T) + SumOf(g, T)}
<1>1. ASSUME NEW T \in SUBSET S, \A U \in SUBSET T : U # T => U \in Good
      PROVE  T \in Good
  <2>1. IsFiniteSet(T)
    BY FS_Subset
  <2>2. CASE T = {}
    BY <2>2, SumOfNone
  <2>3. CASE T # {}
    <3>1. PICK x \in T : TRUE
      BY <2>3
    <3>2. T \ {x} \in SUBSET T /\ T \ {x} # T /\ IsFiniteSet(T \ {x})
      BY <2>1, FS_RemoveElement
    <3>3. /\ \A y \in T : f[y] \in Int /\ g[y] \in Int /\ h[y] = f[y] + g[y]
          /\ \A y \in T : h[y] \in Int
      OBVIOUS
    <3>4. /\ SumOf(f, T) = f[x] + SumOf(f, T \ {x})
          /\ SumOf(g, T) = g[x] + SumOf(g, T \ {x})
          /\ SumOf(h, T) = h[x] + SumOf(h, T \ {x})
      BY <2>1, <3>3, SumOfElement
    <3>5. SumOf(f, T \ {x}) \in Int /\ SumOf(g, T \ {x}) \in Int
      BY <3>2, <3>3, SumOfElement
    <3>6. SumOf(h, T \ {x}) = SumOf(f, T \ {x}) + SumOf(g, T \ {x})
      BY <1>1, <3>2
    <3>7. SumOf(h, T) = SumOf(f, T) + SumOf(g, T)
      BY <3>3, <3>4, <3>5, <3>6
    <3> QED BY <3>7
  <2> QED BY <2>2, <2>3
<1>2. \A T \in SUBSET S : T \in Good
  <2> HIDE DEF Good
  <2> QED BY <1>1, SubsetInduction
<1> QED BY <1>2

\* A sum is as large as its parts: smaller terms, smaller sum.
LEMMA SumOfOrder ==
  ASSUME NEW S, IsFiniteSet(S), NEW f, NEW g,
         \A x \in S : f[x] \in Int /\ g[x] \in Int /\ f[x] <= g[x]
  PROVE  SumOf(f, S) <= SumOf(g, S)
<1> DEFINE Good == {T \in SUBSET S : SumOf(f, T) <= SumOf(g, T)}
<1>1. ASSUME NEW T \in SUBSET S, \A U \in SUBSET T : U # T => U \in Good
      PROVE  T \in Good
  <2>1. IsFiniteSet(T)
    BY FS_Subset
  <2>2. CASE T = {}
    BY <2>2, SumOfNone
  <2>3. CASE T # {}
    <3>1. PICK x \in T : TRUE
      BY <2>3
    <3>2. T \ {x} \in SUBSET T /\ T \ {x} # T /\ IsFiniteSet(T \ {x})
      BY <2>1, FS_RemoveElement
    <3>3. \A y \in T : f[y] \in Int /\ g[y] \in Int /\ f[y] <= g[y]
      OBVIOUS
    <3>4. /\ SumOf(f, T) = f[x] + SumOf(f, T \ {x})
          /\ SumOf(g, T) = g[x] + SumOf(g, T \ {x})
      BY <2>1, <3>3, SumOfElement
    <3>5. SumOf(f, T \ {x}) \in Int /\ SumOf(g, T \ {x}) \in Int
      BY <3>2, <3>3, SumOfElement
    <3>6. SumOf(f, T \ {x}) <= SumOf(g, T \ {x})
      BY <1>1, <3>2
    <3>7. SumOf(f, T) <= SumOf(g, T)
      BY <3>3, <3>4, <3>5, <3>6
    <3> QED BY <3>7
  <2> QED BY <2>2, <2>3
<1>2. \A T \in SUBSET S : T \in Good
  <2> HIDE DEF Good
  <2> QED BY <1>1, SubsetInduction
<1> QED BY <1>2

\* Equal terms, equal sums.
LEMMA SumOfSame ==
  ASSUME NEW S, IsFiniteSet(S), NEW f, NEW g,
         \A x \in S : f[x] \in Int /\ g[x] = f[x]
  PROVE  SumOf(g, S) = SumOf(f, S)
<1>1. \A x \in S : f[x] \in Int /\ g[x] \in Int /\ f[x] <= g[x] /\ g[x] <= f[x]
  OBVIOUS
<1>2. SumOf(f, S) <= SumOf(g, S) /\ SumOf(g, S) <= SumOf(f, S)
  BY <1>1, SumOfOrder
<1>3. SumOf(f, S) \in Int /\ SumOf(g, S) \in Int
  BY <1>1, SumOfElement
<1> QED BY <1>2, <1>3

\* One term changes: the sum changes by as much.
LEMMA SumOfChange ==
  ASSUME NEW S, IsFiniteSet(S), NEW f, NEW g, NEW x \in S,
         \A y \in S : f[y] \in Int /\ g[y] \in Int,
         \A y \in S \ {x} : g[y] = f[y]
  PROVE  SumOf(g, S) = SumOf(f, S) + (g[x] - f[x])
<1>1. IsFiniteSet(S \ {x})
  BY FS_RemoveElement
<1>2. SumOf(g, S \ {x}) = SumOf(f, S \ {x})
  BY <1>1, SumOfSame
<1>3. SumOf(f, S) = f[x] + SumOf(f, S \ {x}) /\ SumOf(g, S) = g[x] + SumOf(g, S \ {x})
  BY SumOfElement
<1>4. SumOf(f, S \ {x}) \in Int
  BY <1>1, SumOfElement
<1> QED BY <1>2, <1>3, <1>4

\* A sum of naturals is a natural.
LEMMA SumOfNat ==
  ASSUME NEW S, IsFiniteSet(S), NEW f, \A x \in S : f[x] \in Nat
  PROVE  SumOf(f, S) \in Nat
<1> DEFINE z == [x \in S |-> 0]
<1>1. SumOf(z, S) = SumOf(z, S) + SumOf(z, S) /\ SumOf(z, S) \in Int
  BY SumOfLinear, SumOfElement
<1>2. SumOf(z, S) = 0
  <2>1. \A a \in Int : a = a + a => a = 0
    OBVIOUS
  <2> HIDE DEF z
  <2> QED BY <1>1, <2>1
<1>3. SumOf(z, S) <= SumOf(f, S)
  BY SumOfOrder
<1>4. SumOf(f, S) \in Int
  BY SumOfElement
<1> QED BY <1>2, <1>3, <1>4

-----------------------------------------------------------------------------
(* Credits are backed by asset locks.                                      *)

\* The balances of the identities stored under the ids of S.
BalancesOf(ids, S) == [o \in S |-> ids[o].balance]

\* The sums of CreditsBacked: satoshis of the out points spent, credits held by
\* the identities and satoshis withdrawn.
LockedSum == SumOf(Satoshis, usedOutPoints)
HeldSum == SumOf(BalancesOf(identities, Existing), Existing)
WithdrawnSum == SumOf(withdrawals, DOMAIN withdrawals)

\* What CreditsBacked says of its sums and the number of withdrawals.
Backed(locked, held, withdrawn, n) ==
  /\ held + withdrawn * RATIO <= locked * RATIO
  /\ locked * RATIO <= held + withdrawn * RATIO + (RATIO - 1) * n

\* CreditsBacked in terms of these sums.
LEMMA CreditsBackedSums ==
  CreditsBacked <=> Backed(LockedSum, HeldSum, WithdrawnSum, Len(withdrawals))
<1> DEFINE f == BalancesOf(identities, Existing)
           S == Existing
<1>1. ASSUME NEW g
      PROVE  (g = [s \in SUBSET S |-> IF s = {} THEN 0
                                      ELSE f[First(s)] + g[s \ {First(s)}]])
             <=> (g = [s \in SUBSET S |-> IF s = {} THEN 0
                                          ELSE identities[First(s)].balance + g[s \ {First(s)}]])
  <2> HIDE DEF S
  <2>1. ASSUME NEW s \in SUBSET S, s # {} PROVE f[First(s)] = identities[First(s)].balance
    BY <2>1, FirstIn DEF BalancesOf, S
  <2> HIDE DEF f
  <2> QED BY <2>1
<1>2. MapThenSumSet(LAMBDA o : identities[o].balance, Existing) = HeldSum
  <2> HIDE DEF f, S
  <2>1. (CHOOSE g : g = [s \in SUBSET S |-> IF s = {} THEN 0
                                            ELSE f[First(s)] + g[s \ {First(s)}]])
        = (CHOOSE g : g = [s \in SUBSET S |->
                             IF s = {} THEN 0
                             ELSE identities[First(s)].balance + g[s \ {First(s)}]])
    BY <1>1
  <2> QED BY <2>1 DEF f, S, HeldSum, SumOf, MapThenSumSet, MapThenFoldSet, First
<1>3. MapThenSumSet(LAMBDA o : Satoshis[o], usedOutPoints) = LockedSum
  BY DEF LockedSum, SumOf
<1>4. FoldSeq(LAMBDA s, sum : s + sum, 0, withdrawals) = WithdrawnSum
  BY DEF WithdrawnSum, SumOf, MapThenSumSet, FoldSeq, FoldFunction, FoldFunctionOnSet
<1> QED BY <1>2, <1>3, <1>4 DEF CreditsBacked, Backed, ConvertSatoshiToCredits

\* The terms of the sums are naturals, and so are the sums.
LEMMA SumsType ==
  ASSUME TypeOK
  PROVE  /\ IsFiniteSet(usedOutPoints) /\ \A o \in usedOutPoints : Satoshis[o] \in Nat
         /\ IsFiniteSet(Existing) /\ \A o \in Existing : BalancesOf(identities, Existing)[o] \in Nat
         /\ IsFiniteSet(DOMAIN withdrawals) /\ \A i \in DOMAIN withdrawals : withdrawals[i] \in Nat
         /\ LockedSum \in Nat /\ HeldSum \in Nat /\ WithdrawnSum \in Nat
         /\ Len(withdrawals) \in Nat
<1>1. IsFiniteSet(usedOutPoints) /\ IsFiniteSet(Existing)
  BY OutPointAssumption, FS_Subset DEF TypeOK, Existing
<1>2. \A o \in usedOutPoints : Satoshis[o] \in Nat
  BY OutPointAssumption DEF TypeOK
<1>3. \A o \in Existing : BalancesOf(identities, Existing)[o] \in Nat
  BY ExistingType DEF BalancesOf
<1>4. /\ Len(withdrawals) \in Nat /\ DOMAIN withdrawals = 1 .. Len(withdrawals)
      /\ \A i \in DOMAIN withdrawals : withdrawals[i] \in Nat
  BY DEF TypeOK
<1>5. IsFiniteSet(DOMAIN withdrawals)
  BY <1>4, FS_Interval
<1> QED BY <1>1, <1>2, <1>3, <1>4, <1>5, SumOfNat DEF LockedSum, HeldSum, WithdrawnSum

\* The credits of one more satoshi amount, and the number of withdrawals that may
\* each have cut off a part of a satoshi.
LEMMA BackedMoves ==
  ASSUME NEW l \in Nat, NEW h \in Nat, NEW w \in Nat, NEW n \in Nat,
         Backed(l, h, w, n)
  PROVE  /\ \A s \in Nat : Backed(s + l, h + s * RATIO, w, n)
         /\ \A a \in Nat : Backed(l, h - a, (a \div RATIO) + w, n + 1)
<1>0. RATIO \in Nat \ {0}
  BY CreditAssumption
<1>1. \A a, b \in Int : (a + b) * RATIO = a * RATIO + b * RATIO /\ a * RATIO \in Int
  BY <1>0
<1>2. \A s \in Nat : Backed(s + l, h + s * RATIO, w, n)
  <2>1. TAKE s \in Nat
  <2>2. (s + l) * RATIO = s * RATIO + l * RATIO
        /\ s * RATIO \in Int /\ l * RATIO \in Int /\ w * RATIO \in Int /\ (RATIO - 1) * n \in Int
    BY <1>0, <1>1
  <2>3. ASSUME NEW sr \in Int, NEW lr \in Int, NEW wr \in Int, NEW c \in Int,
               h + wr <= lr, lr <= h + wr + c
        PROVE  (h + sr) + wr <= sr + lr /\ sr + lr <= (h + sr) + wr + c
    BY <2>3
  <2> QED BY <2>2, <2>3 DEF Backed
<1>3. \A a \in Nat : Backed(l, h - a, (a \div RATIO) + w, n + 1)
  <2>1. TAKE a \in Nat
  <2> DEFINE d == a \div RATIO
  <2>2. d \in Int /\ d * RATIO <= a /\ a <= d * RATIO + (RATIO - 1)
    BY <1>0
  <2> HIDE DEF d
  <2>3. (d + w) * RATIO = d * RATIO + w * RATIO
        /\ d * RATIO \in Int /\ l * RATIO \in Int /\ w * RATIO \in Int
    BY <1>0, <1>1, <2>2
  <2>4. (RATIO - 1) * (n + 1) = (RATIO - 1) * n + (RATIO - 1) /\ (RATIO - 1) * n \in Int
    BY <1>0
  <2>5. ASSUME NEW dr \in Int, NEW lr \in Int, NEW wr \in Int, NEW c \in Int, NEW r \in Int,
               dr <= a, a <= dr + r, h + wr <= lr, lr <= h + wr + c
        PROVE  (h - a) + (dr + wr) <= lr /\ lr <= (h - a) + (dr + wr) + (c + r)
    BY <2>5
  <2>6. RATIO - 1 \in Int
    BY <1>0
  <2>7. Backed(l, h - a, d + w, n + 1)
    BY <2>2, <2>3, <2>4, <2>5, <2>6 DEF Backed
  <2> QED BY <2>7 DEF d
<1> QED BY <1>2, <1>3

\* One identity has another balance: the credits held change by the difference.
LEMMA HeldAfterBalance ==
  ASSUME TypeOK, NEW id \in Existing, NEW b \in Nat,
         identities' = [identities EXCEPT ![id].balance = b]
  PROVE  HeldSum' = HeldSum + (b - identities[id].balance)
<1> DEFINE f == BalancesOf(identities, Existing)
           g == BalancesOf(identities', Existing)
<1>1. Existing' = Existing
  BY BalanceEffect
<1>2. /\ id \in OutPoints /\ identities[id] \in Identity
      /\ identities \in [OutPoints -> Identity \cup {NoIdentity}]
  BY ExistingType DEF TypeOK
<1>3. /\ identities'[id] = [identities[id] EXCEPT !.balance = b]
      /\ \A x \in OutPoints : x # id => identities'[x] = identities[x]
  BY <1>2
<1>4. identities'[id].balance = b
  BY <1>2, <1>3 DEF Identity
<1>5. f[id] = identities[id].balance /\ g[id] = b
  BY <1>4 DEF BalancesOf
<1>6. \A x \in Existing \ {id} : g[x] = f[x]
  BY <1>3 DEF BalancesOf, Existing
<1>7. \A x \in Existing : f[x] \in Nat
  BY SumsType
<1>8. \A x \in Existing : f[x] \in Int /\ g[x] \in Int
  <2> HIDE DEF f, g
  <2> QED BY <1>5, <1>6, <1>7
<1>9. IsFiniteSet(Existing)
  BY SumsType
<1>10. HeldSum = SumOf(f, Existing) /\ HeldSum' = SumOf(g, Existing)
  BY <1>1 DEF HeldSum, BalancesOf
<1> HIDE DEF f, g
<1>11. SumOf(g, Existing) = SumOf(f, Existing) + (g[id] - f[id])
  BY <1>6, <1>8, <1>9, SumOfChange
<1> QED BY <1>5, <1>10, <1>11

\* The out point of a valid proof was not spent; after create or top up it is.
LEMMA LockedAfterSpending ==
  ASSUME TypeOK, NEW o \in OutPoints, o \notin usedOutPoints,
         usedOutPoints' = usedOutPoints \cup {o}
  PROVE  LockedSum' = Satoshis[o] + LockedSum
<1>1. \A x \in usedOutPoints \cup {o} : Satoshis[x] \in Int
  BY OutPointAssumption DEF TypeOK
<1>2. IsFiniteSet(usedOutPoints)
  BY SumsType
<1>3. SumOf(Satoshis, usedOutPoints \cup {o}) = Satoshis[o] + SumOf(Satoshis, usedOutPoints)
  BY <1>1, <1>2, SumOfOneMore
<1> QED BY <1>3 DEF LockedSum

\* A valid proof of either kind names an out point that is not spent.
LEMMA ProofUnspent ==
  ASSUME NEW o, NEW p \in Proofs(o), ProofValid(p)
  PROVE  o \notin usedOutPoints
<1>1. p.outPoint = o
  BY DEF Proofs
<1> QED BY <1>1 DEF ProofValid, InstantProofValid, ChainProofValid, OutPointUnused

\* A create moves the credits of its out point to a new identity.
LEMMA CreateBacked ==
  ASSUME TypeOK, CreditsBacked, NEW o \in OutPoints, NEW p \in Proofs(o),
         NEW keys \in KeyLists, IdentityCreate(o, p, keys)
  PROVE  CreditsBacked'
<1>1. o \notin usedOutPoints /\ usedOutPoints' = usedOutPoints \cup {o} /\ withdrawals' = withdrawals
  BY ProofUnspent DEF IdentityCreate, CreateBasicValid
<1>2. LockedSum' = Satoshis[o] + LockedSum
  BY <1>1, LockedAfterSpending
<1>3. /\ o \notin Existing /\ Existing' = Existing \cup {o}
      /\ \A x \in OutPoints : x # o => identities'[x] = identities[x]
  BY CreateEffect
<1>4. identities'[o].balance = Satoshis[o] * RATIO
  <2>1. identities' = [identities EXCEPT ![o] =
                         [keys |-> keys, balance |-> LockedCredits(o), revision |-> 0]]
        /\ identities \in [OutPoints -> Identity \cup {NoIdentity}]
    BY DEF IdentityCreate, TypeOK
  <2>2. identities'[o] = [keys |-> keys, balance |-> LockedCredits(o), revision |-> 0]
    BY <2>1
  <2> QED BY <2>2 DEF LockedCredits, ConvertSatoshiToCredits
<1> DEFINE f == BalancesOf(identities, Existing)
           g == BalancesOf(identities', Existing \cup {o})
<1>5. IsFiniteSet(Existing) /\ \A x \in Existing : f[x] \in Nat
  BY SumsType
<1>6. g[o] = Satoshis[o] * RATIO /\ \A x \in Existing : g[x] = f[x]
  BY <1>3, <1>4 DEF BalancesOf, Existing
<1>7. HeldSum = SumOf(f, Existing) /\ HeldSum' = SumOf(g, Existing \cup {o})
  BY <1>3 DEF HeldSum, BalancesOf
<1> HIDE DEF f, g
<1>8. Satoshis[o] \in Nat /\ Satoshis[o] * RATIO \in Int
  BY OutPointAssumption, CreditAssumption
<1>9. SumOf(g, Existing \cup {o}) = g[o] + SumOf(g, Existing)
  <2>1. \A x \in Existing \cup {o} : g[x] \in Int
    BY <1>5, <1>6, <1>8
  <2> QED BY <1>3, <1>5, <2>1, SumOfOneMore
<1>10. SumOf(g, Existing) = SumOf(f, Existing)
  <2>1. \A x \in Existing : f[x] \in Int /\ g[x] = f[x]
    BY <1>5, <1>6
  <2> QED BY <1>5, <2>1, SumOfSame
<1>11. HeldSum \in Nat /\ LockedSum \in Nat /\ WithdrawnSum \in Nat /\ Len(withdrawals) \in Nat
  BY SumsType
<1>12. HeldSum' = HeldSum + Satoshis[o] * RATIO
  BY <1>6, <1>7, <1>8, <1>9, <1>10, <1>11
<1>13. Backed(LockedSum, HeldSum, WithdrawnSum, Len(withdrawals))
  BY CreditsBackedSums
<1>14. Backed(Satoshis[o] + LockedSum, HeldSum + Satoshis[o] * RATIO, WithdrawnSum, Len(withdrawals))
  BY <1>8, <1>11, <1>13, BackedMoves
<1>15. Backed(LockedSum, HeldSum, WithdrawnSum, Len(withdrawals))'
  BY <1>1, <1>2, <1>12, <1>14 DEF Backed, WithdrawnSum
<1> QED BY <1>15, CreditsBackedSums, PTL

\* A top up moves the credits of its out point to a stored identity.
LEMMA TopUpBacked ==
  ASSUME TypeOK, CreditsBacked, NEW id \in OutPoints, NEW o \in OutPoints,
         NEW p \in Proofs(o), IdentityTopUp(id, o, p)
  PROVE  CreditsBacked'
<1>1. /\ o \notin usedOutPoints /\ usedOutPoints' = usedOutPoints \cup {o}
      /\ withdrawals' = withdrawals
  BY ProofUnspent DEF IdentityTopUp, TopUpValid
<1>2. LockedSum' = Satoshis[o] + LockedSum
  BY <1>1, LockedAfterSpending
<1>3. id \in Existing
  BY TopUpEffect
<1> DEFINE b == identities[id].balance + LockedCredits(o)
<1>4. identities[id].balance \in Nat /\ LockedCredits(o) \in Nat
  BY <1>3, ExistingType, LockedCreditsType
<1>5. b \in Nat /\ identities' = [identities EXCEPT ![id].balance = b]
  BY <1>4 DEF IdentityTopUp
<1> HIDE DEF b
<1>6. HeldSum' = HeldSum + (b - identities[id].balance)
  BY <1>3, <1>5, HeldAfterBalance
<1>7. b - identities[id].balance = Satoshis[o] * RATIO
  BY <1>4 DEF b, LockedCredits, ConvertSatoshiToCredits
<1>8. Satoshis[o] \in Nat
  BY OutPointAssumption
<1>9. HeldSum \in Nat /\ LockedSum \in Nat /\ WithdrawnSum \in Nat /\ Len(withdrawals) \in Nat
  BY SumsType
<1>10. Backed(LockedSum, HeldSum, WithdrawnSum, Len(withdrawals))
  BY CreditsBackedSums
<1>11. Backed(Satoshis[o] + LockedSum, HeldSum + Satoshis[o] * RATIO, WithdrawnSum, Len(withdrawals))
  BY <1>8, <1>9, <1>10, BackedMoves
<1>12. Backed(LockedSum, HeldSum, WithdrawnSum, Len(withdrawals))'
  BY <1>1, <1>2, <1>6, <1>7, <1>11 DEF Backed, WithdrawnSum
<1> QED BY <1>12, CreditsBackedSums, PTL

\* An update leaves every balance alone.
LEMMA UpdateBacked ==
  ASSUME TypeOK, CreditsBacked, NEW t \in Updates, IdentityUpdate(t)
  PROVE  CreditsBacked'
<1>1. usedOutPoints' = usedOutPoints /\ withdrawals' = withdrawals
  BY DEF IdentityUpdate
<1>2. /\ t.id \in Existing /\ Existing' = Existing
      /\ \A x \in OutPoints : x # t.id => identities'[x] = identities[x]
  BY UpdateEffect
<1>3. identities'[t.id].balance = identities[t.id].balance
  <2>1. /\ t.id \in OutPoints /\ identities \in [OutPoints -> Identity \cup {NoIdentity}]
        /\ identities' = [identities EXCEPT ![t.id] = UpdatedIdentity(t)]
    BY <1>2 DEF IdentityUpdate, Existing, TypeOK
  <2>2. identities'[t.id] = UpdatedIdentity(t)
    BY <2>1
  <2> QED BY <2>2 DEF UpdatedIdentity
<1> DEFINE f == BalancesOf(identities, Existing)
           g == BalancesOf(identities', Existing)
<1>4. IsFiniteSet(Existing) /\ \A x \in Existing : f[x] \in Nat
  BY SumsType
<1>5. \A x \in Existing : g[x] = f[x]
  BY <1>2, <1>3 DEF BalancesOf, Existing
<1>6. HeldSum = SumOf(f, Existing) /\ HeldSum' = SumOf(g, Existing)
  BY <1>2 DEF HeldSum, BalancesOf
<1> HIDE DEF f, g
<1>7. SumOf(g, Existing) = SumOf(f, Existing)
  <2>1. \A x \in Existing : f[x] \in Int /\ g[x] = f[x]
    BY <1>4, <1>5
  <2> QED BY <1>4, <2>1, SumOfSame
<1>8. Backed(LockedSum, HeldSum, WithdrawnSum, Len(withdrawals))
  BY CreditsBackedSums
<1>9. Backed(LockedSum, HeldSum, WithdrawnSum, Len(withdrawals))'
  BY <1>1, <1>6, <1>7, <1>8 DEF Backed, WithdrawnSum, LockedSum
<1> QED BY <1>9, CreditsBackedSums, PTL

\* The queue after a withdrawal holds as many satoshis more as it pays.
LEMMA WithdrawnAfterAppend ==
  ASSUME TypeOK, NEW s \in Nat, withdrawals' = Append(withdrawals, s)
  PROVE  WithdrawnSum' = s + WithdrawnSum /\ Len(withdrawals)' = Len(withdrawals) + 1
<1> DEFINE n == Len(withdrawals)
           longer == Append(withdrawals, s)
<1>1. withdrawals \in Seq(Nat) /\ n \in Nat /\ DOMAIN withdrawals = 1 .. n
  BY DEF TypeOK
<1>2. /\ longer \in Seq(Nat) /\ Len(longer) = n + 1
      /\ longer[n + 1] = s /\ \A i \in 1 .. n : longer[i] = withdrawals[i]
  BY <1>1, AppendProperties
<1>3. DOMAIN longer = (1 .. n) \cup {n + 1} /\ n + 1 \notin 1 .. n
  <2>1. DOMAIN longer = 1 .. (n + 1)
    BY <1>1, <1>2, LenProperties
  <2>2. 1 .. (n + 1) = (1 .. n) \cup {n + 1} /\ n + 1 \notin 1 .. n
    BY <1>1
  <2> QED BY <2>1, <2>2
<1>4. IsFiniteSet(1 .. n) /\ \A i \in 1 .. n : withdrawals[i] \in Nat
  BY <1>1, SumsType
<1> HIDE DEF longer
<1>5. SumOf(longer, (1 .. n) \cup {n + 1}) = longer[n + 1] + SumOf(longer, 1 .. n)
  <2>1. \A i \in (1 .. n) \cup {n + 1} : longer[i] \in Int
    BY <1>2, <1>4
  <2> QED BY <1>3, <1>4, <2>1, SumOfOneMore
<1>6. SumOf(longer, 1 .. n) = SumOf(withdrawals, 1 .. n)
  <2>1. \A i \in 1 .. n : withdrawals[i] \in Int /\ longer[i] = withdrawals[i]
    BY <1>2, <1>4
  <2> QED BY <1>4, <2>1, SumOfSame
<1>7. withdrawals' = longer
  BY DEF longer
<1>8. WithdrawnSum = SumOf(withdrawals, 1 .. n) /\ WithdrawnSum' = SumOf(longer, (1 .. n) \cup {n + 1})
  BY <1>1, <1>3, <1>7 DEF WithdrawnSum
<1>9. Len(withdrawals)' = n + 1
  BY <1>2, <1>7
<1> HIDE DEF n
<1>10. WithdrawnSum' = s + WithdrawnSum
  BY <1>2, <1>5, <1>6, <1>8
<1> QED BY <1>9, <1>10 DEF n

\* A withdrawal pays out the whole satoshis of the credits it takes.
LEMMA WithdrawalBacked ==
  ASSUME TypeOK, CreditsBacked, NEW id \in OutPoints, NEW amount \in Amounts, NEW k,
         CreditWithdrawal(id, amount, k)
  PROVE  CreditsBacked'
<1>1. usedOutPoints' = usedOutPoints
  BY DEF CreditWithdrawal
<1>2. id \in Existing /\ identities[id].balance >= amount
  BY DEF CreditWithdrawal, WithdrawalStateValid
<1>3. amount \in Nat /\ identities[id].balance \in Nat
  BY <1>2, ExistingType, CreditAssumption
<1> DEFINE b == identities[id].balance - amount
           s == amount \div RATIO
<1>4. b \in Nat /\ identities' = [identities EXCEPT ![id].balance = b]
  BY <1>2, <1>3 DEF CreditWithdrawal
<1>5. s \in Nat /\ withdrawals' = Append(withdrawals, s)
  <2>1. s \in Nat
    BY <1>3, CreditAssumption
  <2>2. withdrawals' = Append(withdrawals, ConvertCreditsToSatoshi(amount))
    BY DEF CreditWithdrawal
  <2> QED BY <2>1, <2>2 DEF ConvertCreditsToSatoshi
<1>6. HeldSum' = HeldSum + (b - identities[id].balance)
  <2> HIDE DEF b
  <2> QED BY <1>2, <1>4, HeldAfterBalance
<1>7. HeldSum \in Nat /\ LockedSum \in Nat /\ WithdrawnSum \in Nat /\ Len(withdrawals) \in Nat
  BY SumsType
<1>8. HeldSum' = HeldSum - amount
  BY <1>3, <1>6, <1>7
<1>9. WithdrawnSum' = s + WithdrawnSum /\ Len(withdrawals)' = Len(withdrawals) + 1
  <2> HIDE DEF s
  <2> QED BY <1>5, WithdrawnAfterAppend
<1>10. Backed(LockedSum, HeldSum, WithdrawnSum, Len(withdrawals))
  BY CreditsBackedSums
<1>11. Backed(LockedSum, HeldSum - amount, s + WithdrawnSum, Len(withdrawals) + 1)
  BY <1>3, <1>7, <1>10, BackedMoves
<1> HIDE DEF s
<1>12. Backed(LockedSum, HeldSum, WithdrawnSum, Len(withdrawals))'
  BY <1>1, <1>8, <1>9, <1>11 DEF Backed, LockedSum
<1> QED BY <1>12, CreditsBackedSums, PTL

\* A step that leaves identities, spent list and withdrawals alone.
LEMMA SameStoreBacked ==
  ASSUME CreditsBacked, UNCHANGED stored
  PROVE  CreditsBacked'
<1>1. Backed(LockedSum, HeldSum, WithdrawnSum, Len(withdrawals))
  BY CreditsBackedSums
<1>2. Backed(LockedSum, HeldSum, WithdrawnSum, Len(withdrawals))'
  BY <1>1 DEF stored, Backed, LockedSum, HeldSum, WithdrawnSum, Existing
<1> QED BY <1>2, CreditsBackedSums, PTL

\* Balances and withdrawn satoshis are covered by the out points spent, whatever
\* proofs of either kind are repeated between create and top up, and no more is
\* missing than the parts of a satoshi the withdrawals cut off.
THEOREM CreditsAlwaysBacked == Spec => []CreditsBacked
<1>1. Init => CreditsBacked
  <2> SUFFICES ASSUME Init PROVE CreditsBacked
    OBVIOUS
  <2>0. Existing = {} /\ usedOutPoints = {} /\ withdrawals = <<>>
    BY DEF Init, Existing
  <2>1. Existing = {} /\ usedOutPoints = {} /\ DOMAIN withdrawals = {} /\ Len(withdrawals) = 0
    <3>1. DOMAIN <<>> = {} /\ Len(<<>>) = 0
      OBVIOUS
    <3> QED BY <2>0, <3>1
  <2>2. LockedSum = 0 /\ HeldSum = 0 /\ WithdrawnSum = 0
    BY <2>1, SumOfNone DEF LockedSum, HeldSum, WithdrawnSum
  <2>3. Backed(0, 0, 0, 0)
    BY CreditAssumption DEF Backed
  <2> QED BY <2>1, <2>2, <2>3, CreditsBackedSums
<1>2. TypeOK /\ CreditsBacked /\ [Next]_vars => CreditsBacked'
  <2> SUFFICES ASSUME TypeOK, CreditsBacked, [Next]_vars PROVE CreditsBacked'
    OBVIOUS
  <2>1. CASE \E o \in OutPoints, keys \in KeyLists :
               \E p \in Proofs(o) : IdentityCreate(o, p, keys)
    BY <2>1, CreateBacked
  <2>2. CASE \E id, o \in OutPoints : \E p \in Proofs(o) : IdentityTopUp(id, o, p)
    BY <2>2, TopUpBacked
  <2>3. CASE \E t \in Updates : IdentityUpdate(t)
    BY <2>3, UpdateBacked
  <2>4. CASE \E id \in OutPoints, amount \in Amounts, k \in KeyIds :
               CreditWithdrawal(id, amount, k)
    BY <2>4, WithdrawalBacked
  <2>5. CASE NewBlock
    BY <2>5, SameStoreBacked DEF NewBlock
  <2>6. CASE UNCHANGED vars
    BY <2>6, SameStoreBacked DEF vars
  <2> QED BY <2>1, <2>2, <2>3, <2>4, <2>5, <2>6 DEF Next, Deliver
<1> QED BY <1>1, <1>2, IdentitiesTypeCorrect, PTL DEF Spec
=============================================================================
