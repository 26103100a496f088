---------------------- MODULE SignedTransitionsProofs ----------------------
(***************************************************************************)
(* Proofs about SignedTransitions, for every number of edits, keys and      *)
(* document types.  The heart is that the bytes to_buffer(true) writes and  *)
(* the content they are meant to cover determine each other, kind by kind.  *)
(***************************************************************************)
EXTENDS SignedTransitions, TLAPS

\* A key as IdentityPublicKey holds it.
KeyShape(k) ==
  /\ k = [id |-> k.id, type |-> k.type, data |-> k.data, signature |-> k.signature]
  /\ k.type \in KeyType

\* The fields a kind has; the others stay as Draft leaves them.
KindShape(t) ==
  /\ t.kind = "documentsBatch" =>
       t.body = (CHOOSE b \in Bodies : TRUE) /\ t.keys = <<>> /\ t.contract \in Demands
  /\ t.kind # "documentsBatch" => t.types = <<>> /\ t.contract = <<>>
  /\ t.kind \notin {"identityCreate", "identityUpdate"} => t.keys = <<>>
  /\ t.kind \in AssetLocked => t.keyId = 0

Fields(t) ==
  [kind |-> t.kind, version |-> t.version, owner |-> t.owner, body |-> t.body,
   keys |-> t.keys, types |-> t.types, contract |-> t.contract, keyId |-> t.keyId,
   signature |-> t.signature]

\* A transition as a client can hold it.
Shape(t) ==
  /\ t = Fields(t)
  /\ t.kind \in StateTransitionType /\ t.version = LATEST_VERSION
  /\ t.owner \in Ids /\ t.body \in Bodies /\ t.keyId \in KeyIds \cup {0}
  /\ t.types \in TypeLists \cup {<<>>}
  /\ t.keys = [i \in DOMAIN t.keys |-> t.keys[i]]
  /\ \A i \in DOMAIN t.keys : KeyShape(t.keys[i])
  /\ KindShape(t)

------------------------------------------------------------------------------
(* Raw forms. *)

\* An identifier in base58 becomes its bytes; bytes do not convert to bytes.
LEMMA IdentifierToBytes ==
    ASSUME NEW v
    PROVE  /\ replace_identifier(Base58(v), "bytes") = Bytes(v)
           /\ replace_identifier(Bytes(v), "bytes") = Null
BY DEF replace_identifier, Base58, Bytes, Null

\* What each kind writes, property by property: the part its signature covers,
\* and the whole.
BatchPart(t) ==
  [protocolVersion |-> Plain(t.version), type |-> Plain(t.kind),
   signaturePublicKeyId |-> Plain(t.keyId), ownerId |-> Bytes(t.owner),
   transitions |-> Plain(t.types)]

BatchWhole(t) ==
  [protocolVersion |-> Plain(t.version), type |-> Plain(t.kind),
   signaturePublicKeyId |-> Plain(t.keyId), ownerId |-> Bytes(t.owner),
   transitions |-> Plain(t.types), signature |-> Bytes(t.signature)]

ContractPart(t) ==
  [protocolVersion |-> Plain(t.version), type |-> Plain(t.kind),
   dataContract |-> Plain([of |-> t.body, ownerId |-> Bytes(t.owner)])]

ContractWhole(t) ==
  [protocolVersion |-> Plain(t.version), type |-> Plain(t.kind),
   dataContract |-> Plain([of |-> t.body, ownerId |-> Bytes(t.owner)]),
   signaturePublicKeyId |-> Plain(t.keyId), signature |-> Bytes(t.signature)]

UpdatePart(t) ==
  [protocolVersion |-> Plain(t.version), type |-> Plain(t.kind),
   signaturePublicKeyId |-> Plain(t.keyId), identityId |-> Bytes(t.owner),
   revision |-> Plain(t.body), addPublicKeys |-> Plain(RawKeys(t.keys, TRUE))]

UpdateWhole(t) ==
  [protocolVersion |-> Plain(t.version), type |-> Plain(t.kind),
   signaturePublicKeyId |-> Plain(t.keyId), identityId |-> Bytes(t.owner),
   revision |-> Plain(t.body), signature |-> Bytes(t.signature),
   addPublicKeys |-> Plain(RawKeys(t.keys, FALSE))]

WithdrawalPart(t) ==
  [protocolVersion |-> Plain(t.version), type |-> Plain(t.kind),
   identityId |-> Bytes(t.owner), amount |-> Plain(t.body),
   outputScript |-> Bytes(t.body)]

WithdrawalWhole(t) ==
  [protocolVersion |-> Plain(t.version), type |-> Plain(t.kind),
   identityId |-> Bytes(t.owner), amount |-> Plain(t.body),
   outputScript |-> Bytes(t.body), signaturePublicKeyId |-> Plain(t.keyId),
   signature |-> Bytes(t.signature)]

CreatePart(t) ==
  [protocolVersion |-> Plain(t.version), identityId |-> Null,
   publicKeys |-> Plain(RawKeys(t.keys, FALSE)), assetLockProof |-> Plain(t.body)]

CreateWhole(t) ==
  [protocolVersion |-> Plain(t.version), identityId |-> Null,
   publicKeys |-> Plain(RawKeys(t.keys, FALSE)), assetLockProof |-> Plain(t.body),
   signature |-> Bytes(t.signature)]

TopUpPart(t) ==
  [protocolVersion |-> Plain(t.version), identityId |-> Null,
   assetLockProof |-> Plain(t.body)]

TopUpWhole(t) ==
  [protocolVersion |-> Plain(t.version), identityId |-> Null,
   assetLockProof |-> Plain(t.body), signature |-> Bytes(t.signature)]

\* What a documents batch writes: the part that is signed, and the whole.
LEMMA BatchWrites ==
    ASSUME NEW t
    PROVE  /\ DocumentsBatch_to_object(t, TRUE) = BatchPart(t)
           /\ DocumentsBatch_to_object(t, FALSE) = BatchWhole(t)
<1> DEFINE o == ReplaceIds(DocumentsBatchTransition(t), {"ownerId"}, "bytes")
<1>1. DocumentsBatchTransition(t) =
        [protocolVersion |-> Plain(t.version), type |-> Plain(t.kind),
         signaturePublicKeyId |-> Plain(t.keyId), signature |-> Bytes(t.signature),
         ownerId |-> Base58(t.owner)]
  BY DEF DocumentsBatchTransition, SignedFields, With
<1>2. o = [protocolVersion |-> Plain(t.version), type |-> Plain(t.kind),
           signaturePublicKeyId |-> Plain(t.keyId), signature |-> Bytes(t.signature),
           ownerId |-> Bytes(t.owner)]
  BY <1>1, IdentifierToBytes DEF ReplaceIds
<1>3. /\ DocumentsBatch_to_object(t, TRUE) = With(Without(o, {"signature"}), "transitions", Plain(t.types))
      /\ DocumentsBatch_to_object(t, FALSE) = With(Without(o, {}), "transitions", Plain(t.types))
  BY DEF DocumentsBatch_to_object
<1> HIDE DEF o
<1>4. Without(o, {"signature"}) =
        [protocolVersion |-> Plain(t.version), type |-> Plain(t.kind),
         signaturePublicKeyId |-> Plain(t.keyId), ownerId |-> Bytes(t.owner)]
  BY <1>2 DEF Without
<1>5. Without(o, {}) = o BY <1>2 DEF Without
<1>6. With(Without(o, {"signature"}), "transitions", Plain(t.types)) = BatchPart(t)
  BY <1>4 DEF With, BatchPart
<1>7. With(Without(o, {}), "transitions", Plain(t.types)) = BatchWhole(t)
  BY <1>2, <1>5 DEF With, BatchWhole
<1> QED BY <1>3, <1>6, <1>7

\* The same for the two contract transitions.
LEMMA ContractWrites ==
    ASSUME NEW t
    PROVE  /\ DataContractCreate_to_object(t, TRUE) = ContractPart(t)
           /\ DataContractUpdate_to_object(t, TRUE) = ContractPart(t)
           /\ DataContractCreate_to_object(t, FALSE) = ContractWhole(t)
           /\ DataContractUpdate_to_object(t, FALSE) = ContractWhole(t)
<1> DEFINE c == Plain([of |-> t.body, ownerId |-> Bytes(t.owner)])
           o == SignedFields(t)
<1>1. /\ DataContractCreate_to_object(t, TRUE)
           = With(Without(o, {"signature", "signaturePublicKeyId"}), "dataContract", c)
      /\ DataContractUpdate_to_object(t, TRUE)
           = With(Without(o, {"signature", "signaturePublicKeyId"}), "dataContract", c)
      /\ DataContractCreate_to_object(t, FALSE) = With(Without(o, {}), "dataContract", c)
      /\ DataContractUpdate_to_object(t, FALSE) = With(Without(o, {}), "dataContract", c)
  BY DEF DataContractCreate_to_object, DataContractUpdate_to_object, DataContractCreateTransition,
         DataContractUpdateTransition
<1>2. Without(o, {"signature", "signaturePublicKeyId"}) =
        [protocolVersion |-> Plain(t.version), type |-> Plain(t.kind)]
  BY DEF SignedFields, Without
<1>3. Without(o, {}) = o BY DEF SignedFields, Without
<1>4. With(Without(o, {"signature", "signaturePublicKeyId"}), "dataContract", c) = ContractPart(t)
  BY <1>2 DEF With, ContractPart
<1>5. With(Without(o, {}), "dataContract", c) = ContractWhole(t)
  BY <1>3 DEF SignedFields, With, ContractWhole
<1> HIDE DEF o, c
<1> QED BY <1>1, <1>4, <1>5

\* The same for an identity update.
LEMMA UpdateWrites ==
    ASSUME NEW t
    PROVE  /\ IdentityUpdate_to_object(t, TRUE) = UpdatePart(t)
           /\ IdentityUpdate_to_object(t, FALSE) = UpdateWhole(t)
<1> DEFINE o == ReplaceIds(IdentityUpdateTransition(t), {"identityId"}, "bytes")
           signed == Plain(RawKeys(t.keys, TRUE))
           whole == Plain(RawKeys(t.keys, FALSE))
<1>1. IdentityUpdateTransition(t) =
        [protocolVersion |-> Plain(t.version), type |-> Plain(t.kind),
         signaturePublicKeyId |-> Plain(t.keyId), signature |-> Bytes(t.signature),
         identityId |-> Base58(t.owner), revision |-> Plain(t.body)]
  BY DEF IdentityUpdateTransition, SignedFields, With
<1>2. o = [protocolVersion |-> Plain(t.version), type |-> Plain(t.kind),
           signaturePublicKeyId |-> Plain(t.keyId), signature |-> Bytes(t.signature),
           identityId |-> Bytes(t.owner), revision |-> Plain(t.body)]
  BY <1>1, IdentifierToBytes DEF ReplaceIds
<1>3. /\ IdentityUpdate_to_object(t, TRUE) = With(Without(o, {"signature"}), "addPublicKeys", signed)
      /\ IdentityUpdate_to_object(t, FALSE) = With(Without(o, {}), "addPublicKeys", whole)
  BY DEF IdentityUpdate_to_object
<1>4. UpdatePart(t) =
        [protocolVersion |-> Plain(t.version), type |-> Plain(t.kind),
         signaturePublicKeyId |-> Plain(t.keyId), identityId |-> Bytes(t.owner),
         revision |-> Plain(t.body), addPublicKeys |-> signed]
  BY DEF UpdatePart
<1>5. UpdateWhole(t) =
        [protocolVersion |-> Plain(t.version), type |-> Plain(t.kind),
         signaturePublicKeyId |-> Plain(t.keyId), identityId |-> Bytes(t.owner),
         revision |-> Plain(t.body), signature |-> Bytes(t.signature), addPublicKeys |-> whole]
  BY DEF UpdateWhole
<1> HIDE DEF o, signed, whole
<1>6. Without(o, {"signature"}) =
        [protocolVersion |-> Plain(t.version), type |-> Plain(t.kind),
         signaturePublicKeyId |-> Plain(t.keyId), identityId |-> Bytes(t.owner),
         revision |-> Plain(t.body)]
  BY <1>2 DEF Without
<1>7. Without(o, {}) = o BY <1>2 DEF Without
<1>8. With(Without(o, {"signature"}), "addPublicKeys", signed) = UpdatePart(t)
  BY <1>4, <1>6 DEF With
<1>9. With(Without(o, {}), "addPublicKeys", whole) = UpdateWhole(t)
  BY <1>2, <1>5, <1>7 DEF With
<1> QED BY <1>3, <1>8, <1>9

\* The same for a credit withdrawal.
LEMMA WithdrawalWrites ==
    ASSUME NEW t
    PROVE  /\ IdentityCreditWithdrawal_to_object(t, TRUE) = WithdrawalPart(t)
           /\ IdentityCreditWithdrawal_to_object(t, FALSE) = WithdrawalWhole(t)
<1> DEFINE s == IdentityCreditWithdrawalTransition(t)
           o == [s EXCEPT !.outputScript = Bytes(@.of)]
           r == ReplaceIds(o, {"identityId"}, "bytes")
<1>1. s = [protocolVersion |-> Plain(t.version), type |-> Plain(t.kind),
           signaturePublicKeyId |-> Plain(t.keyId), signature |-> Bytes(t.signature),
           identityId |-> Base58(t.owner), amount |-> Plain(t.body), outputScript |-> Base64(t.body)]
  BY DEF IdentityCreditWithdrawalTransition, SignedFields, With
<1>2. Base64(t.body).of = t.body BY DEF Base64
<1>3. /\ IdentityCreditWithdrawal_to_object(t, TRUE) = Without(r, {"signature", "signaturePublicKeyId"})
      /\ IdentityCreditWithdrawal_to_object(t, FALSE) = Without(r, {})
  BY DEF IdentityCreditWithdrawal_to_object
<1>4. o = [protocolVersion |-> Plain(t.version), type |-> Plain(t.kind),
           signaturePublicKeyId |-> Plain(t.keyId), signature |-> Bytes(t.signature),
           identityId |-> Base58(t.owner), amount |-> Plain(t.body), outputScript |-> Bytes(t.body)]
  BY <1>1, <1>2
<1> HIDE DEF o
<1>5. r = [protocolVersion |-> Plain(t.version), type |-> Plain(t.kind),
           signaturePublicKeyId |-> Plain(t.keyId), signature |-> Bytes(t.signature),
           identityId |-> Bytes(t.owner), amount |-> Plain(t.body), outputScript |-> Bytes(t.body)]
  BY <1>4, IdentifierToBytes DEF ReplaceIds
<1> HIDE DEF r
<1>6. Without(r, {"signature", "signaturePublicKeyId"}) = WithdrawalPart(t)
  BY <1>5 DEF Without, WithdrawalPart
<1>7. Without(r, {}) = WithdrawalWhole(t)
  BY <1>5 DEF Without, WithdrawalWhole
<1> QED BY <1>3, <1>6, <1>7

\* The same for an identity create.
LEMMA CreateWrites ==
    ASSUME NEW t
    PROVE  /\ helpers_to_object(IdentityCreate_to_json_object(t), {"signature"}, {"identityId"}, TRUE)
                = CreatePart(t)
           /\ helpers_to_object(IdentityCreate_to_json_object(t), {"signature"}, {"identityId"}, FALSE)
                = CreateWhole(t)
<1> DEFINE o == ReplaceIds(IdentityCreate_to_json_object(t), {"identityId"}, "bytes")
           keys == Plain(RawKeys(t.keys, FALSE))
<1>1. IdentityCreate_to_json_object(t) =
        [signature |-> Bytes(t.signature), identityId |-> Bytes(t.signature), publicKeys |-> keys,
         assetLockProof |-> Plain(t.body), protocolVersion |-> Plain(t.version)]
  BY DEF IdentityCreate_to_json_object
<1>2. /\ helpers_to_object(IdentityCreate_to_json_object(t), {"signature"}, {"identityId"}, TRUE)
           = Without(o, {"signature"})
      /\ helpers_to_object(IdentityCreate_to_json_object(t), {"signature"}, {"identityId"}, FALSE)
           = Without(o, {})
  BY DEF helpers_to_object
<1>3. CreatePart(t) = [protocolVersion |-> Plain(t.version), identityId |-> Null, publicKeys |-> keys,
        assetLockProof |-> Plain(t.body)]
  BY DEF CreatePart
<1>4. CreateWhole(t) = [protocolVersion |-> Plain(t.version), identityId |-> Null, publicKeys |-> keys,
        assetLockProof |-> Plain(t.body), signature |-> Bytes(t.signature)]
  BY DEF CreateWhole
<1> HIDE DEF keys
<1>5. o = [signature |-> Bytes(t.signature), identityId |-> Null, publicKeys |-> keys,
           assetLockProof |-> Plain(t.body), protocolVersion |-> Plain(t.version)]
  BY <1>1, IdentifierToBytes DEF ReplaceIds
<1> HIDE DEF o
<1>6. Without(o, {"signature"}) = CreatePart(t) BY <1>3, <1>5 DEF Without
<1>7. Without(o, {}) = CreateWhole(t) BY <1>4, <1>5 DEF Without
<1> QED BY <1>2, <1>6, <1>7

\* The same for an identity top up.
LEMMA TopUpWrites ==
    ASSUME NEW t
    PROVE  /\ helpers_to_object(IdentityTopUp_to_json_object(t), {"signature"}, {"identityId"}, TRUE)
                = TopUpPart(t)
           /\ helpers_to_object(IdentityTopUp_to_json_object(t), {"signature"}, {"identityId"}, FALSE)
                = TopUpWhole(t)
<1> DEFINE o == ReplaceIds(IdentityTopUp_to_json_object(t), {"identityId"}, "bytes")
<1>1. IdentityTopUp_to_json_object(t) =
        [signature |-> Bytes(t.signature), identityId |-> Bytes(t.signature),
         assetLockProof |-> Plain(t.body), protocolVersion |-> Plain(t.version)]
  BY DEF IdentityTopUp_to_json_object
<1>2. /\ helpers_to_object(IdentityTopUp_to_json_object(t), {"signature"}, {"identityId"}, TRUE)
           = Without(o, {"signature"})
      /\ helpers_to_object(IdentityTopUp_to_json_object(t), {"signature"}, {"identityId"}, FALSE)
           = Without(o, {})
  BY DEF helpers_to_object
<1>3. TopUpPart(t) = [protocolVersion |-> Plain(t.version), identityId |-> Null,
        assetLockProof |-> Plain(t.body)]
  BY DEF TopUpPart
<1>4. TopUpWhole(t) = [protocolVersion |-> Plain(t.version), identityId |-> Null,
        assetLockProof |-> Plain(t.body), signature |-> Bytes(t.signature)]
  BY DEF TopUpWhole
<1>5. o = [signature |-> Bytes(t.signature), identityId |-> Null,
           assetLockProof |-> Plain(t.body), protocolVersion |-> Plain(t.version)]
  BY <1>1, IdentifierToBytes DEF ReplaceIds
<1> HIDE DEF o
<1>6. Without(o, {"signature"}) = TopUpPart(t) BY <1>3, <1>5 DEF Without
<1>7. Without(o, {}) = TopUpWhole(t) BY <1>4, <1>5 DEF Without
<1> QED BY <1>2, <1>6, <1>7

\* StateTransition's to_object is that of the kind it holds.
LEMMA Writes ==
    ASSUME NEW t
    PROVE  /\ t.kind = "documentsBatch" =>
                to_object(t, TRUE) = BatchPart(t) /\ to_object(t, FALSE) = BatchWhole(t)
           /\ t.kind \in {"dataContractCreate", "dataContractUpdate"} =>
                to_object(t, TRUE) = ContractPart(t) /\ to_object(t, FALSE) = ContractWhole(t)
           /\ t.kind = "identityUpdate" =>
                to_object(t, TRUE) = UpdatePart(t) /\ to_object(t, FALSE) = UpdateWhole(t)
           /\ t.kind = "identityCreditWithdrawal" =>
                to_object(t, TRUE) = WithdrawalPart(t) /\ to_object(t, FALSE) = WithdrawalWhole(t)
           /\ t.kind = "identityCreate" =>
                to_object(t, TRUE) = CreatePart(t) /\ to_object(t, FALSE) = CreateWhole(t)
           /\ t.kind = "identityTopUp" =>
                to_object(t, TRUE) = TopUpPart(t) /\ to_object(t, FALSE) = TopUpWhole(t)
<1>1. t.kind = "documentsBatch" =>
        to_object(t, TRUE) = BatchPart(t) /\ to_object(t, FALSE) = BatchWhole(t)
  BY BatchWrites DEF to_object
<1>2. t.kind \in {"dataContractCreate", "dataContractUpdate"} =>
        to_object(t, TRUE) = ContractPart(t) /\ to_object(t, FALSE) = ContractWhole(t)
  BY ContractWrites DEF to_object
<1>3. t.kind = "identityUpdate" =>
        to_object(t, TRUE) = UpdatePart(t) /\ to_object(t, FALSE) = UpdateWhole(t)
  BY UpdateWrites DEF to_object
<1>4. t.kind = "identityCreditWithdrawal" =>
        to_object(t, TRUE) = WithdrawalPart(t) /\ to_object(t, FALSE) = WithdrawalWhole(t)
  BY WithdrawalWrites DEF to_object
<1>5. t.kind = "identityCreate" =>
        to_object(t, TRUE) = CreatePart(t) /\ to_object(t, FALSE) = CreateWhole(t)
  BY CreateWrites DEF to_object
<1>6. t.kind = "identityTopUp" =>
        to_object(t, TRUE) = TopUpPart(t) /\ to_object(t, FALSE) = TopUpWhole(t)
  BY TopUpWrites DEF to_object
<1> QED BY <1>1, <1>2, <1>3, <1>4, <1>5, <1>6

\* to_buffer takes the version out and puts it in front: nothing is lost.
LEMMA BufferKeeps ==
    ASSUME NEW o, NEW p, NEW v, NEW w,
           o = [x \in DOMAIN o |-> o[x]], p = [x \in DOMAIN p |-> p[x]],
           "protocolVersion" \in DOMAIN o, "protocolVersion" \in DOMAIN p,
           o.protocolVersion = Plain(v), p.protocolVersion = Plain(w)
    PROVE  [version |-> o.protocolVersion.of, cbor |-> Without(o, {"protocolVersion"})]
             = [version |-> p.protocolVersion.of, cbor |-> Without(p, {"protocolVersion"})]
           <=> o = p
<1>1. SUFFICES ASSUME o.protocolVersion.of = p.protocolVersion.of,
                      Without(o, {"protocolVersion"}) = Without(p, {"protocolVersion"})
               PROVE  o = p
  OBVIOUS
<1> DEFINE r == Without(o, {"protocolVersion"})
           s == Without(p, {"protocolVersion"})
<1>a. DOMAIN r = DOMAIN o \ {"protocolVersion"} /\ \A x \in DOMAIN o \ {"protocolVersion"} : r[x] = o[x]
  BY DEF Without
<1>b. DOMAIN s = DOMAIN p \ {"protocolVersion"} /\ \A x \in DOMAIN p \ {"protocolVersion"} : s[x] = p[x]
  BY DEF Without
<1> HIDE DEF r, s
<1>c. r = s BY <1>1 DEF r, s
<1>2. DOMAIN o \ {"protocolVersion"} = DOMAIN p \ {"protocolVersion"} BY <1>a, <1>b, <1>c
<1>3. DOMAIN o = DOMAIN p BY <1>2
<1>4. o.protocolVersion = p.protocolVersion BY <1>1 DEF Plain
<1>5. ASSUME NEW x \in DOMAIN o, x # "protocolVersion" PROVE o[x] = p[x]
  <2>1. r[x] = o[x] /\ s[x] = p[x] BY <1>3, <1>5, <1>a, <1>b
  <2> QED BY <1>c, <2>1
<1> QED BY <1>3, <1>4, <1>5

\* What a key is written as comes back as the key.
LEMMA KeyRoundTrip ==
    ASSUME NEW k, KeyShape(k)
    PROVE  /\ key_from_raw_object(to_raw_json_object(k, FALSE)) = k
           /\ key_from_raw_object(to_raw_json_object(k, TRUE)) = [k EXCEPT !.signature = <<>>]
<1>1. k = [id |-> k.id, type |-> k.type, data |-> k.data, signature |-> k.signature] BY DEF KeyShape
<1> DEFINE w == Without(k, {"signature"})
<1>2. w = [id |-> k.id, type |-> k.type, data |-> k.data] BY <1>1 DEF Without
<1>3. key_from_raw_object(k) = k BY <1>1 DEF key_from_raw_object
<1>4. key_from_raw_object(w) = [id |-> k.id, type |-> k.type, data |-> k.data, signature |-> <<>>]
  <2> HIDE DEF w
  <2> QED BY <1>2 DEF key_from_raw_object, With
<1>5. to_raw_json_object(k, TRUE) = w BY DEF to_raw_json_object
<1>6. to_raw_json_object(k, FALSE) = IF k.signature = <<>> THEN w ELSE k BY DEF to_raw_json_object
<1>7. [k EXCEPT !.signature = <<>>] = [id |-> k.id, type |-> k.type, data |-> k.data, signature |-> <<>>]
  BY <1>1
<1> HIDE DEF w
<1>8. k.signature = <<>> => key_from_raw_object(w) = k BY <1>1, <1>4
<1> QED BY <1>3, <1>4, <1>5, <1>6, <1>7, <1>8

\* Keys written and read back: whole as they were, or without their signatures.
LEMMA KeysRoundTrip ==
    ASSUME NEW keys, keys = [i \in DOMAIN keys |-> keys[i]], \A i \in DOMAIN keys : KeyShape(keys[i])
    PROVE  /\ KeysOf(RawKeys(keys, FALSE)) = keys
           /\ KeysOf(RawKeys(keys, TRUE)) = [i \in DOMAIN keys |-> [keys[i] EXCEPT !.signature = <<>>]]
<1>1. KeysOf(RawKeys(keys, FALSE)) =
        [i \in DOMAIN keys |-> key_from_raw_object(to_raw_json_object(keys[i], FALSE))]
  BY DEF KeysOf, RawKeys
<1>2. KeysOf(RawKeys(keys, TRUE)) =
        [i \in DOMAIN keys |-> key_from_raw_object(to_raw_json_object(keys[i], TRUE))]
  BY DEF KeysOf, RawKeys
<1>3. \A i \in DOMAIN keys :
        /\ key_from_raw_object(to_raw_json_object(keys[i], FALSE)) = keys[i]
        /\ key_from_raw_object(to_raw_json_object(keys[i], TRUE)) = [keys[i] EXCEPT !.signature = <<>>]
  BY KeyRoundTrip
<1> QED BY <1>1, <1>2, <1>3

\* The keys as the content lists them.
ContentKeys(t) ==
  [i \in DOMAIN t.keys |-> Without(t.keys[i], IF t.kind = "identityCreate" THEN {} ELSE {"signature"})]

\* Two transitions of one kind have the same content when they agree on each of its fields.
LEMMA ContentEquality ==
    ASSUME NEW t, NEW u, t.kind = u.kind
    PROVE  Content(t) = Content(u)
             <=> /\ t.version = u.version /\ t.body = u.body /\ t.types = u.types
                 /\ ContentKeys(t) = ContentKeys(u)
                 /\ t.kind \notin AssetLocked => t.owner = u.owner
                 /\ t.kind \in {"documentsBatch", "identityUpdate"} => t.keyId = u.keyId
<1> DEFINE owner(x) == IF x.kind \in AssetLocked THEN {} ELSE {x.owner}
           key(x) == IF x.kind \in {"documentsBatch", "identityUpdate"} THEN {x.keyId} ELSE {}
           c(x) == [kind |-> x.kind, version |-> x.version, body |-> x.body, types |-> x.types,
                    keys |-> ContentKeys(x), owner |-> owner(x), keyId |-> key(x)]
<1>1. Content(t) = c(t) /\ Content(u) = c(u) BY DEF Content, ContentKeys
<1>2. owner(t) = owner(u) <=> (t.kind \notin AssetLocked => t.owner = u.owner) OBVIOUS
<1>3. key(t) = key(u) <=> (t.kind \in {"documentsBatch", "identityUpdate"} => t.keyId = u.keyId) OBVIOUS
<1> HIDE DEF owner, key
<1>4. c(t) = c(u) <=> /\ t.version = u.version /\ t.body = u.body /\ t.types = u.types
                      /\ ContentKeys(t) = ContentKeys(u) /\ owner(t) = owner(u) /\ key(t) = key(u)
  OBVIOUS
<1> HIDE DEF c
<1> QED BY <1>1, <1>2, <1>3, <1>4

\* The keys of a create are written whole, those of an update without signatures.
LEMMA KeysEquality ==
    ASSUME NEW t, NEW u, t.kind = u.kind, Shape(t), Shape(u)
    PROVE  /\ t.kind = "identityCreate" =>
                (ContentKeys(t) = ContentKeys(u) <=> RawKeys(t.keys, FALSE) = RawKeys(u.keys, FALSE))
           /\ t.kind = "identityUpdate" =>
                (ContentKeys(t) = ContentKeys(u) <=> RawKeys(t.keys, TRUE) = RawKeys(u.keys, TRUE))
           /\ t.kind \notin {"identityCreate", "identityUpdate"} => ContentKeys(t) = ContentKeys(u)
<1>1. /\ t.keys = [i \in DOMAIN t.keys |-> t.keys[i]] /\ \A i \in DOMAIN t.keys : KeyShape(t.keys[i])
      /\ u.keys = [i \in DOMAIN u.keys |-> u.keys[i]] /\ \A i \in DOMAIN u.keys : KeyShape(u.keys[i])
  BY DEF Shape
<1>2. ASSUME t.kind = "identityCreate"
      PROVE  ContentKeys(t) = ContentKeys(u) <=> RawKeys(t.keys, FALSE) = RawKeys(u.keys, FALSE)
  <2>1. ASSUME NEW k, KeyShape(k) PROVE Without(k, {}) = k
    <3>1. k = [id |-> k.id, type |-> k.type, data |-> k.data, signature |-> k.signature]
      BY <2>1 DEF KeyShape
    <3> QED BY <3>1 DEF Without
  <2>2. ContentKeys(t) = [i \in DOMAIN t.keys |-> Without(t.keys[i], {})] BY <1>2 DEF ContentKeys
  <2>3. ContentKeys(u) = [i \in DOMAIN u.keys |-> Without(u.keys[i], {})] BY <1>2 DEF ContentKeys
  <2>4. ContentKeys(t) = t.keys /\ ContentKeys(u) = u.keys BY <1>1, <2>1, <2>2, <2>3
  <2>5. KeysOf(RawKeys(t.keys, FALSE)) = t.keys /\ KeysOf(RawKeys(u.keys, FALSE)) = u.keys
    BY <1>1, KeysRoundTrip
  <2> QED BY <2>4, <2>5
<1>3. ASSUME t.kind = "identityUpdate"
      PROVE  ContentKeys(t) = ContentKeys(u) <=> RawKeys(t.keys, TRUE) = RawKeys(u.keys, TRUE)
  <2>1. ASSUME NEW x, x.kind = "identityUpdate" PROVE ContentKeys(x) = RawKeys(x.keys, TRUE)
    BY <2>1 DEF ContentKeys, RawKeys, to_raw_json_object
  <2> QED BY <1>3, <2>1
<1>4. t.kind \notin {"identityCreate", "identityUpdate"} => ContentKeys(t) = ContentKeys(u)
  BY DEF Shape, KindShape, ContentKeys
<1> QED BY <1>2, <1>3, <1>4

\* Two values are written alike exactly when they are the same.
LEMMA WrittenOnce ==
    ASSUME NEW v, NEW w
    PROVE  (Plain(v) = Plain(w) <=> v = w) /\ (Bytes(v) = Bytes(w) <=> v = w)
BY DEF Plain, Bytes

\* What is written for signing determines the content, and the other way round.
LEMMA PartIsContent ==
    ASSUME NEW t, NEW u, t.kind = u.kind, Shape(t), Shape(u)
    PROVE  /\ t.kind = "documentsBatch" => (BatchPart(t) = BatchPart(u) <=> Content(t) = Content(u))
           /\ t.kind \in {"dataContractCreate", "dataContractUpdate"} =>
                (ContractPart(t) = ContractPart(u) <=> Content(t) = Content(u))
           /\ t.kind = "identityUpdate" => (UpdatePart(t) = UpdatePart(u) <=> Content(t) = Content(u))
           /\ t.kind = "identityCreditWithdrawal" =>
                (WithdrawalPart(t) = WithdrawalPart(u) <=> Content(t) = Content(u))
           /\ t.kind = "identityCreate" => (CreatePart(t) = CreatePart(u) <=> Content(t) = Content(u))
           /\ t.kind = "identityTopUp" => (TopUpPart(t) = TopUpPart(u) <=> Content(t) = Content(u))
<1> DEFINE none == CHOOSE b \in Bodies : TRUE
<1>1. /\ t.kind = "documentsBatch" => t.body = none /\ u.body = none
      /\ t.kind # "documentsBatch" => t.types = u.types
  BY DEF Shape, KindShape
<1> HIDE DEF none
<1>2. Content(t) = Content(u)
        <=> /\ t.version = u.version /\ t.body = u.body /\ t.types = u.types
            /\ ContentKeys(t) = ContentKeys(u)
            /\ t.kind \notin AssetLocked => t.owner = u.owner
            /\ t.kind \in {"documentsBatch", "identityUpdate"} => t.keyId = u.keyId
  BY ContentEquality
<1> DEFINE tw == RawKeys(t.keys, FALSE)
           uw == RawKeys(u.keys, FALSE)
           ts == RawKeys(t.keys, TRUE)
           us == RawKeys(u.keys, TRUE)
<1>3. /\ t.kind = "identityCreate" => (ContentKeys(t) = ContentKeys(u) <=> tw = uw)
      /\ t.kind = "identityUpdate" => (ContentKeys(t) = ContentKeys(u) <=> ts = us)
      /\ t.kind \notin {"identityCreate", "identityUpdate"} => ContentKeys(t) = ContentKeys(u)
  BY KeysEquality
<1>4. BatchPart(t) = BatchPart(u)
        <=> /\ t.version = u.version /\ t.keyId = u.keyId /\ t.owner = u.owner /\ t.types = u.types
  BY WrittenOnce DEF BatchPart
<1>5. ContractPart(t) = ContractPart(u)
        <=> t.version = u.version /\ t.body = u.body /\ t.owner = u.owner
  <2> DEFINE ct == [of |-> t.body, ownerId |-> Bytes(t.owner)]
             cu == [of |-> u.body, ownerId |-> Bytes(u.owner)]
  <2>1. ct = cu <=> t.body = u.body /\ t.owner = u.owner BY WrittenOnce
  <2>2. /\ ContractPart(t) = [protocolVersion |-> Plain(t.version), type |-> Plain(t.kind), dataContract |-> Plain(ct)]
        /\ ContractPart(u) = [protocolVersion |-> Plain(u.version), type |-> Plain(u.kind), dataContract |-> Plain(cu)]
    BY DEF ContractPart
  <2> HIDE DEF ct, cu
  <2> QED BY <2>1, <2>2, WrittenOnce
<1>6. UpdatePart(t) = UpdatePart(u)
        <=> /\ t.version = u.version /\ t.keyId = u.keyId /\ t.owner = u.owner /\ t.body = u.body
            /\ ts = us
  <2>1. /\ UpdatePart(t) = [protocolVersion |-> Plain(t.version), type |-> Plain(t.kind),
                            signaturePublicKeyId |-> Plain(t.keyId), identityId |-> Bytes(t.owner),
                            revision |-> Plain(t.body), addPublicKeys |-> Plain(ts)]
        /\ UpdatePart(u) = [protocolVersion |-> Plain(u.version), type |-> Plain(u.kind),
                            signaturePublicKeyId |-> Plain(u.keyId), identityId |-> Bytes(u.owner),
                            revision |-> Plain(u.body), addPublicKeys |-> Plain(us)]
    BY DEF UpdatePart
  <2> HIDE DEF ts, us
  <2> QED BY <2>1, WrittenOnce
<1>7. WithdrawalPart(t) = WithdrawalPart(u)
        <=> t.version = u.version /\ t.owner = u.owner /\ t.body = u.body
  BY WrittenOnce DEF WithdrawalPart
<1>8. CreatePart(t) = CreatePart(u) <=> t.version = u.version /\ t.body = u.body /\ tw = uw
  <2>1. /\ CreatePart(t) = [protocolVersion |-> Plain(t.version), identityId |-> Null,
                            publicKeys |-> Plain(tw), assetLockProof |-> Plain(t.body)]
        /\ CreatePart(u) = [protocolVersion |-> Plain(u.version), identityId |-> Null,
                            publicKeys |-> Plain(uw), assetLockProof |-> Plain(u.body)]
    BY DEF CreatePart
  <2> HIDE DEF tw, uw
  <2> QED BY <2>1, WrittenOnce
<1>9. TopUpPart(t) = TopUpPart(u) <=> t.version = u.version /\ t.body = u.body
  BY WrittenOnce DEF TopUpPart
<1> HIDE DEF tw, uw, ts, us
<1>10. t.kind = "documentsBatch" => (BatchPart(t) = BatchPart(u) <=> Content(t) = Content(u))
  BY <1>1, <1>2, <1>3, <1>4 DEF AssetLocked
<1>11. t.kind \in {"dataContractCreate", "dataContractUpdate"} =>
         (ContractPart(t) = ContractPart(u) <=> Content(t) = Content(u))
  BY <1>1, <1>2, <1>3, <1>5 DEF AssetLocked
<1>12. t.kind = "identityUpdate" => (UpdatePart(t) = UpdatePart(u) <=> Content(t) = Content(u))
  BY <1>1, <1>2, <1>3, <1>6 DEF AssetLocked
<1>13. t.kind = "identityCreditWithdrawal" =>
         (WithdrawalPart(t) = WithdrawalPart(u) <=> Content(t) = Content(u))
  BY <1>1, <1>2, <1>3, <1>7 DEF AssetLocked
<1>14. t.kind = "identityCreate" => (CreatePart(t) = CreatePart(u) <=> Content(t) = Content(u))
  BY <1>1, <1>2, <1>3, <1>8 DEF AssetLocked
<1>15. t.kind = "identityTopUp" => (TopUpPart(t) = TopUpPart(u) <=> Content(t) = Content(u))
  BY <1>1, <1>2, <1>3, <1>9 DEF AssetLocked
<1> QED BY <1>10, <1>11, <1>12, <1>13, <1>14, <1>15

\* Every kind writes its version among the properties.
LEMMA PartShape ==
    ASSUME NEW t, NEW o, o \in {BatchPart(t), ContractPart(t), UpdatePart(t), WithdrawalPart(t),
                                CreatePart(t), TopUpPart(t)}
    PROVE  /\ o = [x \in DOMAIN o |-> o[x]]
           /\ "protocolVersion" \in DOMAIN o /\ o.protocolVersion = Plain(t.version)
<1>1. CASE o = BatchPart(t) BY <1>1 DEF BatchPart
<1>2. CASE o = ContractPart(t) BY <1>2 DEF ContractPart
<1>3. CASE o = UpdatePart(t)
  <2> DEFINE ks == Plain(RawKeys(t.keys, TRUE))
  <2>1. o = [protocolVersion |-> Plain(t.version), type |-> Plain(t.kind),
             signaturePublicKeyId |-> Plain(t.keyId), identityId |-> Bytes(t.owner),
             revision |-> Plain(t.body), addPublicKeys |-> ks]
    BY <1>3 DEF UpdatePart
  <2> HIDE DEF ks
  <2> QED BY <2>1
<1>4. CASE o = WithdrawalPart(t) BY <1>4 DEF WithdrawalPart
<1>5. CASE o = CreatePart(t)
  <2> DEFINE ks == Plain(RawKeys(t.keys, FALSE))
  <2>1. o = [protocolVersion |-> Plain(t.version), identityId |-> Null,
             publicKeys |-> ks, assetLockProof |-> Plain(t.body)]
    BY <1>5 DEF CreatePart
  <2> HIDE DEF ks
  <2> QED BY <2>1
<1>6. CASE o = TopUpPart(t) BY <1>6 DEF TopUpPart
<1> QED BY <1>1, <1>2, <1>3, <1>4, <1>5, <1>6

\* The bytes that are signed are equal exactly when the contents are: a
\* signature covers the whole content, and nothing else.
LEMMA BytesCoverContent ==
    ASSUME NEW t, NEW u, t.kind = u.kind, Shape(t), Shape(u)
    PROVE  to_buffer(t, TRUE) = to_buffer(u, TRUE) <=> Content(t) = Content(u)
<1>1. PICK o : o = to_object(t, TRUE) OBVIOUS
<1>2. PICK p : p = to_object(u, TRUE) OBVIOUS
<1>3. /\ to_buffer(t, TRUE) = [version |-> o.protocolVersion.of, cbor |-> Without(o, {"protocolVersion"})]
      /\ to_buffer(u, TRUE) = [version |-> p.protocolVersion.of, cbor |-> Without(p, {"protocolVersion"})]
  BY <1>1, <1>2 DEF to_buffer
<1>4. t.kind \in StateTransitionType BY DEF Shape
<1>5. /\ o \in {BatchPart(t), ContractPart(t), UpdatePart(t), WithdrawalPart(t), CreatePart(t), TopUpPart(t)}
      /\ p \in {BatchPart(u), ContractPart(u), UpdatePart(u), WithdrawalPart(u), CreatePart(u), TopUpPart(u)}
      /\ o = p <=> Content(t) = Content(u)
  <2>1. CASE t.kind = "documentsBatch"
    <3>1. o = BatchPart(t) /\ p = BatchPart(u) BY <1>1, <1>2, <2>1, Writes
    <3> QED BY <2>1, <3>1, PartIsContent
  <2>2. CASE t.kind \in {"dataContractCreate", "dataContractUpdate"}
    <3>1. o = ContractPart(t) /\ p = ContractPart(u) BY <1>1, <1>2, <2>2, Writes
    <3> QED BY <2>2, <3>1, PartIsContent
  <2>3. CASE t.kind = "identityUpdate"
    <3>1. o = UpdatePart(t) /\ p = UpdatePart(u) BY <1>1, <1>2, <2>3, Writes
    <3> QED BY <2>3, <3>1, PartIsContent
  <2>4. CASE t.kind = "identityCreditWithdrawal"
    <3>1. o = WithdrawalPart(t) /\ p = WithdrawalPart(u) BY <1>1, <1>2, <2>4, Writes
    <3> QED BY <2>4, <3>1, PartIsContent
  <2>5. CASE t.kind = "identityCreate"
    <3>1. o = CreatePart(t) /\ p = CreatePart(u) BY <1>1, <1>2, <2>5, Writes
    <3> QED BY <2>5, <3>1, PartIsContent
  <2>6. CASE t.kind = "identityTopUp"
    <3>1. o = TopUpPart(t) /\ p = TopUpPart(u) BY <1>1, <1>2, <2>6, Writes
    <3> QED BY <2>6, <3>1, PartIsContent
  <2> QED BY <1>4, <2>1, <2>2, <2>3, <2>4, <2>5, <2>6 DEF StateTransitionType
<1>6. /\ o = [x \in DOMAIN o |-> o[x]] /\ p = [x \in DOMAIN p |-> p[x]]
      /\ "protocolVersion" \in DOMAIN o /\ o.protocolVersion = Plain(t.version)
      /\ "protocolVersion" \in DOMAIN p /\ p.protocolVersion = Plain(u.version)
  BY <1>5, PartShape
<1>7. [version |-> o.protocolVersion.of, cbor |-> Without(o, {"protocolVersion"})]
        = [version |-> p.protocolVersion.of, cbor |-> Without(p, {"protocolVersion"})]
      <=> o = p
  BY <1>6, BufferKeeps
<1>8. (o = p) <=> (Content(t) = Content(u)) BY <1>5
<1> QED BY <1>3, <1>7, <1>8

------------------------------------------------------------------------------
(* Reading back. *)

\* The transition as the node holds it: a batch refers to the contract of the
\* node.
Rebuilt(t, d) == IF t.kind = "documentsBatch" THEN [t EXCEPT !.contract = d] ELSE t

\* A transition the node rebuilt from a form without signature.
Unsigned(n, t) ==
  /\ n.signature = <<>> /\ n.kind = t.kind /\ n.version \in {0, LATEST_VERSION}
  /\ n.owner \in Ids /\ n.body \in Bodies /\ n.keyId \in KeyIds \cup {0}
  /\ n.types = t.types /\ n.contract \in Demands \cup {<<>>}
  /\ n.keys = t.keys

\* A draft whose version, key id and signature are restored.
LEMMA DraftRestored ==
    ASSUME NEW kind, NEW owner, NEW body, NEW keys, NEW types, NEW contract, NEW v, NEW k, NEW s
    PROVE  Restored(Draft(kind, owner, body, keys, types, contract), v, k, s)
             = [kind |-> kind, version |-> v, owner |-> owner, body |-> body, keys |-> keys,
                types |-> types, contract |-> contract, keyId |-> k, signature |-> s]
<1>1. PICK r : r = Draft(kind, owner, body, keys, types, contract) OBVIOUS
<1>2. r = [kind |-> kind, version |-> LATEST_VERSION, owner |-> owner, body |-> body, keys |-> keys,
           types |-> types, contract |-> contract, keyId |-> 0, signature |-> <<>>]
  BY <1>1 DEF Draft
<1>3. Restored(r, v, k, s) =
        [kind |-> kind, version |-> v, owner |-> owner, body |-> body, keys |-> keys,
         types |-> types, contract |-> contract, keyId |-> k, signature |-> s]
  <2>1. PICK a : a = [r EXCEPT !.version = v] OBVIOUS
  <2>2. PICK b : b = [a EXCEPT !.keyId = k] OBVIOUS
  <2>3. PICK c : c = [b EXCEPT !.signature = s] OBVIOUS
  <2>4. a = [kind |-> kind, version |-> v, owner |-> owner, body |-> body, keys |-> keys,
             types |-> types, contract |-> contract, keyId |-> 0, signature |-> <<>>]
    BY <1>2, <2>1
  <2>5. b = [kind |-> kind, version |-> v, owner |-> owner, body |-> body, keys |-> keys,
             types |-> types, contract |-> contract, keyId |-> k, signature |-> <<>>]
    BY <2>2, <2>4
  <2>6. c = [kind |-> kind, version |-> v, owner |-> owner, body |-> body, keys |-> keys,
             types |-> types, contract |-> contract, keyId |-> k, signature |-> s]
    BY <2>3, <2>5
  <2>7. Restored(r, v, k, s) = c BY <2>1, <2>2, <2>3 DEF Restored
  <2> QED BY <2>6, <2>7
<1> QED BY <1>1, <1>3

\* A batch is read back whole.
LEMMA BatchReads ==
    ASSUME NEW t, Shape(t), NEW d \in Demands, t.kind = "documentsBatch"
    PROVE  /\ create_state_transition(BatchWhole(t), d) = <<Rebuilt(t, d)>>
           /\ \E n : create_state_transition(BatchPart(t), d) = <<n>> /\ Unsigned(n, t)
<1> DEFINE none == CHOOSE b \in Bodies : TRUE
<1>1. t = [kind |-> "documentsBatch", version |-> t.version, owner |-> t.owner, body |-> none,
           keys |-> <<>>, types |-> t.types, contract |-> t.contract, keyId |-> t.keyId,
           signature |-> t.signature]
  BY DEF Shape, KindShape, Fields
<1>2. Rebuilt(t, d) =
          [kind |-> "documentsBatch", version |-> t.version, owner |-> t.owner, body |-> none,
           keys |-> <<>>, types |-> t.types, contract |-> d, keyId |-> t.keyId,
           signature |-> t.signature]
  <2> HIDE DEF none
  <2> QED BY <1>1 DEF Rebuilt
<1>3. PICK o : o = BatchWhole(t) OBVIOUS
<1>4. /\ DOMAIN o = {"protocolVersion", "type", "signaturePublicKeyId", "ownerId", "transitions", "signature"}
      /\ o.protocolVersion.of = t.version /\ o.type.of = "documentsBatch"
      /\ o.signaturePublicKeyId.of = t.keyId /\ o.ownerId.form = "bytes" /\ o.ownerId.of = t.owner
      /\ o.transitions.of = t.types /\ o.signature.of = t.signature
  BY <1>3 DEF BatchWhole, Plain, Bytes
<1>5. create_state_transition(o, d) = DocumentsBatch_from_raw_object(o, d)
  BY <1>4 DEF create_state_transition
<1>6. DocumentsBatch_from_raw_object(o, d) =
        <<[kind |-> "documentsBatch", version |-> t.version, owner |-> t.owner, body |-> none,
           keys |-> <<>>, types |-> t.types, contract |-> d, keyId |-> t.keyId,
           signature |-> t.signature]>>
  <2>1. DocumentsBatch_from_raw_object(o, d) =
          <<Restored(Draft("documentsBatch", t.owner, none, <<>>, t.types, d), t.version, t.keyId, t.signature)>>
    BY <1>4 DEF DocumentsBatch_from_raw_object, SignatureIn
  <2> HIDE DEF none
  <2> QED BY <2>1, DraftRestored
<1>7. PICK p : p = BatchPart(t) OBVIOUS
<1>8. /\ DOMAIN p = {"protocolVersion", "type", "signaturePublicKeyId", "ownerId", "transitions"}
      /\ p.protocolVersion.of = t.version /\ p.type.of = "documentsBatch"
      /\ p.signaturePublicKeyId.of = t.keyId /\ p.ownerId.form = "bytes" /\ p.ownerId.of = t.owner
      /\ p.transitions.of = t.types
  BY <1>7 DEF BatchPart, Plain, Bytes
<1>9. create_state_transition(p, d) = DocumentsBatch_from_raw_object(p, d)
  BY <1>8 DEF create_state_transition
<1> DEFINE n == [kind |-> "documentsBatch", version |-> t.version, owner |-> t.owner, body |-> none,
                 keys |-> <<>>, types |-> t.types, contract |-> d, keyId |-> t.keyId,
                 signature |-> <<>>]
<1>10. DocumentsBatch_from_raw_object(p, d) = <<n>>
  <2>1. DocumentsBatch_from_raw_object(p, d) =
          <<Restored(Draft("documentsBatch", t.owner, none, <<>>, t.types, d), t.version, t.keyId, <<>>)>>
    BY <1>8 DEF DocumentsBatch_from_raw_object, SignatureIn
  <2> HIDE DEF none
  <2> QED BY <2>1, DraftRestored
<1>11. Unsigned(n, t)
  BY DEF Unsigned, Shape, KindShape
<1> HIDE DEF n, none
<1> QED BY <1>2, <1>3, <1>5, <1>6, <1>7, <1>9, <1>10, <1>11

\* So are contract creates and updates.
LEMMA ContractReads ==
    ASSUME NEW t, Shape(t), NEW d \in Demands, t.kind \in {"dataContractCreate", "dataContractUpdate"}
    PROVE  /\ create_state_transition(ContractWhole(t), d) = <<t>>
           /\ \E n : create_state_transition(ContractPart(t), d) = <<n>> /\ Unsigned(n, t)
<1>1. t = [kind |-> t.kind, version |-> t.version, owner |-> t.owner, body |-> t.body,
           keys |-> <<>>, types |-> <<>>, contract |-> <<>>, keyId |-> t.keyId,
           signature |-> t.signature]
  BY DEF Shape, KindShape, Fields
<1>2. PICK o : o = ContractWhole(t) OBVIOUS
<1>3. /\ DOMAIN o = {"protocolVersion", "type", "signaturePublicKeyId", "dataContract", "signature"}
      /\ o.protocolVersion.of = t.version /\ o.type.of = t.kind
      /\ o.signaturePublicKeyId.of = t.keyId /\ o.dataContract.of.of = t.body
      /\ o.dataContract.of.ownerId.of = t.owner /\ o.signature.of = t.signature
  BY <1>2 DEF ContractWhole, Plain, Bytes
<1>4. create_state_transition(o, d) = ContractFrom(t.kind, o)
  BY <1>3 DEF create_state_transition, DataContractCreate_from_raw_object, DataContractUpdate_from_raw_object
<1>5. ContractFrom(t.kind, o) =
        <<[kind |-> t.kind, version |-> t.version, owner |-> t.owner, body |-> t.body,
           keys |-> <<>>, types |-> <<>>, contract |-> <<>>, keyId |-> t.keyId,
           signature |-> t.signature]>>
  <2>1. ContractFrom(t.kind, o) =
          <<Restored(Draft(t.kind, t.owner, t.body, <<>>, <<>>, <<>>), t.version, t.keyId, t.signature)>>
    BY <1>3 DEF ContractFrom, SignatureIn
  <2> QED BY <2>1, DraftRestored
<1>6. PICK p : p = ContractPart(t) OBVIOUS
<1>7. /\ DOMAIN p = {"protocolVersion", "type", "dataContract"}
      /\ p.protocolVersion.of = t.version /\ p.type.of = t.kind
      /\ p.dataContract.of.of = t.body /\ p.dataContract.of.ownerId.of = t.owner
  BY <1>6 DEF ContractPart, Plain, Bytes
<1>8. create_state_transition(p, d) = ContractFrom(t.kind, p)
  BY <1>7 DEF create_state_transition, DataContractCreate_from_raw_object, DataContractUpdate_from_raw_object
<1> DEFINE n == [kind |-> t.kind, version |-> t.version, owner |-> t.owner, body |-> t.body,
                 keys |-> <<>>, types |-> <<>>, contract |-> <<>>, keyId |-> 0, signature |-> <<>>]
<1>9. ContractFrom(t.kind, p) = <<n>>
  <2>1. ContractFrom(t.kind, p) =
          <<Restored(Draft(t.kind, t.owner, t.body, <<>>, <<>>, <<>>), t.version, 0, <<>>)>>
    BY <1>7 DEF ContractFrom, SignatureIn
  <2> QED BY <2>1, DraftRestored
<1>10. Unsigned(n, t)
  BY DEF Unsigned, Shape, KindShape
<1> HIDE DEF n
<1>11. create_state_transition(o, d) = <<t>> BY <1>1, <1>4, <1>5
<1> QED BY <1>2, <1>6, <1>8, <1>9, <1>10, <1>11

\* A withdrawal is read back whole; without a signature it is refused.
LEMMA WithdrawalReads ==
    ASSUME NEW t, Shape(t), NEW d \in Demands, t.kind = "identityCreditWithdrawal"
    PROVE  /\ create_state_transition(WithdrawalWhole(t), d) = <<t>>
           /\ create_state_transition(WithdrawalPart(t), d) = <<>>
<1>1. t = [kind |-> "identityCreditWithdrawal", version |-> t.version, owner |-> t.owner, body |-> t.body,
           keys |-> <<>>, types |-> <<>>, contract |-> <<>>, keyId |-> t.keyId,
           signature |-> t.signature]
  BY DEF Shape, KindShape, Fields
<1>2. PICK o : o = WithdrawalWhole(t) OBVIOUS
<1>3. /\ DOMAIN o = {"protocolVersion", "type", "signaturePublicKeyId", "identityId", "amount",
                     "outputScript", "signature"}
      /\ o.protocolVersion.of = t.version /\ o.type.of = "identityCreditWithdrawal"
      /\ o.signaturePublicKeyId.of = t.keyId /\ o.identityId = Bytes(t.owner) /\ o.identityId.of = t.owner
      /\ o.amount.of = t.body /\ o.outputScript.form = "bytes" /\ o.signature.of = t.signature
  BY <1>2 DEF WithdrawalWhole, Plain, Bytes
<1>4. create_state_transition(o, d) = IdentityCreditWithdrawal_from_raw_object(o)
  BY <1>3 DEF create_state_transition
<1>5. replace_identifier(o.identityId, "base58") # Null
  <2>1. t.owner \in Ids BY DEF Shape
  <2>2. replace_identifier(Bytes(t.owner), "base58") = Base58(t.owner)
    BY <2>1 DEF replace_identifier, Bytes, Base58
  <2>3. Base58(t.owner) # Null BY DEF Base58, Null
  <2> QED BY <1>3, <2>2, <2>3
<1>6. ~ ReplacementFails(o, {"identityId"}, "base58") BY <1>5 DEF ReplacementFails
<1>7. IdentityCreditWithdrawal_from_raw_object(o) =
        <<[kind |-> "identityCreditWithdrawal", version |-> t.version, owner |-> t.owner, body |-> t.body,
           keys |-> <<>>, types |-> <<>>, contract |-> <<>>, keyId |-> t.keyId,
           signature |-> t.signature]>>
  <2>1. IdentityCreditWithdrawal_from_raw_object(o) =
          <<Restored(Draft("identityCreditWithdrawal", t.owner, t.body, <<>>, <<>>, <<>>), t.version, t.keyId, t.signature)>>
    BY <1>3, <1>6 DEF IdentityCreditWithdrawal_from_raw_object, SignatureIn
  <2> QED BY <2>1, DraftRestored
<1>8. create_state_transition(o, d) = <<t>> BY <1>1, <1>4, <1>7
<1>9. PICK p : p = WithdrawalPart(t) OBVIOUS
<1>10. /\ DOMAIN p = {"protocolVersion", "type", "identityId", "amount", "outputScript"}
       /\ p.type.of = "identityCreditWithdrawal"
  BY <1>9 DEF WithdrawalPart, Plain
<1>11. create_state_transition(p, d) = IdentityCreditWithdrawal_from_raw_object(p)
  BY <1>10 DEF create_state_transition
<1>12. IdentityCreditWithdrawal_from_raw_object(p) = <<>>
  BY <1>10 DEF IdentityCreditWithdrawal_from_raw_object
<1> QED BY <1>2, <1>8, <1>9, <1>11, <1>12

\* An update names its kind; an asset-locked kind does not.
LEMMA RawTypes ==
    ASSUME NEW t
    PROVE  /\ "type" \in DOMAIN UpdateWhole(t) /\ UpdateWhole(t).type.of = t.kind
           /\ "type" \in DOMAIN UpdatePart(t) /\ UpdatePart(t).type.of = t.kind
           /\ "type" \notin DOMAIN CreateWhole(t) /\ "type" \notin DOMAIN CreatePart(t)
           /\ "type" \notin DOMAIN TopUpWhole(t) /\ "type" \notin DOMAIN TopUpPart(t)
BY DEF UpdateWhole, UpdatePart, CreateWhole, CreatePart, TopUpWhole, TopUpPart, Plain

\* The factory does not build identity updates, and finds no type in what an
\* asset-locked kind writes of itself.
LEMMA OthersRead ==
    ASSUME NEW t, Shape(t), NEW d
    PROVE  /\ t.kind = "identityUpdate" => /\ create_state_transition(UpdateWhole(t), d) = <<>>
                                           /\ create_state_transition(UpdatePart(t), d) = <<>>
           /\ create_state_transition(CreateWhole(t), d) = <<>>
           /\ create_state_transition(CreatePart(t), d) = <<>>
           /\ create_state_transition(TopUpWhole(t), d) = <<>>
           /\ create_state_transition(TopUpPart(t), d) = <<>>
<1>1. ASSUME NEW o, "type" \in DOMAIN o, o.type.of = "identityUpdate" PROVE create_state_transition(o, d) = <<>>
  BY <1>1 DEF create_state_transition
<1>2. ASSUME NEW o, "type" \notin DOMAIN o PROVE create_state_transition(o, d) = <<>>
  BY <1>2 DEF create_state_transition
<1> QED BY <1>1, <1>2, RawTypes

\* With its type added, an asset-locked kind is rebuilt from its keys and its
\* proof alone.
LEMMA TypedReads ==
    ASSUME NEW t, Shape(t), NEW d \in Demands, t.kind \in AssetLocked
    PROVE  \E n : create_state_transition(With(to_object(t, FALSE), "type", Plain(t.kind)), d) = <<n>>
                  /\ Unsigned(n, t)
<1>1. PICK o : o = to_object(t, FALSE) OBVIOUS
<1>2. PICK w : w = With(o, "type", Plain(t.kind)) OBVIOUS
<1>3. Plain(t.kind).of = t.kind BY DEF Plain
<1>4. /\ DOMAIN w = DOMAIN o \cup {"type"} /\ w.type = Plain(t.kind)
      /\ \A p \in DOMAIN o : p # "type" => w[p] = o[p]
  <2>1. PICK v : v = Plain(t.kind) OBVIOUS
  <2>2. w = With(o, "type", v) BY <1>2, <2>1
  <2>3. /\ DOMAIN w = DOMAIN o \cup {"type"} /\ w["type"] = v
        /\ \A p \in DOMAIN o : p # "type" => w[p] = o[p]
    BY <2>2 DEF With
  <2> QED BY <2>1, <2>3
<1>5. LockId[t.body] \in Ids BY SignedAssumption DEF Shape
<1>6. t.types = <<>> /\ t.keys = [i \in DOMAIN t.keys |-> t.keys[i]] /\ t.body \in Bodies
      /\ \A i \in DOMAIN t.keys : KeyShape(t.keys[i])
  BY DEF Shape, KindShape, AssetLocked
<1>7. CASE t.kind = "identityCreate"
  <2>1. o = CreateWhole(t) BY <1>1, <1>7, Writes
  <2> DEFINE ks == RawKeys(t.keys, FALSE)
  <2>2. CreateWhole(t) = [protocolVersion |-> Plain(t.version), identityId |-> Null, publicKeys |-> Plain(ks),
                          assetLockProof |-> Plain(t.body), signature |-> Bytes(t.signature)]
    BY DEF CreateWhole
  <2>3. KeysOf(ks) = t.keys BY <1>6, KeysRoundTrip
  <2> HIDE DEF ks
  <2>4. w.publicKeys.of = ks /\ w.assetLockProof.of = t.body
    BY <1>4, <2>1, <2>2 DEF Plain
  <2>5. create_state_transition(w, d) = IdentityCreate_new(w)
    BY <1>3, <1>4, <1>7 DEF create_state_transition
  <2>6. IdentityCreate_new(w) =
          <<Restored(Draft("identityCreate", LockId[t.body], t.body, t.keys, <<>>, <<>>), 0, 0, <<>>)>>
    BY <2>3, <2>4 DEF IdentityCreate_new
  <2>7. PICK n : n = [kind |-> "identityCreate", version |-> 0, owner |-> LockId[t.body], body |-> t.body,
                 keys |-> t.keys, types |-> <<>>, contract |-> <<>>, keyId |-> 0, signature |-> <<>>]
    OBVIOUS
  <2>8. IdentityCreate_new(w) = <<n>> BY <2>6, <2>7, DraftRestored
  <2>9. Unsigned(n, t) BY <1>5, <1>6, <1>7, <2>7 DEF Unsigned
  <2> QED BY <1>1, <1>2, <2>5, <2>8, <2>9
<1>8. CASE t.kind = "identityTopUp"
  <2>1. o = TopUpWhole(t) BY <1>1, <1>8, Writes
  <2>2. t.keys = <<>> BY <1>8 DEF Shape, KindShape
  <2>4. w.assetLockProof.of = t.body
    BY <1>4, <2>1 DEF Plain, TopUpWhole
  <2>5. create_state_transition(w, d) = IdentityTopUp_new(w)
    BY <1>3, <1>4, <1>8 DEF create_state_transition
  <2>6. IdentityTopUp_new(w) =
          <<Restored(Draft("identityTopUp", LockId[t.body], t.body, <<>>, <<>>, <<>>), 0, 0, <<>>)>>
    BY <2>4 DEF IdentityTopUp_new
  <2>7. PICK n : n = [kind |-> "identityTopUp", version |-> 0, owner |-> LockId[t.body], body |-> t.body,
                 keys |-> <<>>, types |-> <<>>, contract |-> <<>>, keyId |-> 0, signature |-> <<>>]
    OBVIOUS
  <2>8. IdentityTopUp_new(w) = <<n>> BY <2>6, <2>7, DraftRestored
  <2>9. Unsigned(n, t) BY <1>5, <1>6, <1>8, <2>2, <2>7 DEF Unsigned
  <2> QED BY <1>1, <1>2, <2>5, <2>8, <2>9
<1> QED BY <1>7, <1>8 DEF AssetLocked

\* Taking the version out and putting it back changes nothing: the enum's
\* bytes are read as what was signed.
LEMMA VersionReturns ==
    ASSUME NEW o, NEW v, o = [x \in DOMAIN o |-> o[x]],
           "protocolVersion" \in DOMAIN o, o.protocolVersion = Plain(v)
    PROVE  decode_protocol_entity([version |-> o.protocolVersion.of,
                                   cbor |-> Without(o, {"protocolVersion"})]) = o
<1>1. PICK c : c = Without(o, {"protocolVersion"}) OBVIOUS
<1>2. /\ DOMAIN c = DOMAIN o \ {"protocolVersion"} /\ \A x \in DOMAIN o \ {"protocolVersion"} : c[x] = o[x]
  BY <1>1 DEF Without
<1>3. o.protocolVersion.of = v BY DEF Plain
<1>4. PICK b : b = [version |-> o.protocolVersion.of, cbor |-> c] OBVIOUS
<1>5. b.cbor = c /\ b.version = v BY <1>3, <1>4
<1>6. decode_protocol_entity(b) = With(c, "protocolVersion", Plain(v))
  BY <1>5 DEF decode_protocol_entity
<1>7. With(c, "protocolVersion", Plain(v)) = o
  BY <1>2 DEF With
<1> QED BY <1>1, <1>4, <1>6, <1>7

\* The enum's to_buffer writes the signed part, and decoding gives that object back.
LEMMA EnumWritesPart ==
    ASSUME NEW t, Shape(t)
    PROVE  /\ decode_protocol_entity(enum_to_buffer(t)) = to_object(t, TRUE)
           /\ to_object(t, TRUE) \in {BatchPart(t), ContractPart(t), UpdatePart(t), WithdrawalPart(t),
                                      CreatePart(t), TopUpPart(t)}
<1>1. PICK o : o = to_object(t, TRUE) OBVIOUS
<1>2. t.kind \in StateTransitionType BY DEF Shape
<1>3. o \in {BatchPart(t), ContractPart(t), UpdatePart(t), WithdrawalPart(t), CreatePart(t), TopUpPart(t)}
  BY <1>1, <1>2, Writes DEF StateTransitionType
<1>4. /\ o = [x \in DOMAIN o |-> o[x]] /\ "protocolVersion" \in DOMAIN o
      /\ o.protocolVersion = Plain(t.version)
  BY <1>3, PartShape
<1>5. enum_to_buffer(t) = [version |-> o.protocolVersion.of, cbor |-> Without(o, {"protocolVersion"})]
  BY <1>1 DEF enum_to_buffer, to_buffer
<1>6. decode_protocol_entity(enum_to_buffer(t)) = o BY <1>4, <1>5, VersionReturns
<1> QED BY <1>1, <1>3, <1>6

\* The raw form o that a transition t has when it leaves by route r.
SentAs(t, r, o) ==
  \/ r = "object" /\ o = to_object(t, FALSE)
  \/ r = "enum" /\ o = decode_protocol_entity(enum_to_buffer(t))
  \/ r = "typed" /\ t.kind \in AssetLocked /\ o = With(to_object(t, FALSE), "type", Plain(t.kind))

\* The kinds the factory rebuilds from what they write of themselves.
Rebuildable(t) == t.kind \notin AssetLocked \cup {"identityUpdate"}

\* What the node can make of what it is sent: nothing, a transition without
\* signature, or the transition itself.
LEMMA NodeReads ==
    ASSUME NEW t, Shape(t), NEW d \in Demands, NEW r, NEW o, SentAs(t, r, o)
    PROVE  /\ r = "object" /\ Rebuildable(t) => create_state_transition(o, d) = <<Rebuilt(t, d)>>
           /\ r = "object" /\ ~ Rebuildable(t) => create_state_transition(o, d) = <<>>
           /\ r # "object" => \/ create_state_transition(o, d) = <<>>
                              \/ \E n : create_state_transition(o, d) = <<n>> /\ Unsigned(n, t)
<1>1. t.kind \in StateTransitionType BY DEF Shape
<1>2. CASE r = "object"
  <2>1. o = to_object(t, FALSE) BY <1>2 DEF SentAs
  <2>2. CASE t.kind = "documentsBatch"
    <3>1. create_state_transition(o, d) = <<Rebuilt(t, d)>> BY <2>1, <2>2, Writes, BatchReads
    <3> QED BY <1>2, <2>2, <3>1 DEF Rebuildable, AssetLocked
  <2>3. CASE t.kind \in {"dataContractCreate", "dataContractUpdate"}
    <3>1. create_state_transition(o, d) = <<t>> BY <2>1, <2>3, Writes, ContractReads
    <3> QED BY <1>2, <2>3, <3>1 DEF Rebuildable, AssetLocked, Rebuilt
  <2>4. CASE t.kind = "identityCreditWithdrawal"
    <3>1. create_state_transition(o, d) = <<t>> BY <2>1, <2>4, Writes, WithdrawalReads
    <3> QED BY <1>2, <2>4, <3>1 DEF Rebuildable, AssetLocked, Rebuilt
  <2>5. CASE t.kind \in {"identityUpdate", "identityCreate", "identityTopUp"}
    <3>1. create_state_transition(o, d) = <<>> BY <2>1, <2>5, Writes, OthersRead
    <3> QED BY <1>2, <2>5, <3>1 DEF Rebuildable, AssetLocked
  <2> QED BY <1>1, <2>2, <2>3, <2>4, <2>5 DEF StateTransitionType
<1>3. CASE r = "enum"
  <2>1. o = to_object(t, TRUE) BY <1>3, EnumWritesPart DEF SentAs
  <2>2. CASE t.kind = "documentsBatch"
    <3>1. \E n : create_state_transition(o, d) = <<n>> /\ Unsigned(n, t) BY <2>1, <2>2, Writes, BatchReads
    <3> QED BY <1>3, <3>1
  <2>3. CASE t.kind \in {"dataContractCreate", "dataContractUpdate"}
    <3>1. \E n : create_state_transition(o, d) = <<n>> /\ Unsigned(n, t) BY <2>1, <2>3, Writes, ContractReads
    <3> QED BY <1>3, <3>1
  <2>4. CASE t.kind = "identityCreditWithdrawal"
    <3>1. create_state_transition(o, d) = <<>> BY <2>1, <2>4, Writes, WithdrawalReads
    <3> QED BY <1>3, <3>1
  <2>5. CASE t.kind \in {"identityUpdate", "identityCreate", "identityTopUp"}
    <3>1. create_state_transition(o, d) = <<>> BY <2>1, <2>5, Writes, OthersRead
    <3> QED BY <1>3, <3>1
  <2> QED BY <1>1, <2>2, <2>3, <2>4, <2>5 DEF StateTransitionType
<1>4. CASE r = "typed"
  <2>1. t.kind \in AssetLocked /\ o = With(to_object(t, FALSE), "type", Plain(t.kind))
    BY <1>4 DEF SentAs
  <2>2. \E n : create_state_transition(o, d) = <<n>> /\ Unsigned(n, t) BY <2>1, TypedReads
  <2> QED BY <1>4, <2>2
<1> QED BY <1>2, <1>3, <1>4 DEF SentAs

------------------------------------------------------------------------------
(* The inductive invariant. *)

\* k = <<i, id>> is a stored key that may sign u, with private key p.
StoredSigner(u, k, type, p) ==
  \E i \in Ids : \E id \in DOMAIN StoredKeys[i] :
    /\ k = <<i, id>>
    /\ StoredKeys[i][id].type = type /\ StoredKeys[i][id].data.of = p
    /\ verify_public_key_level_and_purpose(u, StoredKeys[i][id])

\* The signature t carries is the one g tells of, made over some transition u
\* of the same kind and under the same contract.
SigningOf(t, g) ==
  \/ g = <<>> /\ t.signature = <<>>
  \/ \E u, k : \E type \in SUPPORTED_KEY_TYPES, p \in PrivateKeys :
       /\ Shape(u) /\ u.kind = t.kind /\ u.contract = t.contract
       /\ t.signature = SignatureOf(type, p, to_buffer(u, TRUE))
       /\ g = <<[key |-> k, priv |-> p, scheme |-> Scheme(type), content |-> Content(u)]>>
       /\ t.kind \notin AssetLocked => StoredSigner(u, k, type, p)

\* The same for the signature a key carries in a transition of this kind.
ProofOf(key, g, kind) ==
  \/ g = <<>> /\ key.signature = <<>>
  \/ \E u : \E p \in PrivateKeys :
       /\ Shape(u) /\ u.kind = kind /\ key.type \in SUPPORTED_KEY_TYPES
       /\ key.signature = SignatureOf(key.type, p, to_buffer(u, TRUE))
       /\ g = <<[key |-> <<>>, priv |-> p, scheme |-> Scheme(key.type), content |-> Content(u)]>>

ProofsOf(t, gs) ==
  /\ gs = [i \in DOMAIN t.keys |-> gs[i]]
  /\ \A i \in DOMAIN t.keys : ProofOf(t.keys[i], gs[i], t.kind)

SentInv ==
  /\ phase = "draft" => node = <<>> /\ route = "none"
  /\ phase = "sent" => node = <<>> /\ SentAs(st, route, raw)
  /\ phase = "answered" => /\ SentAs(st, route, raw)
                           /\ \E d \in Demands : node = create_state_transition(raw, d)

Bounds ==
  /\ steps \in 0..MaxSteps /\ phase \in {"draft", "sent", "answered"}
  /\ disabled \subseteq MayDisable /\ demand \in Demands

SignedInv ==
  Shape(st) /\ SigningOf(st, signing) /\ ProofsOf(st, proofs) /\ SentInv /\ Bounds

\* A transition with other key id, keys or signature keeps its shape.
LEMMA ShapeKept ==
    ASSUME NEW t, Shape(t), NEW u, u = Fields(u),
           u.kind = t.kind, u.version = t.version, u.owner = t.owner, u.body = t.body,
           u.types = t.types, u.contract = t.contract,
           u.keyId \in KeyIds \cup {0}, t.kind \in AssetLocked => u.keyId = 0,
           DOMAIN u.keys = DOMAIN t.keys, u.keys = [i \in DOMAIN u.keys |-> u.keys[i]],
           \A i \in DOMAIN u.keys : KeyShape(u.keys[i]),
           t.keys = <<>> => u.keys = <<>>
    PROVE  Shape(u)
BY DEF Shape, KindShape

\* An unsigned key as the client lists it.
LEMMA AddedKeyShape ==
    ASSUME NEW k \in AddedKey
    PROVE  KeyShape(k) /\ k.signature = <<>>
BY DEF AddedKey, KeyShape

\* The arguments a draft is made with.
DraftArgs(kind, owner, body, keys, types, contract) ==
  /\ kind \in StateTransitionType /\ owner \in Ids /\ body \in Bodies /\ types \in TypeLists \cup {<<>>}
  /\ keys = [i \in DOMAIN keys |-> keys[i]]
  /\ \A i \in DOMAIN keys : KeyShape(keys[i]) /\ keys[i].signature = <<>>
  /\ kind = "documentsBatch" => body = (CHOOSE b \in Bodies : TRUE) /\ keys = <<>> /\ contract \in Demands
  /\ kind # "documentsBatch" => types = <<>> /\ contract = <<>>
  /\ kind \notin {"identityCreate", "identityUpdate"} => keys = <<>>

\* A draft as the setters leave it, with nothing signed.
Fresh(t, kind, contract) ==
  /\ Shape(t) /\ t.signature = <<>> /\ t.keyId = 0 /\ t.kind = kind /\ t.contract = contract
  /\ \A i \in DOMAIN t.keys : t.keys[i].signature = <<>>

\* A draft is well shaped and unsigned.
LEMMA DraftIsFresh ==
    ASSUME NEW kind, NEW owner, NEW body, NEW keys, NEW types, NEW contract,
           DraftArgs(kind, owner, body, keys, types, contract)
    PROVE  Fresh(Draft(kind, owner, body, keys, types, contract), kind, contract)
<1> DEFINE none == CHOOSE b \in Bodies : TRUE
<1>1. PICK t : t = Draft(kind, owner, body, keys, types, contract) OBVIOUS
<1>2. t = [kind |-> kind, version |-> LATEST_VERSION, owner |-> owner, body |-> body, keys |-> keys,
           types |-> types, contract |-> contract, keyId |-> 0, signature |-> <<>>]
  BY <1>1 DEF Draft
<1>3. t = Fields(t) BY <1>2 DEF Fields
<1>4. KindShape(t)
  <2>1. kind = "documentsBatch" => body = none /\ keys = <<>> /\ contract \in Demands BY DEF DraftArgs
  <2>2. kind # "documentsBatch" => types = <<>> /\ contract = <<>> BY DEF DraftArgs
  <2>3. kind \notin {"identityCreate", "identityUpdate"} => keys = <<>> BY DEF DraftArgs
  <2> QED BY <1>2, <2>1, <2>2, <2>3 DEF KindShape
<1>5. Shape(t) BY <1>2, <1>3, <1>4 DEF Shape, DraftArgs
<1>6. \A i \in DOMAIN keys : keys[i].signature = <<>> BY DEF DraftArgs
<1> QED BY <1>1, <1>2, <1>5, <1>6 DEF Fresh

\* A draft as the program builds it.
LEMMA DraftShape ==
    ASSUME NEW c, NEW t \in Drafts(c), t.kind = "documentsBatch" => c \in Demands
    PROVE  Fresh(t, t.kind, IF t.kind = "documentsBatch" THEN c ELSE <<>>)
<1> DEFINE none == CHOOSE b \in Bodies : TRUE
           o == CHOOSE i \in Ids : TRUE
<1>1. none \in Bodies /\ o \in Ids BY SignedAssumption
<1>2. LockId \in [Bodies -> Ids] BY SignedAssumption
<1>3. ASSUME NEW ks \in KeyLists
      PROVE  /\ ks = [i \in DOMAIN ks |-> ks[i]]
             /\ \A i \in DOMAIN ks : KeyShape(ks[i]) /\ ks[i].signature = <<>>
  <2>1. ks \in Seq(AddedKey) BY KeysAssumption
  <2>2. DOMAIN ks = 1..Len(ks) /\ \A i \in 1..Len(ks) : ks[i] \in AddedKey BY <2>1
  <2>3. ks = [i \in DOMAIN ks |-> ks[i]] BY <2>1
  <2> QED BY <2>2, <2>3, AddedKeyShape
<1>5. \A i \in DOMAIN <<>> : KeyShape(<<>>[i]) /\ <<>>[i].signature = <<>> OBVIOUS
<1>6. <<>> = [i \in DOMAIN <<>> |-> <<>>[i]] OBVIOUS
<1>7. \/ \E ts \in TypeLists : t = Draft("documentsBatch", o, none, <<>>, ts, c)
      \/ \E b \in Bodies, ks \in KeyLists : t = Draft("identityCreate", LockId[b], b, ks, <<>>, <<>>)
      \/ \E i \in Ids, b \in Bodies : t = Draft("identityTopUp", i, b, <<>>, <<>>, <<>>)
      \/ \E i \in Ids, b \in Bodies, ks \in KeyLists : t = Draft("identityUpdate", i, b, ks, <<>>, <<>>)
      \/ \E i \in Ids, b \in Bodies,
            k \in {"dataContractCreate", "dataContractUpdate", "identityCreditWithdrawal"} :
           t = Draft(k, i, b, <<>>, <<>>, <<>>)
  BY DEF Drafts
<1>8. ASSUME NEW ts \in TypeLists, t = Draft("documentsBatch", o, none, <<>>, ts, c)
      PROVE  Fresh(t, "documentsBatch", c)
  <2>1. t.kind = "documentsBatch" BY <1>8 DEF Draft
  <2>2. DraftArgs("documentsBatch", o, none, <<>>, ts, c)
    BY <1>1, <1>5, <1>6, <2>1 DEF DraftArgs, StateTransitionType
  <2> HIDE DEF o, none
  <2> QED BY <1>8, <2>2, DraftIsFresh
<1>9. ASSUME NEW b \in Bodies, NEW ks \in KeyLists, t = Draft("identityCreate", LockId[b], b, ks, <<>>, <<>>)
      PROVE  Fresh(t, "identityCreate", <<>>)
  <2>1. DraftArgs("identityCreate", LockId[b], b, ks, <<>>, <<>>)
    BY <1>2, <1>3 DEF DraftArgs, StateTransitionType
  <2> QED BY <1>9, <2>1, DraftIsFresh
<1>10. ASSUME NEW i \in Ids, NEW b \in Bodies, t = Draft("identityTopUp", i, b, <<>>, <<>>, <<>>)
       PROVE  Fresh(t, "identityTopUp", <<>>)
  <2>1. DraftArgs("identityTopUp", i, b, <<>>, <<>>, <<>>)
    BY <1>5, <1>6 DEF DraftArgs, StateTransitionType
  <2> QED BY <1>10, <2>1, DraftIsFresh
<1>11. ASSUME NEW i \in Ids, NEW b \in Bodies, NEW ks \in KeyLists,
              t = Draft("identityUpdate", i, b, ks, <<>>, <<>>)
       PROVE  Fresh(t, "identityUpdate", <<>>)
  <2>1. DraftArgs("identityUpdate", i, b, ks, <<>>, <<>>)
    BY <1>3 DEF DraftArgs, StateTransitionType
  <2> QED BY <1>11, <2>1, DraftIsFresh
<1>12. ASSUME NEW i \in Ids, NEW b \in Bodies,
              NEW k \in {"dataContractCreate", "dataContractUpdate", "identityCreditWithdrawal"},
              t = Draft(k, i, b, <<>>, <<>>, <<>>)
       PROVE  Fresh(t, k, <<>>) /\ k # "documentsBatch"
  <2>1. DraftArgs(k, i, b, <<>>, <<>>, <<>>)
    BY <1>5, <1>6 DEF DraftArgs, StateTransitionType
  <2> QED BY <1>12, <2>1, DraftIsFresh
<1>13. \E k, x : Fresh(t, k, x) /\ x = IF k = "documentsBatch" THEN c ELSE <<>>
  <2> HIDE DEF none, o
  <2> QED BY <1>7, <1>8, <1>9, <1>10, <1>11, <1>12
<1>14. \A k, x : Fresh(t, k, x) => t.kind = k BY DEF Fresh
<1> QED BY <1>13, <1>14

\* The first draft.
LEMMA InitSigned == Init => SignedInv
<1>1. SUFFICES ASSUME Init PROVE SignedInv OBVIOUS
<1>2. demand \in Demands /\ st \in Drafts(demand) BY <1>1 DEF Init
<1>3. Fresh(st, st.kind, IF st.kind = "documentsBatch" THEN demand ELSE <<>>) BY <1>2, DraftShape
<1>4. Shape(st) /\ st.signature = <<>> /\ \A i \in DOMAIN st.keys : st.keys[i].signature = <<>>
  BY <1>3 DEF Fresh
<1>5. SigningOf(st, signing) BY <1>1, <1>4 DEF Init, SigningOf
<1>6. ProofsOf(st, proofs)
  <2>1. proofs = [i \in DOMAIN st.keys |-> <<>>] BY <1>1 DEF Init
  <2> QED BY <1>4, <2>1 DEF ProofsOf, ProofOf
<1>7. SentInv BY <1>1 DEF Init, SentInv
<1>8. Bounds BY <1>1, <1>2, SignedAssumption DEF Init, Bounds
<1> QED BY <1>4, <1>5, <1>6, <1>7, <1>8 DEF SignedInv

\* What an edit of the draft leaves to show.
LEMMA EditKeeps ==
    ASSUME SignedInv, Edits, Elsewhere
    PROVE  SentInv' /\ Bounds'
<1>1. steps' = steps + 1 /\ steps < MaxSteps /\ phase = "draft" BY DEF Edits
<1>2. steps' \in 0..MaxSteps BY <1>1, SignedAssumption DEF SignedInv, Bounds
<1>3. UNCHANGED <<phase, route, raw, node, disabled, demand>> BY DEF Elsewhere
<1>4. Bounds' BY <1>2, <1>3 DEF SignedInv, Bounds
<1>5. SentInv' BY <1>1, <1>3 DEF SignedInv, SentInv
<1> QED BY <1>4, <1>5

\* SigningOf looks at the kind, the contract and the signature only.
LEMMA SigningKept ==
    ASSUME NEW t, NEW u, NEW g, SigningOf(t, g),
           u.kind = t.kind, u.contract = t.contract, u.signature = t.signature
    PROVE  SigningOf(u, g)
BY DEF SigningOf

\* The proofs of possession depend on the kind and the keys only.
LEMMA ProofsKept ==
    ASSUME NEW t, NEW u, NEW gs, ProofsOf(t, gs), u.kind = t.kind, u.keys = t.keys
    PROVE  ProofsOf(u, gs)
BY DEF ProofsOf

\* Content set anew under an old signature.
LEMMA SetContentKeeps ==
    ASSUME SignedInv, SetContent
    PROVE  SignedInv'
<1>1. Shape(st) /\ SigningOf(st, signing) BY DEF SignedInv
<1>2. PICK t \in Drafts(st.contract) :
        /\ t.kind = st.kind
        /\ st' = [t EXCEPT !.keyId = st.keyId, !.signature = st.signature]
        /\ proofs' = [i \in DOMAIN t.keys |-> <<>>]
  BY DEF SetContent
<1>3. st.kind = "documentsBatch" => st.contract \in Demands BY <1>1 DEF Shape, KindShape
<1>4. Fresh(t, t.kind, IF t.kind = "documentsBatch" THEN st.contract ELSE <<>>)
  BY <1>2, <1>3, DraftShape
<1>5. t.contract = st.contract BY <1>1, <1>2, <1>4 DEF Fresh, Shape, KindShape
<1>6. Shape(t) /\ \A i \in DOMAIN t.keys : t.keys[i].signature = <<>> BY <1>4 DEF Fresh
<1>7. PICK a : a = [t EXCEPT !.keyId = st.keyId] OBVIOUS
<1>8. PICK u : u = [a EXCEPT !.signature = st.signature] OBVIOUS
<1>9. st' = u BY <1>2, <1>7, <1>8
<1>10. t = [kind |-> t.kind, version |-> t.version, owner |-> t.owner, body |-> t.body,
            keys |-> t.keys, types |-> t.types, contract |-> t.contract, keyId |-> t.keyId,
            signature |-> t.signature]
  BY <1>6 DEF Shape, Fields
<1>11. a = [kind |-> t.kind, version |-> t.version, owner |-> t.owner, body |-> t.body,
            keys |-> t.keys, types |-> t.types, contract |-> t.contract, keyId |-> st.keyId,
            signature |-> t.signature]
  BY <1>7, <1>10
<1>12. u = [kind |-> t.kind, version |-> t.version, owner |-> t.owner, body |-> t.body,
            keys |-> t.keys, types |-> t.types, contract |-> t.contract, keyId |-> st.keyId,
            signature |-> st.signature]
  BY <1>8, <1>11
<1>13. Shape(u)
  <2>1. u = Fields(u) BY <1>12 DEF Fields
  <2>2. st.keyId \in KeyIds \cup {0} /\ (st.kind \in AssetLocked => st.keyId = 0)
    BY <1>1 DEF Shape, KindShape
  <2>3. t.keys = [i \in DOMAIN t.keys |-> t.keys[i]] /\ \A i \in DOMAIN t.keys : KeyShape(t.keys[i])
    BY <1>6 DEF Shape
  <2> QED BY <1>2, <1>6, <1>12, <2>1, <2>2, <2>3, ShapeKept
<1>14. SigningOf(u, signing) BY <1>1, <1>2, <1>5, <1>12, SigningKept
<1>15. PICK gs : gs = [i \in DOMAIN t.keys |-> <<>>] OBVIOUS
<1>16. ProofsOf(u, gs)
  <2>1. u.keys = t.keys BY <1>12
  <2>2. gs = [i \in DOMAIN t.keys |-> gs[i]] BY <1>15
  <2>3. ASSUME NEW i \in DOMAIN t.keys PROVE ProofOf(u.keys[i], gs[i], u.kind)
    <3>1. gs[i] = <<>> /\ u.keys[i].signature = <<>> BY <1>6, <1>15, <2>1
    <3> QED BY <3>1 DEF ProofOf
  <2> QED BY <2>1, <2>2, <2>3 DEF ProofsOf
<1>17. SentInv' /\ Bounds' BY EditKeeps DEF SetContent
<1>18. signing' = signing /\ proofs' = gs BY <1>2, <1>15 DEF SetContent
<1> QED BY <1>9, <1>13, <1>14, <1>16, <1>17, <1>18 DEF SignedInv

\* Another key id.
LEMMA SetKeyIdKeeps ==
    ASSUME SignedInv, set_signature_public_key_id
    PROVE  SignedInv'
<1>1. Shape(st) /\ SigningOf(st, signing) /\ ProofsOf(st, proofs) BY DEF SignedInv
<1>2. PICK id \in KeyIds : st' = [st EXCEPT !.keyId = id] BY DEF set_signature_public_key_id
<1>3. PICK t : t = st OBVIOUS
<1>4. PICK u : u = [t EXCEPT !.keyId = id] OBVIOUS
<1>5. t = [kind |-> t.kind, version |-> t.version, owner |-> t.owner, body |-> t.body,
           keys |-> t.keys, types |-> t.types, contract |-> t.contract, keyId |-> t.keyId,
           signature |-> t.signature]
  BY <1>1, <1>3 DEF Shape, Fields
<1>6. u = [kind |-> t.kind, version |-> t.version, owner |-> t.owner, body |-> t.body,
           keys |-> t.keys, types |-> t.types, contract |-> t.contract, keyId |-> id,
           signature |-> t.signature]
  BY <1>4, <1>5
<1>7. Shape(u)
  <2>1. u = Fields(u) BY <1>6 DEF Fields
  <2>2. t.kind \notin AssetLocked BY <1>3 DEF set_signature_public_key_id
  <2>3. t.keys = [i \in DOMAIN t.keys |-> t.keys[i]] /\ \A i \in DOMAIN t.keys : KeyShape(t.keys[i])
    BY <1>1, <1>3 DEF Shape
  <2> QED BY <1>1, <1>3, <1>6, <2>1, <2>2, <2>3, ShapeKept
<1>8. SigningOf(u, signing) BY <1>1, <1>3, <1>6, SigningKept
<1>9. ProofsOf(u, proofs) BY <1>1, <1>3, <1>6, ProofsKept
<1>10. SentInv' /\ Bounds' BY EditKeeps DEF set_signature_public_key_id
<1>11. signing' = signing /\ proofs' = proofs /\ st' = u
  BY <1>2, <1>3, <1>4 DEF set_signature_public_key_id
<1> QED BY <1>7, <1>8, <1>9, <1>10, <1>11 DEF SignedInv

\* A transition that gets a signature keeps the rest.
LEMMA Resigned ==
    ASSUME NEW t, Shape(t), NEW s, NEW u, u = [t EXCEPT !.signature = s]
    PROVE  /\ Shape(u) /\ u.kind = t.kind /\ u.contract = t.contract /\ u.keys = t.keys
           /\ u.signature = s /\ u.types = t.types /\ u.owner = t.owner /\ u.keyId = t.keyId
           /\ Content(u) = Content(t)
<1>1. t = [kind |-> t.kind, version |-> t.version, owner |-> t.owner, body |-> t.body,
           keys |-> t.keys, types |-> t.types, contract |-> t.contract, keyId |-> t.keyId,
           signature |-> t.signature]
  BY DEF Shape, Fields
<1>2. u = [kind |-> t.kind, version |-> t.version, owner |-> t.owner, body |-> t.body,
           keys |-> t.keys, types |-> t.types, contract |-> t.contract, keyId |-> t.keyId,
           signature |-> s]
  BY <1>1
<1>3. Shape(u)
  <2>1. u = Fields(u) BY <1>2 DEF Fields
  <2>2. t.keyId \in KeyIds \cup {0} /\ (t.kind \in AssetLocked => t.keyId = 0) BY DEF Shape, KindShape
  <2>3. t.keys = [i \in DOMAIN t.keys |-> t.keys[i]] /\ \A i \in DOMAIN t.keys : KeyShape(t.keys[i])
    BY DEF Shape
  <2> QED BY <1>2, <2>1, <2>2, <2>3, ShapeKept
<1>4. Content(u) = Content(t)
  <2>1. u.kind = t.kind /\ u.keys = t.keys BY <1>2
  <2>2. ContentKeys(u) = ContentKeys(t) BY <2>1 DEF ContentKeys
  <2> QED BY <1>2, <2>1, <2>2, ContentEquality
<1> QED BY <1>2, <1>3, <1>4

\* A signature just made is the one its record tells of.
LEMMA NewSigning ==
    ASSUME NEW t, Shape(t), NEW type \in SUPPORTED_KEY_TYPES, NEW p \in PrivateKeys, NEW k, NEW u,
           u = [t EXCEPT !.signature = SignatureOf(type, p, to_buffer(t, TRUE))],
           t.kind \notin AssetLocked => StoredSigner(t, k, type, p)
    PROVE  SigningOf(u, <<[key |-> k, priv |-> p, scheme |-> Scheme(type), content |-> Content(t)]>>)
<1>1. PICK s : s = SignatureOf(type, p, to_buffer(t, TRUE)) OBVIOUS
<1>2. u.kind = t.kind /\ u.contract = t.contract /\ u.signature = s
  BY <1>1, Resigned
<1>3. PICK g : g = <<[key |-> k, priv |-> p, scheme |-> Scheme(type), content |-> Content(t)]>> OBVIOUS
<1>4. /\ Shape(t) /\ t.kind = u.kind /\ t.contract = u.contract
      /\ u.signature = SignatureOf(type, p, to_buffer(t, TRUE))
      /\ g = <<[key |-> k, priv |-> p, scheme |-> Scheme(type), content |-> Content(t)]>>
      /\ u.kind \notin AssetLocked => StoredSigner(t, k, type, p)
  BY <1>1, <1>2, <1>3
<1>5. SigningOf(u, g) BY <1>4 DEF SigningOf
<1> QED BY <1>3, <1>5

\* An asset-locked transition is signed.
LEMMA SignByPrivateKeyKeeps ==
    ASSUME SignedInv, SignByPrivateKey
    PROVE  SignedInv'
<1>1. Shape(st) /\ ProofsOf(st, proofs) BY DEF SignedInv
<1>2. PICK type \in {"ECDSA_SECP256K1", "BLS12_381", "BIP13_SCRIPT_HASH"}, p \in PrivateKeys :
        /\ sign_by_private_key(type, p)
        /\ signing' = <<[key |-> <<>>, priv |-> p, scheme |-> Scheme(type), content |-> Content(st)]>>
  BY DEF SignByPrivateKey
<1>3. type \in SUPPORTED_KEY_TYPES
      /\ st' = [st EXCEPT !.signature = SignatureOf(type, p, to_buffer(st, TRUE))]
  BY <1>2 DEF sign_by_private_key, SUPPORTED_KEY_TYPES
<1>4. PICK t : t = st OBVIOUS
<1>5. PICK s : s = SignatureOf(type, p, to_buffer(t, TRUE)) OBVIOUS
<1>6. PICK u : u = [t EXCEPT !.signature = s] OBVIOUS
<1>7. PICK g : g = <<[key |-> <<>>, priv |-> p, scheme |-> Scheme(type), content |-> Content(t)]>> OBVIOUS
<1>8. st' = u /\ signing' = g /\ proofs' = proofs
  BY <1>2, <1>3, <1>4, <1>5, <1>6, <1>7 DEF SignByPrivateKey
<1>9. t.kind \in AssetLocked BY <1>4 DEF SignByPrivateKey
<1>10. Shape(u) /\ u.kind = t.kind /\ u.keys = t.keys BY <1>1, <1>4, <1>6, Resigned
<1>11. SigningOf(u, g) BY <1>1, <1>3, <1>4, <1>5, <1>6, <1>7, <1>9, NewSigning
<1>12. ProofsOf(u, proofs) BY <1>1, <1>4, <1>10, ProofsKept
<1>13. SentInv' /\ Bounds' BY EditKeeps DEF SignByPrivateKey
<1> QED BY <1>8, <1>10, <1>11, <1>12, <1>13 DEF SignedInv

\* A transition is signed with a stored key.
LEMMA SignKeeps ==
    ASSUME SignedInv, sign
    PROVE  SignedInv'
<1>1. Shape(st) /\ ProofsOf(st, proofs) BY DEF SignedInv
<1>2. PICK i \in Ids, p \in PrivateKeys : \E id \in DOMAIN StoredKeys[i] :
        /\ verify_public_key_level_and_purpose(st, StoredKeys[i][id])
        /\ StoredKeys[i][id].data = DataOf(StoredKeys[i][id].type, p)
        /\ sign_by_private_key(StoredKeys[i][id].type, p)
        /\ signing' = <<[key |-> <<i, id>>, priv |-> p, scheme |-> Scheme(StoredKeys[i][id].type),
                         content |-> Content(st)]>>
  BY DEF sign
<1>3. PICK id \in DOMAIN StoredKeys[i] :
        /\ verify_public_key_level_and_purpose(st, StoredKeys[i][id])
        /\ StoredKeys[i][id].data = DataOf(StoredKeys[i][id].type, p)
        /\ sign_by_private_key(StoredKeys[i][id].type, p)
        /\ signing' = <<[key |-> <<i, id>>, priv |-> p, scheme |-> Scheme(StoredKeys[i][id].type),
                         content |-> Content(st)]>>
  BY <1>2
<1>4. PICK type : type = StoredKeys[i][id].type OBVIOUS
<1>5. /\ type \in SUPPORTED_KEY_TYPES
      /\ st' = [st EXCEPT !.signature = SignatureOf(type, p, to_buffer(st, TRUE))]
  <2>1. StoredKeys[i][id] \in [type : KeyType, data : [type : KeyType, of : PrivateKeys],
                               level : 0..3, purpose : STRING]
    BY KeysAssumption
  <2>2. type \in KeyType BY <1>4, <2>1
  <2> QED BY <1>3, <1>4, <2>2 DEF sign_by_private_key, KeyType
<1>6. PICK t : t = st OBVIOUS
<1>7. PICK s : s = SignatureOf(type, p, to_buffer(t, TRUE)) OBVIOUS
<1>8. PICK u : u = [t EXCEPT !.signature = s] OBVIOUS
<1>9. PICK k : k = <<i, id>> OBVIOUS
<1>10. PICK g : g = <<[key |-> k, priv |-> p, scheme |-> Scheme(type), content |-> Content(t)]>> OBVIOUS
<1>11. st' = u /\ signing' = g /\ proofs' = proofs
  BY <1>3, <1>4, <1>5, <1>6, <1>7, <1>8, <1>9, <1>10 DEF sign
<1>12. StoredSigner(t, k, type, p)
  <2>1. StoredKeys[i][id].data.of = p BY <1>3 DEF DataOf
  <2> QED BY <1>3, <1>4, <1>6, <1>9, <2>1 DEF StoredSigner
<1>13. Shape(u) /\ u.kind = t.kind /\ u.keys = t.keys BY <1>1, <1>6, <1>8, Resigned
<1>14. SigningOf(u, g) BY <1>1, <1>5, <1>6, <1>7, <1>8, <1>10, <1>12, NewSigning
<1>15. ProofsOf(u, proofs) BY <1>1, <1>6, <1>13, ProofsKept
<1>16. SentInv' /\ Bounds' BY EditKeeps DEF sign
<1> QED BY <1>11, <1>13, <1>14, <1>15, <1>16 DEF SignedInv

\* A key that is added signs.
LEMMA SignPublicKeyKeeps ==
    ASSUME SignedInv, SignPublicKey
    PROVE  SignedInv'
<1>1. Shape(st) /\ SigningOf(st, signing) /\ ProofsOf(st, proofs) BY DEF SignedInv
<1>2. PICK i \in DOMAIN st.keys, p \in PrivateKeys :
        /\ st.keys[i].type # "BIP13_SCRIPT_HASH"
        /\ st' = [st EXCEPT !.keys[i].signature = SignatureOf(st.keys[i].type, p, to_buffer(st, TRUE))]
        /\ proofs' = [proofs EXCEPT ![i] =
             <<[key |-> <<>>, priv |-> p, scheme |-> Scheme(st.keys[i].type), content |-> Content(st)]>>]
  BY DEF SignPublicKey
<1>3. PICK t : t = st OBVIOUS
<1>4. PICK key : key = t.keys[i] OBVIOUS
<1>5. PICK s : s = SignatureOf(key.type, p, to_buffer(t, TRUE)) OBVIOUS
<1>6. PICK g : g = <<[key |-> <<>>, priv |-> p, scheme |-> Scheme(key.type), content |-> Content(t)]>> OBVIOUS
<1>7. PICK signed : signed = [key EXCEPT !.signature = s] OBVIOUS
<1>8. PICK keys : keys = [t.keys EXCEPT ![i] = signed] OBVIOUS
<1>9. PICK u : u = [t EXCEPT !.keys = keys] OBVIOUS
<1>10. PICK gs : gs = [proofs EXCEPT ![i] = g] OBVIOUS
<1>11. st' = u /\ proofs' = gs /\ signing' = signing
  <2>1. st' = [t EXCEPT !.keys[i].signature = s] BY <1>2, <1>3, <1>4, <1>5
  <2>2. [t EXCEPT !.keys[i].signature = s] = u BY <1>4, <1>7, <1>8, <1>9
  <2>3. proofs' = gs BY <1>2, <1>3, <1>4, <1>6, <1>10
  <2> QED BY <2>1, <2>2, <2>3 DEF SignPublicKey
<1>12. t = [kind |-> t.kind, version |-> t.version, owner |-> t.owner, body |-> t.body,
            keys |-> t.keys, types |-> t.types, contract |-> t.contract, keyId |-> t.keyId,
            signature |-> t.signature]
  BY <1>1, <1>3 DEF Shape, Fields
<1>13. u = [kind |-> t.kind, version |-> t.version, owner |-> t.owner, body |-> t.body,
            keys |-> keys, types |-> t.types, contract |-> t.contract, keyId |-> t.keyId,
            signature |-> t.signature]
  BY <1>9, <1>12
<1>14. /\ t.keys = [j \in DOMAIN t.keys |-> t.keys[j]] /\ \A j \in DOMAIN t.keys : KeyShape(t.keys[j])
       /\ t.keyId \in KeyIds \cup {0} /\ (t.kind \in AssetLocked => t.keyId = 0) /\ i \in DOMAIN t.keys
  BY <1>1, <1>2, <1>3 DEF Shape, KindShape
<1>15. /\ signed = [id |-> key.id, type |-> key.type, data |-> key.data, signature |-> s]
       /\ key.type \in KeyType
  <2>1. KeyShape(key) BY <1>4, <1>14
  <2>2. key = [id |-> key.id, type |-> key.type, data |-> key.data, signature |-> key.signature]
        /\ key.type \in KeyType
    BY <2>1 DEF KeyShape
  <2> QED BY <1>7, <2>2
<1>16. KeyShape(signed) BY <1>15 DEF KeyShape
<1>17. /\ DOMAIN keys = DOMAIN t.keys /\ keys = [j \in DOMAIN keys |-> keys[j]]
       /\ keys[i] = signed /\ \A j \in DOMAIN t.keys : j # i => keys[j] = t.keys[j]
  BY <1>8, <1>14
<1>18. \A j \in DOMAIN keys : KeyShape(keys[j]) BY <1>14, <1>16, <1>17
<1>19. Shape(u)
  <2>1. u = Fields(u) BY <1>13 DEF Fields
  <2>2. t.keys = <<>> => keys = <<>> BY <1>14
  <2> QED BY <1>1, <1>3, <1>13, <1>14, <1>17, <1>18, <2>1, <2>2, ShapeKept
<1>20. SigningOf(u, signing) BY <1>1, <1>3, <1>13, SigningKept
<1>21. ProofsOf(u, gs)
  <2>1. proofs = [j \in DOMAIN t.keys |-> proofs[j]]
        /\ \A j \in DOMAIN t.keys : ProofOf(t.keys[j], proofs[j], t.kind)
    BY <1>1, <1>3 DEF ProofsOf
  <2>2. /\ gs = [j \in DOMAIN t.keys |-> gs[j]] /\ gs[i] = g
        /\ \A j \in DOMAIN t.keys : j # i => gs[j] = proofs[j]
    BY <1>10, <1>14, <2>1
  <2>3. ProofOf(signed, g, t.kind)
    <3>1. signed.type = key.type /\ signed.signature = s BY <1>15
    <3>2. key.type \in SUPPORTED_KEY_TYPES BY <1>2, <1>3, <1>4, <1>15 DEF KeyType
    <3> QED BY <1>1, <1>3, <1>5, <1>6, <3>1, <3>2 DEF ProofOf
  <2>4. ASSUME NEW j \in DOMAIN t.keys PROVE ProofOf(keys[j], gs[j], t.kind)
    BY <1>17, <2>1, <2>2, <2>3
  <2>5. u.keys = keys /\ u.kind = t.kind BY <1>13
  <2> QED BY <1>17, <2>2, <2>4, <2>5 DEF ProofsOf
<1>22. SentInv' /\ Bounds' BY EditKeeps DEF SignPublicKey
<1> QED BY <1>11, <1>19, <1>20, <1>21, <1>22 DEF SignedInv

\* The raw form leaves; nothing of the client changes any more.
LEMMA SendKeeps ==
    ASSUME SignedInv, Send
    PROVE  SignedInv'
<1>1. phase = "draft" /\ phase' = "sent" /\ UNCHANGED <<st, signing, proofs, steps, node, disabled, demand>>
  BY DEF Send
<1>2. node' = <<>> BY <1>1 DEF SignedInv, SentInv
<1>3. PICK r : r = route' OBVIOUS
<1>4. PICK o : o = raw' OBVIOUS
<1>5. SentAs(st, r, o) BY <1>3, <1>4 DEF Send, SentAs
<1>6. SentInv' BY <1>1, <1>2, <1>3, <1>4, <1>5 DEF SentInv
<1>7. Bounds' BY <1>1 DEF SignedInv, Bounds
<1> QED BY <1>1, <1>6, <1>7 DEF SignedInv

\* A node that decodes what it was sent changes nothing on the client's side.
LEMMA DecodeKeeps ==
    ASSUME SignedInv, Decode
    PROVE  SignedInv'
<1>1. /\ phase = "sent" /\ phase' = "answered" /\ node' = create_state_transition(raw, demand)
      /\ UNCHANGED <<st, signing, proofs, steps, route, raw, disabled, demand>>
  BY DEF Decode
<1>2. demand \in Demands /\ SentAs(st, route, raw) BY <1>1 DEF SignedInv, SentInv, Bounds
<1>3. SentInv' BY <1>1, <1>2 DEF SentInv
<1>4. Bounds' BY <1>1 DEF SignedInv, Bounds
<1> QED BY <1>1, <1>3, <1>4 DEF SignedInv

\* What others do to keys and contracts.
LEMMA OthersKeep ==
    ASSUME SignedInv, DisableKey \/ UpdateContract
    PROVE  SignedInv'
<1>1. UNCHANGED <<st, signing, proofs, steps, phase, route, raw, node>>
  BY DEF DisableKey, UpdateContract
<1>2. disabled' \subseteq MayDisable /\ demand' \in Demands
  BY DEF DisableKey, UpdateContract, SignedInv, Bounds
<1>3. SentInv' BY <1>1 DEF SignedInv, SentInv
<1>4. Bounds' BY <1>1, <1>2 DEF SignedInv, Bounds
<1> QED BY <1>1, <1>3, <1>4 DEF SignedInv

\* The inductive invariant holds of every reachable state.
THEOREM SigningInvariant == Spec => []SignedInv
<1>1. SignedInv /\ [Next]_vars => SignedInv'
  <2>1. SUFFICES ASSUME SignedInv, [Next]_vars PROVE SignedInv' OBVIOUS
  <2>2. CASE UNCHANGED vars
    <3>1. UNCHANGED <<st, signing, proofs, steps, phase, route, raw, node, disabled, demand>>
      BY <2>2 DEF vars
    <3>2. SentInv' BY <2>1, <3>1 DEF SignedInv, SentInv
    <3>3. Bounds' BY <2>1, <3>1 DEF SignedInv, Bounds
    <3> QED BY <2>1, <3>1, <3>2, <3>3 DEF SignedInv
  <2>3. CASE SetContent BY <2>1, <2>3, SetContentKeeps
  <2>4. CASE set_signature_public_key_id BY <2>1, <2>4, SetKeyIdKeeps
  <2>5. CASE SignPublicKey BY <2>1, <2>5, SignPublicKeyKeeps
  <2>6. CASE SignByPrivateKey BY <2>1, <2>6, SignByPrivateKeyKeeps
  <2>7. CASE sign BY <2>1, <2>7, SignKeeps
  <2>8. CASE Send BY <2>1, <2>8, SendKeeps
  <2>9. CASE Decode BY <2>1, <2>9, DecodeKeeps
  <2>10. CASE DisableKey \/ UpdateContract BY <2>1, <2>10, OthersKeep
  <2> QED BY <2>1, <2>2, <2>3, <2>4, <2>5, <2>6, <2>7, <2>8, <2>9, <2>10 DEF Next
<1> QED BY InitSigned, <1>1, PTL DEF Spec

------------------------------------------------------------------------------
(* What verifies is what was signed. *)

\* A signature is never empty, and it names its scheme, signer and bytes.
LEMMA SignatureFacts ==
    ASSUME NEW type, NEW p, NEW data
    PROVE  /\ SignatureOf(type, p, data) # <<>>
           /\ \A type2, q, data2 : SignatureOf(type, p, data) = SignatureOf(type2, q, data2)
                <=> Scheme(type) = Scheme(type2) /\ p = q /\ data = data2
<1>1. SignatureOf(type, p, data) # <<>> BY DEF SignatureOf
<1>2. ASSUME NEW type2, NEW q, NEW data2
      PROVE  SignatureOf(type, p, data) = SignatureOf(type2, q, data2)
               <=> Scheme(type) = Scheme(type2) /\ p = q /\ data = data2
  <2>1. PICK a : a = [scheme |-> Scheme(type), priv |-> p, data |-> data] OBVIOUS
  <2>2. PICK b : b = [scheme |-> Scheme(type2), priv |-> q, data |-> data2] OBVIOUS
  <2>3. a = b <=> Scheme(type) = Scheme(type2) /\ p = q /\ data = data2 BY <2>1, <2>2
  <2>4. SignatureOf(type, p, data) = <<a>> /\ SignatureOf(type2, q, data2) = <<b>> BY <2>1, <2>2 DEF SignatureOf
  <2> QED BY <2>3, <2>4
<1> QED BY <1>1, <1>2

\* What an accepted transition carries.
AcceptedSigner(x) == IF x.kind \in AssetLocked THEN LockKey[x.body] ELSE StoredKeys[x.owner][x.keyId].data.of

\* What a node accepts carries a signature by its signer over its own bytes.
LEMMA AcceptedCarries ==
    ASSUME NEW x, Accepted(x)
    PROVE  \E type : x.signature = SignatureOf(type, AcceptedSigner(x), to_buffer(x, TRUE))
<1>1. CASE x.kind \in AssetLocked
  <2>1. x.signature = SignatureOf("ECDSA_HASH160", LockKey[x.body], to_buffer(x, TRUE))
    BY <1>1 DEF Accepted, validate_key_signature
  <2> QED BY <1>1, <2>1 DEF AcceptedSigner
<1>2. CASE x.kind \notin AssetLocked
  <2>1. PICK key : key = StoredKeys[x.owner][x.keyId] OBVIOUS
  <2>2. key.type \in SUPPORTED_KEY_TYPES /\ (key.type = "BIP13_SCRIPT_HASH" \/ VerifyData(x, key.type, key.data))
    BY <1>2, <2>1 DEF Accepted, validate_identity_signature, verify_signature
  <2>3. VerifyData(x, key.type, key.data) BY <2>2 DEF SUPPORTED_KEY_TYPES
  <2>4. x.signature = SignatureOf(key.type, key.data.of, to_buffer(x, TRUE)) BY <2>3 DEF VerifyData
  <2>5. AcceptedSigner(x) = key.data.of BY <1>2, <2>1 DEF AcceptedSigner
  <2> QED BY <2>4, <2>5
<1> QED BY <1>1, <1>2

\* A transition that verifies under the signature of t has the content that
\* was signed, by its own signer.
LEMMA AcceptedIsSigned ==
    ASSUME NEW t, NEW g, SigningOf(t, g), NEW x, Shape(x), x.kind = t.kind, x.signature = t.signature,
           Accepted(x)
    PROVE  g # <<>> /\ g[1].content = Content(x) /\ g[1].priv = AcceptedSigner(x)
<1>0. PICK bytes : bytes = to_buffer(x, TRUE) OBVIOUS
<1>1. PICK type2 : x.signature = SignatureOf(type2, AcceptedSigner(x), bytes)
  BY <1>0, AcceptedCarries
<1>2. t.signature # <<>> BY <1>1, SignatureFacts
<1>3. PICK u, k : \E type \in SUPPORTED_KEY_TYPES, p \in PrivateKeys :
        /\ Shape(u) /\ u.kind = t.kind
        /\ t.signature = SignatureOf(type, p, to_buffer(u, TRUE))
        /\ g = <<[key |-> k, priv |-> p, scheme |-> Scheme(type), content |-> Content(u)]>>
  BY <1>2 DEF SigningOf
<1>4. PICK type \in SUPPORTED_KEY_TYPES, p \in PrivateKeys :
        /\ Shape(u) /\ u.kind = t.kind
        /\ t.signature = SignatureOf(type, p, to_buffer(u, TRUE))
        /\ g = <<[key |-> k, priv |-> p, scheme |-> Scheme(type), content |-> Content(u)]>>
  BY <1>3
<1>a. PICK signed : signed = to_buffer(u, TRUE) OBVIOUS
<1>5. SignatureOf(type, p, signed) = SignatureOf(type2, AcceptedSigner(x), bytes)
  BY <1>1, <1>4, <1>a
<1>6. p = AcceptedSigner(x) /\ signed = bytes
  BY <1>5, SignatureFacts
<1>7. Content(u) = Content(x) BY <1>0, <1>4, <1>6, <1>a, BytesCoverContent
<1>8. g # <<>> /\ g[1].priv = p /\ g[1].content = Content(u) BY <1>4
<1> QED BY <1>6, <1>7, <1>8

\* The node's transition is the client's, up to the contract of a batch.
LEMMA RebuiltFacts ==
    ASSUME NEW t, Shape(t), NEW d \in Demands, NEW x, x = Rebuilt(t, d)
    PROVE  /\ Shape(x) /\ x.kind = t.kind /\ x.signature = t.signature /\ Content(x) = Content(t)
           /\ x.owner = t.owner /\ x.keyId = t.keyId /\ x.types = t.types /\ x.keys = t.keys
           /\ x.contract = (IF t.kind = "documentsBatch" THEN d ELSE <<>>)
           /\ x = [t EXCEPT !.contract = x.contract]
<1>1. t = [kind |-> t.kind, version |-> t.version, owner |-> t.owner, body |-> t.body,
           keys |-> t.keys, types |-> t.types, contract |-> t.contract, keyId |-> t.keyId,
           signature |-> t.signature]
  BY DEF Shape, Fields
<1>2. CASE t.kind = "documentsBatch"
  <2>1. x = [t EXCEPT !.contract = d] BY <1>2 DEF Rebuilt
  <2>2. x = [kind |-> t.kind, version |-> t.version, owner |-> t.owner, body |-> t.body,
             keys |-> t.keys, types |-> t.types, contract |-> d, keyId |-> t.keyId,
             signature |-> t.signature]
    BY <1>1, <2>1
  <2>3. x = Fields(x) BY <2>2 DEF Fields
  <2>4. KindShape(x)
    <3>1. KindShape(t) BY DEF Shape
    <3>2. x.kind = t.kind /\ x.body = t.body /\ x.keys = t.keys /\ x.contract = d BY <2>2
    <3> QED BY <1>2, <3>1, <3>2 DEF KindShape, AssetLocked
  <2>5. Shape(x) BY <2>2, <2>3, <2>4 DEF Shape
  <2>6. Content(x) = Content(t)
    <3>1. x.kind = t.kind /\ x.keys = t.keys BY <2>2
    <3>2. ContentKeys(x) = ContentKeys(t) BY <3>1 DEF ContentKeys
    <3> QED BY <2>2, <3>1, <3>2, ContentEquality
  <2>7. x.contract = d /\ x.owner = t.owner /\ x.keyId = t.keyId /\ x.types = t.types /\ x.keys = t.keys
        /\ x.kind = t.kind /\ x.signature = t.signature
    BY <2>2
  <2> QED BY <1>2, <2>1, <2>5, <2>6, <2>7
<1>3. CASE t.kind # "documentsBatch"
  <2>1. x = t BY <1>3 DEF Rebuilt
  <2>2. t.contract = <<>> BY <1>3 DEF Shape, KindShape
  <2>3. PICK y : y = [t EXCEPT !.contract = <<>>] OBVIOUS
  <2>4. y = t BY <1>1, <2>2, <2>3
  <2> QED BY <1>3, <2>1, <2>2, <2>3, <2>4
<1> QED BY <1>2, <1>3

\* What the node holds.
LEMMA NodeIs ==
    ASSUME SignedInv
    PROVE  \/ node = <<>> /\ (phase = "answered" /\ route = "object" => ~ Rebuildable(st))
           \/ /\ phase = "answered"
              /\ \E n : /\ node = <<n>>
                        /\ \/ Unsigned(n, st) /\ route # "object"
                           \/ /\ route = "object" /\ Rebuildable(st)
                              /\ \E d \in Demands : n = Rebuilt(st, d)
<1>1. CASE phase # "answered"
  <2>1. node = <<>> BY <1>1 DEF SignedInv, SentInv, Bounds
  <2> QED BY <1>1, <2>1
<1>2. CASE phase = "answered"
  <2>1. Shape(st) /\ SentAs(st, route, raw) BY <1>2 DEF SignedInv, SentInv
  <2>2. PICK d \in Demands : node = create_state_transition(raw, d) BY <1>2 DEF SignedInv, SentInv
  <2>3. /\ route = "object" /\ Rebuildable(st) => node = <<Rebuilt(st, d)>>
        /\ route = "object" /\ ~ Rebuildable(st) => node = <<>>
        /\ route # "object" => node = <<>> \/ \E n : node = <<n>> /\ Unsigned(n, st)
    BY <2>1, <2>2, NodeReads
  <2>4. CASE route = "object" /\ Rebuildable(st)
    <3>1. PICK n : n = Rebuilt(st, d) OBVIOUS
    <3>2. node = <<n>> BY <2>3, <2>4, <3>1
    <3> QED BY <1>2, <2>4, <3>1, <3>2
  <2>5. CASE route = "object" /\ ~ Rebuildable(st) BY <1>2, <2>3, <2>5
  <2>6. CASE route # "object" BY <1>2, <2>3, <2>6
  <2> QED BY <2>4, <2>5, <2>6
<1> QED BY <1>1, <1>2

\* What a node holds is the transition itself or a copy that lost its signature.
LEMMA NodeHolds ==
    ASSUME SignedInv, NEW i \in DOMAIN node
    PROVE  \/ Unsigned(node[i], st)
           \/ \E d \in Demands : node[i] = Rebuilt(st, d)
<1>1. PICK n : /\ node = <<n>>
               /\ Unsigned(n, st) \/ \E d \in Demands : n = Rebuilt(st, d)
  BY NodeIs
<1>2. node[i] = n BY <1>1
<1> QED BY <1>1, <1>2

\* Without a signature nothing verifies.
LEMMA UnsignedRefused ==
    ASSUME NEW n, NEW t, Unsigned(n, t)
    PROVE  ~ Accepted(n)
<1>1. SUFFICES ASSUME Accepted(n) PROVE FALSE OBVIOUS
<1>2. \E type, data : n.signature = SignatureOf(type, AcceptedSigner(n), data)
  BY <1>1, AcceptedCarries
<1>3. n.signature # <<>> BY <1>2, SignatureFacts
<1> QED BY <1>3 DEF Unsigned

\* What verifies at the client or at the node has the content its signer
\* signed, for any keys, kinds and number of edits (AcceptedAsSigned).
THEOREM AcceptedHasSignedContent == Spec => []AcceptedAsSigned
<1>1. SignedInv => AcceptedAsSigned
  <2>1. SUFFICES ASSUME SignedInv, NEW x, x = st \/ (\E i \in DOMAIN node : x = node[i]), Accepted(x)
                 PROVE  signing # <<>> /\ signing[1].content = Content(x) /\ signing[1].priv = AcceptedSigner(x)
    BY DEF AcceptedAsSigned, AcceptedSigner
  <2>2. Shape(st) /\ SigningOf(st, signing) BY <2>1 DEF SignedInv
  <2>3. CASE x = st BY <2>1, <2>2, <2>3, AcceptedIsSigned
  <2>4. ASSUME NEW i \in DOMAIN node, x = node[i]
        PROVE  signing # <<>> /\ signing[1].content = Content(x) /\ signing[1].priv = AcceptedSigner(x)
    <3>1. ~ Unsigned(node[i], st) BY <2>1, <2>4, UnsignedRefused
    <3>2. PICK d \in Demands : x = Rebuilt(st, d) BY <2>1, <2>4, <3>1, NodeHolds
    <3>3. Shape(x) /\ x.kind = st.kind /\ x.signature = st.signature BY <2>2, <3>2, RebuiltFacts
    <3> QED BY <2>1, <2>2, <3>3, AcceptedIsSigned
  <2> QED BY <2>1, <2>3, <2>4
<1> QED BY <1>1, SigningInvariant, PTL

------------------------------------------------------------------------------
(* Levels. *)

\* A set of levels has a strictest one.
LEMMA StrictestLevel ==
    ASSUME NEW ls \in SUBSET (0..3), ls # {}
    PROVE  \E l \in ls : \A m \in ls : l <= m
<1>1. CASE 0 \in ls BY <1>1
<1>2. CASE 0 \notin ls /\ 1 \in ls BY <1>2
<1>3. CASE 0 \notin ls /\ 1 \notin ls /\ 2 \in ls BY <1>3
<1>4. CASE 0 \notin ls /\ 1 \notin ls /\ 2 \notin ls
  <2>1. \A m \in ls : m = 3 BY <1>4
  <2>2. PICK l \in ls : TRUE OBVIOUS
  <2>3. \A m \in ls : l <= m BY <2>1, <2>2
  <2> QED BY <2>2, <2>3
<1> QED BY <1>1, <1>2, <1>3, <1>4

\* The requirement of a batch is the strictest of what its document types
\* demand, and no laxer than the lowest level.
LEMMA BatchLevel ==
    ASSUME NEW t, t.types \in Seq(DocTypes), t.contract \in Demands
    PROVE  /\ \A j \in DOMAIN t.types : BatchRequirement(t) <= t.contract[t.types[j]]
           /\ \/ BatchRequirement(t) = lowest_level
              \/ \E j \in DOMAIN t.types : BatchRequirement(t) = t.contract[t.types[j]]
<1> DEFINE ls == {t.contract[t.types[i]] : i \in DOMAIN t.types} \cup {lowest_level}
           l == CHOOSE x \in ls : \A m \in ls : x <= m
<1>1. BatchRequirement(t) = l BY DEF BatchRequirement
<1>2. \A i \in DOMAIN t.types : t.contract[t.types[i]] \in 0..3
  <2>1. t.contract \in [DocTypes -> 0..3] BY SignedAssumption
  <2>2. \A i \in DOMAIN t.types : t.types[i] \in DocTypes OBVIOUS
  <2> QED BY <2>1, <2>2
<1>3. ls \in SUBSET (0..3) /\ ls # {} BY <1>2 DEF lowest_level
<1>4. l \in ls /\ \A m \in ls : l <= m
  <2> HIDE DEF ls
  <2>1. \E x \in ls : \A m \in ls : x <= m BY <1>3, StrictestLevel
  <2> QED BY <2>1
<1>5. \A j \in DOMAIN t.types : t.contract[t.types[j]] \in ls OBVIOUS
<1> HIDE DEF l
<1> QED BY <1>1, <1>4, <1>5

\* A batch the node accepts is signed with a key as strong as the contract the
\* node fetched demands (StrongEnough).
THEOREM KeysAreStrongEnough == Spec => []StrongEnough
<1>1. SignedInv => StrongEnough
  <2>1. SUFFICES ASSUME SignedInv, NEW i \in DOMAIN node, node[i].kind = "documentsBatch", Accepted(node[i])
                 PROVE  /\ \A j \in DOMAIN node[i].types :
                             StoredKeys[node[i].owner][node[i].keyId].level
                               <= node[i].contract[node[i].types[j]]
                        /\ StoredKeys[node[i].owner][node[i].keyId].level = MASTER =>
                             \E j \in DOMAIN node[i].types : node[i].contract[node[i].types[j]] = MASTER
    BY DEF StrongEnough
  <2>2. Shape(st) BY <2>1 DEF SignedInv
  <2>3. PICK x : x = node[i] OBVIOUS
  <2>4. ~ Unsigned(x, st) BY <2>1, <2>3, UnsignedRefused
  <2>5. PICK d \in Demands : x = Rebuilt(st, d) BY <2>1, <2>3, <2>4, NodeHolds
  <2>6. Shape(x) BY <2>2, <2>5, RebuiltFacts
  <2>7. x.kind = "documentsBatch" /\ Accepted(x) BY <2>1, <2>3
  <2>8. x.contract \in Demands /\ x.types \in Seq(DocTypes) /\ x.owner \in Ids
    <3>1. x.types \in TypeLists \cup {<<>>} BY <2>6 DEF Shape
    <3>2. <<>> \in Seq(DocTypes) OBVIOUS
    <3> QED BY <2>6, <2>7, <3>1, <3>2, SignedAssumption DEF Shape, KindShape
  <2>9. PICK key : key = StoredKeys[x.owner][x.keyId] OBVIOUS
  <2>10. /\ x.keyId \in DOMAIN StoredKeys[x.owner]
         /\ verify_public_key_level_and_purpose(x, key)
    BY <2>7, <2>9 DEF Accepted, AssetLocked, validate_identity_signature, verify_signature
  <2>11. get_security_level_requirement(x) = BatchRequirement(x)
    BY <2>7 DEF get_security_level_requirement
  <2>12. key.level <= BatchRequirement(x) /\ (key.level = MASTER => BatchRequirement(x) = MASTER)
    BY <2>10, <2>11 DEF verify_public_key_level_and_purpose
  <2>13. key.level \in 0..3
    <3>1. key \in [type : KeyType, data : [type : KeyType, of : PrivateKeys], level : 0..3, purpose : STRING]
      BY <2>8, <2>9, <2>10, KeysAssumption
    <3> QED BY <3>1
  <2>14. /\ \A j \in DOMAIN x.types : BatchRequirement(x) <= x.contract[x.types[j]]
         /\ \/ BatchRequirement(x) = lowest_level
            \/ \E j \in DOMAIN x.types : BatchRequirement(x) = x.contract[x.types[j]]
    BY <2>8, BatchLevel
  <2>15. BatchRequirement(x) \in 0..3 /\ \A j \in DOMAIN x.types : x.contract[x.types[j]] \in 0..3
    <3>1. x.contract \in [DocTypes -> 0..3] BY <2>8, SignedAssumption
    <3>2. \A j \in DOMAIN x.types : x.types[j] \in DocTypes BY <2>8
    <3>3. \A j \in DOMAIN x.types : x.contract[x.types[j]] \in 0..3 BY <3>1, <3>2
    <3> QED BY <2>14, <3>3 DEF lowest_level
  <2>16. \A j \in DOMAIN x.types : key.level <= x.contract[x.types[j]]
    BY <2>12, <2>13, <2>14, <2>15
  <2>17. key.level = MASTER => \E j \in DOMAIN x.types : x.contract[x.types[j]] = MASTER
    BY <2>12, <2>14 DEF MASTER, lowest_level
  <2> QED BY <2>3, <2>9, <2>16, <2>17
<1> QED BY <1>1, SigningInvariant, PTL

------------------------------------------------------------------------------
(* Arriving. *)

\* The type invariant looks at who signed, not at what.
LEMMA SignerFacts ==
    /\ Signer(<<>>) \in Signatures
    /\ \A type \in SUPPORTED_KEY_TYPES, p \in PrivateKeys : \A data :
         Signer(SignatureOf(type, p, data)) \in Signatures
<1>1. Signer(<<>>) \in Signatures BY DEF Signer, Signatures
<1>2. ASSUME NEW type \in SUPPORTED_KEY_TYPES, NEW p \in PrivateKeys, NEW data
      PROVE  Signer(SignatureOf(type, p, data)) \in Signatures
  <2>1. PICK a : a = [scheme |-> Scheme(type), priv |-> p, data |-> data] OBVIOUS
  <2>2. SignatureOf(type, p, data) = <<a>> /\ <<a>>[1] = a BY <2>1 DEF SignatureOf
  <2>3. [a EXCEPT !.data = "data"] = [scheme |-> Scheme(type), priv |-> p, data |-> "data"] BY <2>1
  <2>4. Signer(<<a>>) = <<[a EXCEPT !.data = "data"]>> BY DEF Signer
  <2>5. Signer(SignatureOf(type, p, data)) = SignatureOf(type, p, "data")
    BY <2>2, <2>3, <2>4 DEF SignatureOf
  <2> QED BY <2>5 DEF Signatures
<1> QED BY <1>1, <1>2

\* The client's signatures are of known schemes.
LEMMA KnownSigners ==
    ASSUME SignedInv
    PROVE  /\ Signer(st.signature) \in Signatures
           /\ \A i \in DOMAIN st.keys : Signer(st.keys[i].signature) \in Signatures
<1>1. Signer(st.signature) \in Signatures
  <2>1. SigningOf(st, signing) BY DEF SignedInv
  <2>2. \/ st.signature = <<>>
        \/ \E type \in SUPPORTED_KEY_TYPES, p \in PrivateKeys : \E data : st.signature = SignatureOf(type, p, data)
    BY <2>1 DEF SigningOf
  <2> QED BY <2>2, SignerFacts
<1>2. ASSUME NEW i \in DOMAIN st.keys PROVE Signer(st.keys[i].signature) \in Signatures
  <2>1. ProofOf(st.keys[i], proofs[i], st.kind) BY DEF SignedInv, ProofsOf
  <2>2. \/ st.keys[i].signature = <<>>
        \/ \E type \in SUPPORTED_KEY_TYPES, p \in PrivateKeys : \E data :
             st.keys[i].signature = SignatureOf(type, p, data)
    BY <2>1 DEF ProofOf
  <2> QED BY <2>2, SignerFacts
<1> QED BY <1>1, <1>2

\* Type correctness.
LEMMA SignedTypes ==
    ASSUME SignedInv
    PROVE  TypeOK
<1>1. Shape(st) /\ SigningOf(st, signing) /\ ProofsOf(st, proofs) /\ SentInv /\ Bounds BY DEF SignedInv
<1>2. ASSUME NEW x, Shape(x), Signer(x.signature) \in Signatures,
             \A i \in DOMAIN x.keys : Signer(x.keys[i].signature) \in Signatures
      PROVE  TransitionOK(x)
  <2>1. x.contract \in Demands \cup {<<>>} BY <1>2 DEF Shape, KindShape
  <2> QED BY <1>2, <2>1 DEF Shape, TransitionOK
<1>3. TransitionOK(st) BY <1>1, <1>2, KnownSigners
<1>4. ASSUME NEW n, Unsigned(n, st) PROVE TransitionOK(n)
  <2>1. Signer(n.signature) \in Signatures BY <1>4, SignerFacts DEF Unsigned
  <2>2. \A i \in DOMAIN n.keys : Signer(n.keys[i].signature) \in Signatures
    BY <1>4, KnownSigners DEF Unsigned
  <2>3. st.kind \in StateTransitionType /\ st.types \in TypeLists \cup {<<>>} BY <1>1 DEF Shape
  <2> QED BY <1>4, <2>1, <2>2, <2>3 DEF Unsigned, TransitionOK
<1>5. ASSUME NEW i \in DOMAIN node PROVE TransitionOK(node[i])
  <2>1. CASE Unsigned(node[i], st) BY <1>4, <2>1
  <2>2. ASSUME NEW d \in Demands, node[i] = Rebuilt(st, d) PROVE TransitionOK(node[i])
    <3>1. PICK x : x = node[i] OBVIOUS
    <3>2. Shape(x) /\ x.signature = st.signature /\ x.keys = st.keys BY <1>1, <2>2, <3>1, RebuiltFacts
    <3>3. TransitionOK(x) BY <1>2, <3>2, KnownSigners
    <3> QED BY <3>1, <3>3
  <2> QED BY <2>1, <2>2, NodeHolds
<1>0. ASSUME NEW s, s = <<>> \/ \E x : s = <<x>> PROVE Len(s) <= 1
  <2>1. CASE s = <<>> BY <2>1
  <2>2. ASSUME NEW x, s = <<x>> PROVE Len(s) <= 1
    <3>1. Len(<<x>>) = 1 OBVIOUS
    <3> QED BY <2>2, <3>1
  <2> QED BY <1>0, <2>1, <2>2
<1>6. Len(node) <= 1
  <2>1. node = <<>> \/ \E x : node = <<x>> BY NodeIs
  <2> QED BY <1>0, <2>1
<1>7. Len(signing) <= 1
  <2>1. signing = <<>> \/ \E g : signing = <<g>> BY <1>1 DEF SigningOf
  <2> QED BY <1>0, <2>1
<1>8. DOMAIN proofs = DOMAIN st.keys BY <1>1 DEF ProofsOf
<1>9. route \in {"none", "object", "enum", "typed"}
  BY <1>1 DEF SentInv, SentAs, Bounds
<1> QED BY <1>1, <1>3, <1>5, <1>6, <1>7, <1>8, <1>9 DEF TypeOK, Bounds

\* A transition signed with the key it names verifies as long as its content
\* is the same.
Right ==
  /\ signing # <<>>
  /\ signing[1].content = Content(st)
  /\ IF st.kind \in AssetLocked
     THEN signing[1].priv = LockKey[st.body] /\ signing[1].scheme = "ECDSA"
     ELSE signing[1].key = <<st.owner, st.keyId>>

\* A transition signed as it stands, by the right key, is one a node accepts.
LEMMA RightIsAccepted ==
    ASSUME SignedInv, Right
    PROVE  Accepted(st)
<1>1. Shape(st) /\ SigningOf(st, signing) /\ signing # <<>> BY DEF SignedInv, Right
<1>2. PICK t : t = st OBVIOUS
<1>3. PICK u, k : \E type \in SUPPORTED_KEY_TYPES, p \in PrivateKeys :
        /\ Shape(u) /\ u.kind = t.kind /\ u.contract = t.contract
        /\ t.signature = SignatureOf(type, p, to_buffer(u, TRUE))
        /\ signing = <<[key |-> k, priv |-> p, scheme |-> Scheme(type), content |-> Content(u)]>>
        /\ t.kind \notin AssetLocked => StoredSigner(u, k, type, p)
  BY <1>1, <1>2 DEF SigningOf
<1>4. PICK type \in SUPPORTED_KEY_TYPES, p \in PrivateKeys :
        /\ Shape(u) /\ u.kind = t.kind /\ u.contract = t.contract
        /\ t.signature = SignatureOf(type, p, to_buffer(u, TRUE))
        /\ signing = <<[key |-> k, priv |-> p, scheme |-> Scheme(type), content |-> Content(u)]>>
        /\ t.kind \notin AssetLocked => StoredSigner(u, k, type, p)
  BY <1>3
<1>5. signing[1].key = k /\ signing[1].priv = p /\ signing[1].scheme = Scheme(type)
      /\ signing[1].content = Content(u)
  BY <1>4
<1>6. Content(u) = Content(t) BY <1>2, <1>5 DEF Right
<1>7. PICK bytes : bytes = to_buffer(t, TRUE) OBVIOUS
<1>8. bytes = to_buffer(u, TRUE) BY <1>1, <1>2, <1>4, <1>6, <1>7, BytesCoverContent
<1>9. t.signature = SignatureOf(type, p, bytes) BY <1>4, <1>8
<1>10. CASE t.kind \in AssetLocked
  <2>1. p = LockKey[t.body] /\ Scheme(type) = "ECDSA" BY <1>2, <1>5, <1>10 DEF Right
  <2>2. Scheme("ECDSA_HASH160") = "ECDSA" BY DEF Scheme
  <2>3. t.signature = SignatureOf("ECDSA_HASH160", LockKey[t.body], bytes)
    BY <1>9, <2>1, <2>2 DEF SignatureOf
  <2> QED BY <1>2, <1>7, <1>10, <2>3 DEF Accepted, validate_key_signature
<1>11. CASE t.kind \notin AssetLocked
  <2>1. k = <<t.owner, t.keyId>> BY <1>2, <1>5, <1>11 DEF Right
  <2>2. PICK i \in Ids : \E id \in DOMAIN StoredKeys[i] :
          /\ k = <<i, id>>
          /\ StoredKeys[i][id].type = type /\ StoredKeys[i][id].data.of = p
          /\ verify_public_key_level_and_purpose(u, StoredKeys[i][id])
    BY <1>4, <1>11 DEF StoredSigner
  <2>3. PICK id \in DOMAIN StoredKeys[i] :
          /\ k = <<i, id>>
          /\ StoredKeys[i][id].type = type /\ StoredKeys[i][id].data.of = p
          /\ verify_public_key_level_and_purpose(u, StoredKeys[i][id])
    BY <2>2
  <2>4. i = t.owner /\ id = t.keyId BY <2>1, <2>3
  <2>5. PICK key : key = StoredKeys[t.owner][t.keyId] OBVIOUS
  <2>6. /\ t.keyId \in DOMAIN StoredKeys[t.owner] /\ key.type = type /\ key.data.of = p
        /\ verify_public_key_level_and_purpose(u, key)
    BY <2>3, <2>4, <2>5
  <2>7. u.types = t.types
    BY <1>4, <1>6, ContentEquality
  <2>8. get_security_level_requirement(u) = get_security_level_requirement(t)
    <3>1. BatchRequirement(u) = BatchRequirement(t) BY <1>4, <2>7 DEF BatchRequirement
    <3> QED BY <1>4, <3>1 DEF get_security_level_requirement
  <2>9. verify_public_key_level_and_purpose(t, key)
    BY <2>6, <2>8 DEF verify_public_key_level_and_purpose
  <2>10. t.signature # <<>> BY <1>9, SignatureFacts
  <2>11. VerifyData(t, key.type, key.data) BY <1>7, <1>9, <2>6, <2>10 DEF VerifyData
  <2>12. verify_signature(t, t.keyId) BY <2>5, <2>9, <2>10, <2>11 DEF verify_signature
  <2>13. validate_identity_signature(t) BY <2>5, <2>6, <2>12 DEF validate_identity_signature
  <2> QED BY <1>2, <1>11, <2>13 DEF Accepted
<1> QED BY <1>10, <1>11

\* A transition arrives as it was sent and verifies if it was signed
\* (ArrivesIntact), for any keys, kinds and number of edits.
THEOREM TransitionsArriveIntact == Spec => []ArrivesIntact
<1>1. SignedInv => DecodedAsSent
  <2>1. SUFFICES ASSUME SignedInv, phase = "answered", route = "object", Rebuildable(st)
                 PROVE  node # <<>> /\ node = <<[st EXCEPT !.contract = node[1].contract]>>
    BY DEF DecodedAsSent, Rebuildable
  <2>2. PICK n : node = <<n>> /\ \E d \in Demands : n = Rebuilt(st, d)
    BY <2>1, NodeIs
  <2>3. Shape(st) BY <2>1 DEF SignedInv
  <2>4. n = [st EXCEPT !.contract = n.contract] BY <2>2, <2>3, RebuiltFacts
  <2>5. node[1] = n /\ node # <<>> BY <2>2
  <2> QED BY <2>2, <2>4, <2>5
<1>2. SignedInv => SignedIsAccepted
  <2>1. SUFFICES ASSUME SignedInv, Right
                 PROVE  /\ Accepted(st)
                        /\ route = "object" /\ node # <<>> /\ node[1].contract = st.contract
                             => Accepted(node[1])
    BY DEF SignedIsAccepted, Right
  <2>2. Accepted(st) BY <2>1, RightIsAccepted
  <2>3. ASSUME route = "object", node # <<>>, node[1].contract = st.contract
        PROVE  Accepted(node[1])
    <3>1. PICK n : node = <<n>> /\ \E d \in Demands : n = Rebuilt(st, d)
      BY <2>1, <2>3, NodeIs
    <3>2. Shape(st) BY <2>1 DEF SignedInv
    <3>3. n = [st EXCEPT !.contract = n.contract] BY <3>1, <3>2, RebuiltFacts
    <3>4. node[1] = n BY <3>1
    <3>5. PICK t : t = st OBVIOUS
    <3>6. t = [kind |-> t.kind, version |-> t.version, owner |-> t.owner, body |-> t.body,
               keys |-> t.keys, types |-> t.types, contract |-> t.contract, keyId |-> t.keyId,
               signature |-> t.signature]
      BY <3>2, <3>5 DEF Shape, Fields
    <3>7. n.contract = t.contract BY <2>3, <3>4, <3>5
    <3>8. [t EXCEPT !.contract = t.contract] = t BY <3>6
    <3>9. n = st BY <3>3, <3>5, <3>7, <3>8
    <3> QED BY <2>2, <3>4, <3>9
  <2> QED BY <2>2, <2>3
<1>3. SignedInv => ArrivesIntact BY <1>1, <1>2, SignedTypes DEF ArrivesIntact
<1> QED BY <1>3, SigningInvariant, PTL

------------------------------------------------------------------------------
(* Proofs of possession. *)

\* What validate_public_key_signatures makes of an update: the very
\* transition, or from the enum's bytes one whose keys are unsigned.
LEMMA UpdateReads ==
    ASSUME NEW t, Shape(t), t.kind = "identityUpdate"
    PROVE  /\ IdentityUpdate_from_raw_object(UpdateWhole(t)) = t
           /\ IdentityUpdate_from_raw_object(UpdatePart(t)).keys
                = [i \in DOMAIN t.keys |-> [t.keys[i] EXCEPT !.signature = <<>>]]
<1>1. t = [kind |-> "identityUpdate", version |-> t.version, owner |-> t.owner, body |-> t.body,
           keys |-> t.keys, types |-> <<>>, contract |-> <<>>, keyId |-> t.keyId,
           signature |-> t.signature]
  BY DEF Shape, KindShape, Fields
<1>2. t.keys = [i \in DOMAIN t.keys |-> t.keys[i]] /\ \A i \in DOMAIN t.keys : KeyShape(t.keys[i])
  BY DEF Shape
<1>3. PICK ws : ws = RawKeys(t.keys, FALSE) OBVIOUS
<1>4. PICK ps : ps = RawKeys(t.keys, TRUE) OBVIOUS
<1>5. PICK bare : bare = [i \in DOMAIN t.keys |-> [t.keys[i] EXCEPT !.signature = <<>>]] OBVIOUS
<1>6. KeysOf(ws) = t.keys /\ KeysOf(ps) = bare BY <1>2, <1>3, <1>4, <1>5, KeysRoundTrip
<1>7. PICK o : o = UpdateWhole(t) OBVIOUS
<1>8. o = [protocolVersion |-> Plain(t.version), type |-> Plain(t.kind),
           signaturePublicKeyId |-> Plain(t.keyId), identityId |-> Bytes(t.owner),
           revision |-> Plain(t.body), signature |-> Bytes(t.signature), addPublicKeys |-> Plain(ws)]
  BY <1>3, <1>7 DEF UpdateWhole
<1>9. /\ "addPublicKeys" \in DOMAIN o /\ "signature" \in DOMAIN o
      /\ o.protocolVersion.of = t.version /\ o.signaturePublicKeyId.of = t.keyId
      /\ o.identityId.of = t.owner /\ o.revision.of = t.body /\ o.signature.of = t.signature
      /\ o.addPublicKeys.of = ws
  BY <1>8 DEF Plain, Bytes
<1>10. IdentityUpdate_from_raw_object(o) =
         Restored(Draft("identityUpdate", t.owner, t.body, t.keys, <<>>, <<>>), t.version, t.keyId, t.signature)
  BY <1>6, <1>9 DEF IdentityUpdate_from_raw_object, SignatureIn
<1>11. IdentityUpdate_from_raw_object(o) = t BY <1>1, <1>10, DraftRestored
<1>12. PICK p : p = UpdatePart(t) OBVIOUS
<1>13. p = [protocolVersion |-> Plain(t.version), type |-> Plain(t.kind),
            signaturePublicKeyId |-> Plain(t.keyId), identityId |-> Bytes(t.owner),
            revision |-> Plain(t.body), addPublicKeys |-> Plain(ps)]
  BY <1>4, <1>12 DEF UpdatePart
<1>14. /\ "addPublicKeys" \in DOMAIN p /\ "signature" \notin DOMAIN p
       /\ p.protocolVersion.of = t.version /\ p.signaturePublicKeyId.of = t.keyId
       /\ p.identityId.of = t.owner /\ p.revision.of = t.body /\ p.addPublicKeys.of = ps
  BY <1>13 DEF Plain, Bytes
<1>15. IdentityUpdate_from_raw_object(p) =
         Restored(Draft("identityUpdate", t.owner, t.body, bare, <<>>, <<>>), t.version, t.keyId, <<>>)
  BY <1>6, <1>14 DEF IdentityUpdate_from_raw_object, SignatureIn
<1>16. IdentityUpdate_from_raw_object(p).keys = bare BY <1>15, DraftRestored
<1> QED BY <1>5, <1>7, <1>11, <1>12, <1>16

\* A key's signature that verifies on t.
KeyVerifies(t, key) ==
  /\ key.type # "BIP13_SCRIPT_HASH"
  /\ key.signature = SignatureOf(key.type, key.data.of, to_buffer(t, TRUE))

\* verify_by_public_key on a key's own signature, in terms of the transition's bytes.
LEMMA KeyVerification ==
    ASSUME NEW t, Shape(t), NEW key
    PROVE  verify_by_public_key([t EXCEPT !.signature = key.signature], key) <=> KeyVerifies(t, key)
<1>1. PICK u : u = [t EXCEPT !.signature = key.signature] OBVIOUS
<1>2. Shape(u) /\ u.kind = t.kind /\ u.signature = key.signature /\ Content(u) = Content(t)
  BY <1>1, Resigned
<1>3. PICK bytes : bytes = to_buffer(t, TRUE) OBVIOUS
<1>4. bytes = to_buffer(u, TRUE) BY <1>2, <1>3, BytesCoverContent
<1>5. verify_by_public_key(u, key)
        <=> /\ key.type # "BIP13_SCRIPT_HASH" /\ u.signature # <<>>
            /\ u.signature = SignatureOf(key.type, key.data.of, bytes)
  BY <1>4 DEF verify_by_public_key, VerifyData
<1>6. KeyVerifies(t, key)
        <=> key.type # "BIP13_SCRIPT_HASH" /\ key.signature = SignatureOf(key.type, key.data.of, bytes)
  BY <1>3 DEF KeyVerifies
<1>7. SignatureOf(key.type, key.data.of, bytes) # <<>> BY SignatureFacts
<1> QED BY <1>1, <1>2, <1>5, <1>6, <1>7

\* A key proved its possession of this content.
Proved(key, g, t) == g # <<>> /\ g[1].priv = key.data.of /\ g[1].content = Content(t)

\* A key's signature verifies exactly when its owner signed this content with it.
LEMMA ProvedIffVerifies ==
    ASSUME NEW t, Shape(t), NEW key, NEW g, ProofOf(key, g, t.kind)
    PROVE  KeyVerifies(t, key) <=> Proved(key, g, t)
<1>1. PICK bytes : bytes = to_buffer(t, TRUE) OBVIOUS
<1>2. KeyVerifies(t, key)
        <=> key.type # "BIP13_SCRIPT_HASH" /\ key.signature = SignatureOf(key.type, key.data.of, bytes)
  BY <1>1 DEF KeyVerifies
<1>3. CASE g = <<>> /\ key.signature = <<>>
  BY <1>2, <1>3, SignatureFacts DEF Proved
<1>4. ASSUME NEW u, NEW p \in PrivateKeys, Shape(u), u.kind = t.kind, key.type \in SUPPORTED_KEY_TYPES,
             key.signature = SignatureOf(key.type, p, to_buffer(u, TRUE)),
             g = <<[key |-> <<>>, priv |-> p, scheme |-> Scheme(key.type), content |-> Content(u)]>>
      PROVE  KeyVerifies(t, key) <=> Proved(key, g, t)
  <2>1. PICK signed : signed = to_buffer(u, TRUE) OBVIOUS
  <2>2. key.signature = SignatureOf(key.type, p, signed) BY <1>4, <2>1
  <2>3. signed = bytes <=> Content(u) = Content(t) BY <1>1, <1>4, <2>1, BytesCoverContent
  <2>4. key.signature = SignatureOf(key.type, key.data.of, bytes) <=> p = key.data.of /\ signed = bytes
    BY <2>2, SignatureFacts
  <2>5. g # <<>> /\ g[1].priv = p /\ g[1].content = Content(u) BY <1>4
  <2>6. key.type # "BIP13_SCRIPT_HASH" BY <1>4 DEF SUPPORTED_KEY_TYPES
  <2> QED BY <1>2, <2>3, <2>4, <2>5, <2>6 DEF Proved
<1> QED BY <1>3, <1>4 DEF ProofOf

\* A key that verifies carries a signature.
LEMMA VerifiedIsSigned ==
    ASSUME NEW n, "signature" \in DOMAIN n, NEW key,
           verify_by_public_key([n EXCEPT !.signature = key.signature], key)
    PROVE  key.signature # <<>>
<1>1. PICK u : u = [n EXCEPT !.signature = key.signature] OBVIOUS
<1>2. u.signature = key.signature BY <1>1
<1>3. u.signature # <<>> BY <1>1 DEF verify_by_public_key, VerifyData
<1> QED BY <1>2, <1>3

\* A raw form that passes the check of the keys' signatures carries a
\* signature for every key of the transition.
LEMMA ValidKeysSigned ==
    ASSUME NEW t, Shape(t), NEW r, NEW o, SentAs(t, r, o), validate_public_key_signatures(o)
    PROVE  \A i \in DOMAIN t.keys : t.keys[i].signature # <<>>
<1>1. t.keys = [i \in DOMAIN t.keys |-> t.keys[i]] /\ (\A i \in DOMAIN t.keys : KeyShape(t.keys[i]))
      /\ t.kind \in StateTransitionType
  BY DEF Shape
<1>2. "type" \in DOMAIN o /\ o.type.of \in {"identityCreate", "identityUpdate"}
  BY DEF validate_public_key_signatures
<1>3. CASE r \in {"object", "enum"} /\ t.kind = "identityUpdate"
  <2>1. o = UpdateWhole(t) \/ o = UpdatePart(t)
    BY <1>3, Writes, EnumWritesPart DEF SentAs
  <2>2. o.type.of = "identityUpdate" BY <1>3, <2>1, RawTypes
  <2>3. PICK n : n = IdentityUpdate_from_raw_object(o) OBVIOUS
  <2>4. \A i \in DOMAIN n.keys :
          verify_by_public_key([n EXCEPT !.signature = n.keys[i].signature], n.keys[i])
    BY <2>2, <2>3 DEF validate_public_key_signatures
  <2>5. "signature" \in DOMAIN n
    <3>1. \E kind, owner, body, keys, types, contract, v, k, s :
            n = Restored(Draft(kind, owner, body, keys, types, contract), v, k, s)
      BY <2>3 DEF IdentityUpdate_from_raw_object
    <3> QED BY <3>1, DraftRestored
  <2>6. \A i \in DOMAIN n.keys : n.keys[i].signature # <<>> BY <2>4, <2>5, VerifiedIsSigned
  <2>7. CASE o = UpdateWhole(t)
    <3>1. n = t BY <1>3, <2>3, <2>7, UpdateReads
    <3> QED BY <2>6, <3>1
  <2>8. CASE o = UpdatePart(t)
    <3>1. n.keys = [i \in DOMAIN t.keys |-> [t.keys[i] EXCEPT !.signature = <<>>]]
      BY <1>3, <2>3, <2>8, UpdateReads
    <3>2. DOMAIN n.keys = DOMAIN t.keys BY <3>1
    <3>3. ASSUME NEW i \in DOMAIN t.keys PROVE FALSE
      <4>1. PICK key : key = t.keys[i] OBVIOUS
      <4>2. n.keys[i] = [key EXCEPT !.signature = <<>>] BY <3>1, <4>1
      <4>3. key = [id |-> key.id, type |-> key.type, data |-> key.data, signature |-> key.signature]
        BY <1>1, <4>1 DEF KeyShape
      <4>4. n.keys[i].signature = <<>> BY <4>2, <4>3
      <4> QED BY <2>6, <3>2, <4>4
    <3> QED BY <3>3
  <2> QED BY <2>1, <2>7, <2>8
<1>4. CASE r = "typed" /\ t.kind = "identityCreate"
  <2>1. PICK w : w = to_object(t, FALSE) OBVIOUS
  <2>2. o = With(w, "type", Plain(t.kind)) BY <1>4, <2>1 DEF SentAs
  <2>3. w = CreateWhole(t) BY <1>4, <2>1, Writes
  <2>4. PICK ks : ks = RawKeys(t.keys, FALSE) OBVIOUS
  <2>5. w = [protocolVersion |-> Plain(t.version), identityId |-> Null, publicKeys |-> Plain(ks),
             assetLockProof |-> Plain(t.body), signature |-> Bytes(t.signature)]
    BY <2>3, <2>4 DEF CreateWhole
  <2>6. PICK v : v = Plain(t.kind) OBVIOUS
  <2>7. o["type"] = v /\ o["publicKeys"] = Plain(ks) BY <2>2, <2>5, <2>6 DEF With
  <2>8. o.type.of = "identityCreate" /\ o.publicKeys.of = ks BY <1>4, <2>6, <2>7 DEF Plain
  <2>9. KeysOf(ks) = t.keys BY <1>1, <2>4, KeysRoundTrip
  <2>10. PICK n : n = Restored(Draft("identityCreate", LockId[o.assetLockProof.of], o.assetLockProof.of,
                                     t.keys, <<>>, <<>>), 0, 0, <<>>)
    OBVIOUS
  <2>11. IdentityCreate_new(o) = <<n>> BY <2>8, <2>9, <2>10 DEF IdentityCreate_new
  <2>12. n.keys = t.keys /\ "signature" \in DOMAIN n BY <2>10, DraftRestored
  <2>13. IdentityCreate_new(o)[1] = n BY <2>11
  <2>14. \A i \in DOMAIN n.keys :
           verify_by_public_key([n EXCEPT !.signature = n.keys[i].signature], n.keys[i])
    BY <2>8, <2>13 DEF validate_public_key_signatures
  <2>15. \A i \in DOMAIN n.keys : n.keys[i].signature # <<>> BY <2>12, <2>14, VerifiedIsSigned
  <2> QED BY <2>12, <2>15
<1>5. CASE t.kind \notin {"identityCreate", "identityUpdate"}
  <2>1. t.keys = <<>> BY <1>5 DEF Shape, KindShape
  <2> QED BY <2>1
<1>6. CASE r \in {"object", "enum"} /\ t.kind = "identityCreate"
  <2>1. o = CreateWhole(t) \/ o = CreatePart(t) BY <1>6, Writes, EnumWritesPart DEF SentAs
  <2>2. "type" \notin DOMAIN o BY <2>1, RawTypes
  <2> QED BY <1>2, <2>2
<1>7. r = "typed" => t.kind \in AssetLocked BY DEF SentAs
<1>8. r \in {"object", "enum", "typed"} BY DEF SentAs
<1> QED BY <1>3, <1>4, <1>5, <1>6, <1>7, <1>8 DEF AssetLocked

\* An update that is sent as it writes itself passes exactly when every key
\* verifies on it.
LEMMA UpdateValid ==
    ASSUME NEW t, Shape(t), t.kind = "identityUpdate", NEW o, o = to_object(t, FALSE)
    PROVE  validate_public_key_signatures(o) <=> \A i \in DOMAIN t.keys : KeyVerifies(t, t.keys[i])
<1>1. o = UpdateWhole(t) BY Writes
<1>2. "type" \in DOMAIN o /\ o.type.of = "identityUpdate" BY <1>1, RawTypes
<1>3. IdentityUpdate_from_raw_object(o) = t BY <1>1, UpdateReads
<1>4. validate_public_key_signatures(o)
        <=> \A i \in DOMAIN t.keys :
              verify_by_public_key([t EXCEPT !.signature = t.keys[i].signature], t.keys[i])
  BY <1>2, <1>3 DEF validate_public_key_signatures
<1>5. \A i \in DOMAIN t.keys :
        verify_by_public_key([t EXCEPT !.signature = t.keys[i].signature], t.keys[i])
          <=> KeyVerifies(t, t.keys[i])
  BY KeyVerification
<1> QED BY <1>4, <1>5

\* The keys an update adds pass exactly when each signed, with its own private
\* key, the content that is sent (ProofsOfPossession), for any keys and any
\* order of signing.
THEOREM KeysProvePossession == Spec => []ProofsOfPossession
<1>1. SignedInv => ProofsOfPossession
  <2>1. SUFFICES ASSUME SignedInv, phase = "sent" PROVE ProofsOfPossession
    BY DEF ProofsOfPossession
  <2>2. Shape(st) /\ SentAs(st, route, raw) BY <2>1 DEF SignedInv, SentInv
  <2>3. \A i \in DOMAIN st.keys : ProofOf(st.keys[i], proofs[i], st.kind) BY <2>1 DEF SignedInv, ProofsOf
  <2>4. ASSUME st.kind = "identityUpdate", route = "object"
        PROVE  validate_public_key_signatures(raw)
                 <=> \A i \in DOMAIN st.keys : Proved(st.keys[i], proofs[i], st)
    <3>1. raw = to_object(st, FALSE) BY <2>2, <2>4 DEF SentAs
    <3>2. validate_public_key_signatures(raw) <=> \A i \in DOMAIN st.keys : KeyVerifies(st, st.keys[i])
      BY <2>2, <2>4, <3>1, UpdateValid
    <3>3. \A i \in DOMAIN st.keys : KeyVerifies(st, st.keys[i]) <=> Proved(st.keys[i], proofs[i], st)
      BY <2>2, <2>3, ProvedIffVerifies
    <3> QED BY <3>2, <3>3
  <2>5. ASSUME validate_public_key_signatures(raw) PROVE \A i \in DOMAIN st.keys : proofs[i] # <<>>
    <3>1. \A i \in DOMAIN st.keys : st.keys[i].signature # <<>> BY <2>2, <2>5, ValidKeysSigned
    <3>2. ASSUME NEW i \in DOMAIN st.keys PROVE proofs[i] # <<>>
      <4>1. ProofOf(st.keys[i], proofs[i], st.kind) /\ st.keys[i].signature # <<>> BY <2>3, <3>1
      <4>2. \E x : proofs[i] = <<x>> BY <4>1 DEF ProofOf
      <4> QED BY <4>2
    <3> QED BY <3>2
  <2> QED BY <2>4, <2>5 DEF ProofsOfPossession, Proved
<1> QED BY <1>1, SigningInvariant, PTL
=============================================================================
