------------------------- MODULE SignedTransitions -------------------------
(***************************************************************************)
(* How a state transition is signed, written, read back and verified.  A   *)
(* client drafts a transition of one of the seven kinds, gives it a key    *)
(* id, lets the keys it adds sign it, signs it, and hands its raw form to  *)
(* a node, which rebuilds a transition from it and verifies the signature  *)
(* against the keys it has stored.  What a signature covers is decided by  *)
(* to_object(skip_signature), so the conversions are modelled property by  *)
(* property; a property's value is a model value.                          *)
(*                                                                         *)
(* A signature is <<>> (none) or <<[scheme, priv, data]>>: who made it and *)
(* over which bytes.  Verification succeeds for exactly that signer and    *)
(* those bytes (external: dashcore::signer and the BLS module).            *)
(***************************************************************************)
EXTENDS Integers, Sequences, FiniteSets

CONSTANTS
  Ids,          \* identifiers of identities
  Bodies,       \* what a kind carries beside owner, keys and signatures
  PrivateKeys,
  StoredKeys,   \* the stored public keys of each identity, by key id
  MayDisable,   \* the stored keys <<identity, key id>> that may get disabled
  KeyLists,     \* sequences of unsigned public keys a create or update adds
  TypeLists,    \* sequences of document types a batch touches
  DocTypes,     \* the document types of the one data contract
  Demands,      \* the levels the contract may demand for a type: [DocTypes -> 0..3]
  LockKey,      \* the private key whose hash an asset lock proof burns to
  LockId,       \* the identifier an asset lock proof creates
  LATEST_VERSION,
  MaxSteps      \* bound: edits and signatures of one draft

ASSUME SignedAssumption ==
  /\ LATEST_VERSION \in Nat \ {0} /\ MaxSteps \in Nat
  /\ Bodies # {} /\ Ids # {} /\ DOMAIN StoredKeys = Ids
  /\ \A k \in MayDisable : k[1] \in Ids /\ k[2] \in DOMAIN StoredKeys[k[1]]
  /\ LockKey \in [Bodies -> PrivateKeys] /\ LockId \in [Bodies -> Ids]
  /\ Demands \subseteq [DocTypes -> 0..3] /\ TypeLists \subseteq Seq(DocTypes)

VARIABLES
  st,        \* the client's transition
  signing,   \* ghost: the last signing of st, <<>> or <<[key, priv, scheme, content]>>
  proofs,    \* ghost: the last signing of each key st adds, likewise
  steps,     \* edits and signatures so far (bounded)
  phase,     \* "draft", "sent", "answered"
  route,     \* how the raw form was written
  raw,       \* the raw form in flight
  node,      \* <<>> or <<the transition the node rebuilt>>
  disabled,  \* the stored keys with a disabledAt
  demand     \* the levels the stored contract demands

vars == <<st, signing, proofs, steps, phase, route, raw, node, disabled, demand>>

------------------------------------------------------------------------------
(* Keys and kinds. *)

MASTER == 0
HIGH == 2
lowest_level == 3   \* SecurityLevel::lowest_level: MEDIUM

StateTransitionType ==
  { "dataContractCreate", "documentsBatch", "identityCreate", "identityTopUp",
    "dataContractUpdate", "identityUpdate", "identityCreditWithdrawal" }

AssetLocked == {"identityCreate", "identityTopUp"}
SUPPORTED_KEY_TYPES == {"ECDSA_SECP256K1", "BLS12_381", "ECDSA_HASH160"}
KeyType == SUPPORTED_KEY_TYPES \cup {"BIP13_SCRIPT_HASH"}

\* The data an identity stores for the public key of a private key.
DataOf(type, priv) == [type |-> type, of |-> priv]

\* Keys that a create or an update adds, before they sign, and stored keys.
AddedKey ==
  [id : Nat, type : KeyType, data : [type : KeyType, of : PrivateKeys], signature : {<<>>}]

ASSUME KeysAssumption ==
  /\ KeyLists \subseteq Seq(AddedKey)
  /\ \A i \in Ids : \A id \in DOMAIN StoredKeys[i] :
       StoredKeys[i][id] \in [type : KeyType, data : [type : KeyType, of : PrivateKeys],
                              level : 0..3, purpose : STRING]

Scheme(type) == IF type = "BLS12_381" THEN "BLS" ELSE "ECDSA"
SignatureOf(type, priv, data) == <<[scheme |-> Scheme(type), priv |-> priv, data |-> data]>>

------------------------------------------------------------------------------
(* Raw values: an identifier is text in base58 or bytes, a script is text   *)
(* in base64 or bytes, everything else is written as it is.                 *)

Plain(v)  == [form |-> "plain", of |-> v]
Bytes(v)  == [form |-> "bytes", of |-> v]
Base58(v) == [form |-> "base58", of |-> v]
Base64(v) == [form |-> "base64", of |-> v]
Null      == [form |-> "null", of |-> <<>>]

Without(o, names) == [p \in DOMAIN o \ names |-> o[p]]
With(o, name, value) == [p \in DOMAIN o \cup {name} |-> IF p = name THEN value ELSE o[p]]

\* Mutant: a conversion that fails leaves the value in place.
replace_identifier_InPlace(v, with) ==
  CASE with = "bytes" /\ v.form = "base58"                 -> Bytes(v.of)
    [] with = "base58" /\ v.form = "bytes" /\ v.of \in Ids -> Base58(v.of)
    [] OTHER                                               -> v

\* The value is taken out before it is converted: a conversion that fails
\* leaves a null behind.
replace_identifier(v, with) ==
  CASE with = "bytes" /\ v.form = "base58"                 -> Bytes(v.of)
    [] with = "base58" /\ v.form = "bytes" /\ v.of \in Ids -> Base58(v.of)
    [] OTHER                                               -> Null

\* replace_identifier_paths: paths that are absent are passed over.
ReplaceIds(o, paths, with) ==
  [p \in DOMAIN o |-> IF p \in paths THEN replace_identifier(o[p], with) ELSE o[p]]

ReplacementFails(o, paths, with) ==
  \E p \in paths \cap DOMAIN o : replace_identifier(o[p], with) = Null

\* Mutant: skip_signatures is not looked at.
to_raw_json_object_Kept(key, skip_signatures) ==
  IF key.signature = <<>> THEN Without(key, {"signature"}) ELSE key

\* IdentityPublicKey::to_raw_json_object: an empty signature is never written.
to_raw_json_object(key, skip_signatures) ==
  IF skip_signatures \/ key.signature = <<>> THEN Without(key, {"signature"}) ELSE key

\* IdentityPublicKey::from_raw_object
key_from_raw_object(o) ==
  IF "signature" \in DOMAIN o THEN o ELSE With(o, "signature", <<>>)

RawKeys(keys, skip) == [i \in DOMAIN keys |-> to_raw_json_object(keys[i], skip)]
KeysOf(list) == [i \in DOMAIN list |-> key_from_raw_object(list[i])]

------------------------------------------------------------------------------
(* The seven kinds.  One record holds the fields of every kind; a field a   *)
(* kind does not have stays at its initial value.                           *)

Draft(kind, owner, body, keys, types, contract) ==
  [kind |-> kind, version |-> LATEST_VERSION, owner |-> owner, body |-> body,
   keys |-> keys, types |-> types, contract |-> contract, keyId |-> 0, signature |-> <<>>]

\* A draft that got its version, key id and signature from a raw form.
Restored(t, version, keyId, signature) ==
  [t EXCEPT !.version = version, !.keyId = keyId, !.signature = signature]

SignatureIn(o) == IF "signature" \in DOMAIN o THEN o.signature.of ELSE <<>>

\* The fields every identity-signed kind serializes.
SignedFields(t) ==
  [protocolVersion |-> Plain(t.version), type |-> Plain(t.kind),
   signaturePublicKeyId |-> Plain(t.keyId), signature |-> Bytes(t.signature)]

\* The documents batch: the transitions are added by hand.
DocumentsBatchTransition(t) == With(SignedFields(t), "ownerId", Base58(t.owner))

DocumentsBatch_to_object(t, skip) ==
  LET o == ReplaceIds(DocumentsBatchTransition(t), {"ownerId"}, "bytes")
  IN  With(Without(o, IF skip THEN {"signature"} ELSE {}), "transitions", Plain(t.types))

\* The contract of every document transition is fetched anew.
DocumentsBatch_from_raw_object(o, contract) ==
  IF o.ownerId.form # "bytes" THEN <<>>
  ELSE <<Restored(Draft("documentsBatch", o.ownerId.of, CHOOSE b \in Bodies : TRUE, <<>>,
                        o.transitions.of, contract),
                  o.protocolVersion.of, o.signaturePublicKeyId.of, SignatureIn(o))>>

\* Contract create and update: the structs skip the contract, which is added
\* by hand; the key id is not part of what is signed.
DataContractCreateTransition(t) == SignedFields(t)
DataContractUpdateTransition(t) == SignedFields(t)

DataContractCreate_to_object(t, skip) ==
  With(Without(DataContractCreateTransition(t), IF skip THEN {"signature", "signaturePublicKeyId"} ELSE {}),
       "dataContract", Plain([of |-> t.body, ownerId |-> Bytes(t.owner)]))

DataContractUpdate_to_object(t, skip) ==
  With(Without(DataContractUpdateTransition(t), IF skip THEN {"signature", "signaturePublicKeyId"} ELSE {}),
       "dataContract", Plain([of |-> t.body, ownerId |-> Bytes(t.owner)]))

ContractFrom(kind, o) ==
  <<Restored(Draft(kind, o.dataContract.of.ownerId.of, o.dataContract.of.of, <<>>, <<>>, <<>>),
             o.protocolVersion.of,
             IF "signaturePublicKeyId" \in DOMAIN o THEN o.signaturePublicKeyId.of ELSE 0,
             SignatureIn(o))>>

DataContractCreate_from_raw_object(o) == ContractFrom("dataContractCreate", o)
DataContractUpdate_from_raw_object(o) == ContractFrom("dataContractUpdate", o)

\* Identity update: the added keys are written by hand, their signatures
\* skipped with the transition's own; the key id stays in what is signed.
IdentityUpdateTransition(t) ==
  With(With(SignedFields(t), "identityId", Base58(t.owner)), "revision", Plain(t.body))

\* Mutant: the keys, which the struct skips, are not added by hand.
IdentityUpdate_to_object_NoKeys(t, skip) ==
  Without(ReplaceIds(IdentityUpdateTransition(t), {"identityId"}, "bytes"),
          IF skip THEN {"signature"} ELSE {})

IdentityUpdate_to_object(t, skip) ==
  LET o == ReplaceIds(IdentityUpdateTransition(t), {"identityId"}, "bytes")
  IN  With(Without(o, IF skip THEN {"signature"} ELSE {}),
           "addPublicKeys", Plain(RawKeys(t.keys, skip)))

IdentityUpdate_from_raw_object(o) ==
  Restored(Draft("identityUpdate", o.identityId.of, o.revision.of,
                 IF "addPublicKeys" \in DOMAIN o THEN KeysOf(o.addPublicKeys.of) ELSE <<>>,
                 <<>>, <<>>),
           o.protocolVersion.of, o.signaturePublicKeyId.of, SignatureIn(o))

\* Credit withdrawal: the output script is text in base64 inside the struct.
IdentityCreditWithdrawalTransition(t) ==
  With(With(With(SignedFields(t), "identityId", Base58(t.owner)), "amount", Plain(t.body)),
       "outputScript", Base64(t.body))

IdentityCreditWithdrawal_to_object(t, skip) ==
  LET s == IdentityCreditWithdrawalTransition(t)
      o == [s EXCEPT !.outputScript = Bytes(@.of)]
  IN  Without(ReplaceIds(o, {"identityId"}, "bytes"),
              IF skip THEN {"signature", "signaturePublicKeyId"} ELSE {})

\* Every property must be there; the script has to be bytes, the identity
\* must convert back to base58.
IdentityCreditWithdrawal_from_raw_object(o) ==
  IF \/ ~ {"signature", "signaturePublicKeyId"} \subseteq DOMAIN o
     \/ o.outputScript.form # "bytes"
     \/ ReplacementFails(o, {"identityId"}, "base58")
  THEN <<>>
  ELSE <<Restored(Draft("identityCreditWithdrawal", o.identityId.of, o.amount.of, <<>>, <<>>, <<>>),
                  o.protocolVersion.of, o.signaturePublicKeyId.of, SignatureIn(o))>>

\* Identity create and top up write themselves: without a type, and with the
\* bytes of the signature where the identity's id belongs.
IdentityCreate_to_json_object(t) ==
  [signature |-> Bytes(t.signature), identityId |-> Bytes(t.signature),
   publicKeys |-> Plain(RawKeys(t.keys, FALSE)), assetLockProof |-> Plain(t.body),
   protocolVersion |-> Plain(t.version)]

IdentityTopUp_to_json_object(t) ==
  [signature |-> Bytes(t.signature), identityId |-> Bytes(t.signature),
   assetLockProof |-> Plain(t.body), protocolVersion |-> Plain(t.version)]

\* IdentityCreateTransition::new and IdentityTopUpTransition::new read the
\* keys and the proof, and nothing else.
IdentityCreate_new(o) ==
  <<Restored(Draft("identityCreate", LockId[o.assetLockProof.of], o.assetLockProof.of,
                   KeysOf(o.publicKeys.of), <<>>, <<>>), 0, 0, <<>>)>>

IdentityTopUp_new(o) ==
  <<Restored(Draft("identityTopUp", LockId[o.assetLockProof.of], o.assetLockProof.of, <<>>, <<>>, <<>>),
             0, 0, <<>>)>>

\* state_transition_helpers::to_object, which ignores that a replacement failed.
helpers_to_object(o, signaturePaths, identifierPaths, skip) ==
  Without(ReplaceIds(o, identifierPaths, "bytes"), IF skip THEN signaturePaths ELSE {})

\* StateTransition: each call goes to the kind it holds.
to_object(t, skip) ==
  CASE t.kind = "documentsBatch"           -> DocumentsBatch_to_object(t, skip)
    [] t.kind = "dataContractCreate"       -> DataContractCreate_to_object(t, skip)
    [] t.kind = "dataContractUpdate"       -> DataContractUpdate_to_object(t, skip)
    [] t.kind = "identityUpdate"           -> IdentityUpdate_to_object(t, skip)
    [] t.kind = "identityCreditWithdrawal" -> IdentityCreditWithdrawal_to_object(t, skip)
    [] t.kind = "identityCreate" ->
         helpers_to_object(IdentityCreate_to_json_object(t), {"signature"}, {"identityId"}, skip)
    [] t.kind = "identityTopUp" ->
         helpers_to_object(IdentityTopUp_to_json_object(t), {"signature"}, {"identityId"}, skip)

\* StateTransitionConvert::to_buffer: the version in front, the rest as CBOR.
to_buffer(t, skip) ==
  LET o == to_object(t, skip)
  IN  [version |-> o.protocolVersion.of, cbor |-> Without(o, {"protocolVersion"})]

\* What the enum's own to_buffer writes whatever it is asked for.
enum_to_buffer(t) == to_buffer(t, TRUE)

\* decode_protocol_entity: the version goes back among the properties.
decode_protocol_entity(b) == With(b.cbor, "protocolVersion", Plain(b.version))

\* create_state_transition, with the contract as it is stored now.
create_state_transition(o, contract) ==
  IF "type" \notin DOMAIN o THEN <<>>
  ELSE CASE o.type.of = "dataContractCreate" -> DataContractCreate_from_raw_object(o)
         [] o.type.of = "dataContractUpdate" -> DataContractUpdate_from_raw_object(o)
         [] o.type.of = "identityCreate"     -> IdentityCreate_new(o)
         [] o.type.of = "identityTopUp"      -> IdentityTopUp_new(o)
         [] o.type.of = "identityCreditWithdrawal" -> IdentityCreditWithdrawal_from_raw_object(o)
         [] o.type.of = "documentsBatch"     -> DocumentsBatch_from_raw_object(o, contract)
         [] o.type.of = "identityUpdate"     -> <<>>

------------------------------------------------------------------------------
(* Signing and verifying. *)

\* Mutant: the last document type decides.
BatchRequirement_Last(t) == t.contract[t.types[Len(t.types)]]

\* The strictest level over the document types a batch touches.
BatchRequirement(t) ==
  LET ls == {t.contract[t.types[i]] : i \in DOMAIN t.types} \cup {lowest_level}
  IN  CHOOSE l \in ls : \A m \in ls : l <= m

get_security_level_requirement(t) ==
  CASE t.kind = "identityUpdate" -> MASTER
    [] t.kind = "documentsBatch" -> BatchRequirement(t)
    [] OTHER                     -> HIGH

verify_public_key_level_and_purpose(t, key) ==
  /\ key.level = MASTER => get_security_level_requirement(t) = MASTER
  /\ key.level <= get_security_level_requirement(t)
  /\ key.purpose = "AUTHENTICATION"

verify_public_key_is_enabled(owner, id) == <<owner, id>> \notin disabled

\* A signature is there and it is the key's own, over the bytes to_buffer(true)
\* writes now.
VerifyData(t, type, data) ==
  /\ t.signature # <<>>
  /\ t.signature = SignatureOf(type, data.of, to_buffer(t, TRUE))

verify_by_public_key(t, key) ==
  key.type # "BIP13_SCRIPT_HASH" /\ VerifyData(t, key.type, key.data)

verify_signature(t, id) ==
  LET key == StoredKeys[t.owner][id]
  IN  /\ verify_public_key_level_and_purpose(t, key)
      /\ t.signature # <<>>
      /\ t.keyId = id
      /\ key.type = "BIP13_SCRIPT_HASH" \/ VerifyData(t, key.type, key.data)

\* validate_state_transition_identity_signature
validate_identity_signature(t) ==
  /\ t.keyId \in DOMAIN StoredKeys[t.owner]
  /\ StoredKeys[t.owner][t.keyId].type \in SUPPORTED_KEY_TYPES
  /\ verify_signature(t, t.keyId)

\* validate_state_transition_key_signature, past the check that a top up's
\* identity exists.
validate_key_signature(t) ==
  t.signature = SignatureOf("ECDSA_HASH160", LockKey[t.body], to_buffer(t, TRUE))

Accepted(t) ==
  IF t.kind \in AssetLocked THEN validate_key_signature(t) ELSE validate_identity_signature(t)

\* validate_public_key_signatures: each key's signature is put on the rebuilt
\* transition in turn.  Creates and updates only.
validate_public_key_signatures(o) ==
  /\ "type" \in DOMAIN o
  /\ o.type.of \in {"identityCreate", "identityUpdate"}
  /\ LET t    == IF o.type.of = "identityCreate" THEN IdentityCreate_new(o)[1]
                                                 ELSE IdentityUpdate_from_raw_object(o)
         keys == t.keys
     IN  \A i \in DOMAIN keys :
           verify_by_public_key([t EXCEPT !.signature = keys[i].signature], keys[i])

------------------------------------------------------------------------------
(* What a signature is meant to cover: the transition's own content, with   *)
(* the signatures of its keys for a create, and the id of the signing key   *)
(* for a batch and an update.                                               *)

Content(t) ==
  [kind |-> t.kind, version |-> t.version, body |-> t.body, types |-> t.types,
   keys |-> [i \in DOMAIN t.keys |->
              Without(t.keys[i], IF t.kind = "identityCreate" THEN {} ELSE {"signature"})],
   owner |-> IF t.kind \in AssetLocked THEN {} ELSE {t.owner},
   keyId |-> IF t.kind \in {"documentsBatch", "identityUpdate"} THEN {t.keyId} ELSE {}]

Drafts(contract) ==
  LET none == CHOOSE b \in Bodies : TRUE
      o    == CHOOSE i \in Ids : TRUE
  IN  {Draft("documentsBatch", o, none, <<>>, ts, contract) : ts \in TypeLists}
        \cup {Draft("identityCreate", LockId[b], b, ks, <<>>, <<>>) : b \in Bodies, ks \in KeyLists}
        \cup {Draft("identityTopUp", i, b, <<>>, <<>>, <<>>) : i \in Ids, b \in Bodies}
        \cup {Draft("identityUpdate", i, b, ks, <<>>, <<>>) : i \in Ids, b \in Bodies, ks \in KeyLists}
        \cup {Draft(k, i, b, <<>>, <<>>, <<>>) : i \in Ids, b \in Bodies,
               k \in {"dataContractCreate", "dataContractUpdate", "identityCreditWithdrawal"}}

Init ==
  /\ demand \in Demands
  /\ st \in Drafts(demand)
  /\ signing = <<>> /\ proofs = [i \in DOMAIN st.keys |-> <<>>]
  /\ steps = 0 /\ phase = "draft" /\ route = "none" /\ raw = <<>> /\ node = <<>>
  /\ disabled = {}

KeyIds == UNION {DOMAIN StoredKeys[i] : i \in Ids}

Edits == phase = "draft" /\ steps < MaxSteps /\ steps' = steps + 1
Elsewhere == UNCHANGED <<phase, route, raw, node, disabled, demand>>

\* The setters of the content: keys set anew carry no signature.
SetContent ==
  /\ Edits
  /\ \E t \in Drafts(st.contract) :
       /\ t.kind = st.kind
       /\ st' = [t EXCEPT !.keyId = st.keyId, !.signature = st.signature]
       /\ st' # st
       /\ proofs' = [i \in DOMAIN t.keys |-> <<>>]
  /\ UNCHANGED signing /\ Elsewhere

set_signature_public_key_id ==
  /\ Edits
  /\ st.kind \notin AssetLocked
  /\ \E id \in KeyIds \ {st.keyId} : st' = [st EXCEPT !.keyId = id]
  /\ UNCHANGED <<signing, proofs>> /\ Elsewhere

\* A key that is added signs the transition as it stands; the signature is
\* kept with the key.  There is no signing with a script hash.
SignPublicKey ==
  /\ Edits
  /\ \E i \in DOMAIN st.keys, p \in PrivateKeys :
       LET type == st.keys[i].type
       IN  /\ type # "BIP13_SCRIPT_HASH"
           /\ st' = [st EXCEPT !.keys[i].signature = SignatureOf(type, p, to_buffer(st, TRUE))]
           /\ proofs' = [proofs EXCEPT ![i] =
                <<[key |-> <<>>, priv |-> p, scheme |-> Scheme(type), content |-> Content(st)]>>]
  /\ UNCHANGED signing /\ Elsewhere

\* sign_by_private_key.
sign_by_private_key(type, p) ==
  /\ type # "BIP13_SCRIPT_HASH"
  /\ st' = [st EXCEPT !.signature = SignatureOf(type, p, to_buffer(st, TRUE))]

SignByPrivateKey ==
  /\ Edits
  /\ st.kind \in AssetLocked
  /\ \E type \in {"ECDSA_SECP256K1", "BLS12_381", "BIP13_SCRIPT_HASH"}, p \in PrivateKeys :
       /\ sign_by_private_key(type, p)
       /\ signing' = <<[key |-> <<>>, priv |-> p, scheme |-> Scheme(type), content |-> Content(st)]>>
  /\ UNCHANGED proofs /\ Elsewhere

\* sign: the key must be strong enough, enabled, and the private key's own.
sign ==
  /\ Edits
  /\ st.kind \notin AssetLocked
  /\ \E i \in Ids, p \in PrivateKeys : \E id \in DOMAIN StoredKeys[i] :
       LET key == StoredKeys[i][id]
       IN  /\ verify_public_key_level_and_purpose(st, key)
           /\ verify_public_key_is_enabled(i, id)
           /\ key.data = DataOf(key.type, p)
           /\ sign_by_private_key(key.type, p)
           /\ signing' = <<[key |-> <<i, id>>, priv |-> p, scheme |-> Scheme(key.type),
                            content |-> Content(st)]>>
  /\ UNCHANGED proofs /\ Elsewhere

\* The raw form leaves the client: as the kind writes itself, as the enum
\* writes itself, or as the kind writes itself with the type its schema asks for.
Send ==
  /\ phase = "draft" /\ phase' = "sent"
  /\ \/ route' = "object" /\ raw' = to_object(st, FALSE)
     \/ route' = "enum"   /\ raw' = decode_protocol_entity(enum_to_buffer(st))
     \/ /\ st.kind \in AssetLocked
        /\ route' = "typed" /\ raw' = With(to_object(st, FALSE), "type", Plain(st.kind))
  /\ UNCHANGED <<st, signing, proofs, steps, node, disabled, demand>>

Decode ==
  /\ phase = "sent" /\ phase' = "answered"
  /\ node' = create_state_transition(raw, demand)
  /\ UNCHANGED <<st, signing, proofs, steps, route, raw, disabled, demand>>

\* Meanwhile keys are disabled and the contract is updated.
DisableKey ==
  /\ \E k \in MayDisable \ disabled : disabled' = disabled \cup {k}
  /\ UNCHANGED <<st, signing, proofs, steps, phase, route, raw, node, demand>>

UpdateContract ==
  /\ \E d \in Demands : d # demand /\ demand' = d
  /\ UNCHANGED <<st, signing, proofs, steps, phase, route, raw, node, disabled>>

Next ==
  \/ SetContent \/ set_signature_public_key_id \/ SignPublicKey
  \/ SignByPrivateKey \/ sign \/ Send \/ Decode \/ DisableKey \/ UpdateContract

Spec == Init /\ [][Next]_vars

------------------------------------------------------------------------------
(* Properties. *)

Signatures == {<<>>} \cup {SignatureOf(t, p, "data") : t \in SUPPORTED_KEY_TYPES, p \in PrivateKeys}
Signer(s) == IF s = <<>> THEN s ELSE <<[s[1] EXCEPT !.data = "data"]>>

TransitionOK(t) ==
  /\ t.kind \in StateTransitionType /\ t.version \in {0, LATEST_VERSION}
  /\ t.owner \in Ids /\ t.body \in Bodies /\ t.keyId \in KeyIds \cup {0}
  /\ t.types \in TypeLists \cup {<<>>} /\ t.contract \in Demands \cup {<<>>}
  /\ Signer(t.signature) \in Signatures
  /\ \A i \in DOMAIN t.keys : Signer(t.keys[i].signature) \in Signatures

\* Types: both sides hold transitions of a known kind whose fields have the
\* types of the structs in src/dpp/src, whatever conversions they went through.
TypeOK ==
  /\ TransitionOK(st) /\ Len(node) <= 1 /\ \A i \in DOMAIN node : TransitionOK(node[i])
  /\ Len(signing) <= 1 /\ DOMAIN proofs = DOMAIN st.keys
  /\ steps \in 0..MaxSteps /\ phase \in {"draft", "sent", "answered"}
  /\ route \in {"none", "object", "enum", "typed"}
  /\ disabled \subseteq MayDisable /\ demand \in Demands

\* A transition that verifies (abstract_state_transition_identity_signed.rs
\* verify_signature, validate_state_transition_key_signature), at the client
\* or rebuilt at the node, has exactly the content its signer signed, and the
\* signer is the stored key it names or the key its asset lock burns to:
\* nothing that was set after signing, or changed by writing and reading the
\* transition, is accepted under the old signature.
AcceptedAsSigned ==
  \A t \in {st} \cup {node[i] : i \in DOMAIN node} :
    Accepted(t) =>
      /\ signing # <<>>
      /\ signing[1].content = Content(t)
      /\ signing[1].priv = IF t.kind \in AssetLocked THEN LockKey[t.body]
                          ELSE StoredKeys[t.owner][t.keyId].data.of

\* Conversely a transition that was signed with the key it names (or the
\* asset lock's) and has the same content still verifies, whatever order the
\* key id, the content and the signatures of added keys were set in: what
\* to_object(true) writes does not depend on the signature itself.  At the
\* node it still does when it came as the kind writes itself and the contract
\* demands what it did.
SignedIsAccepted ==
  LET right == /\ signing # <<>>
               /\ signing[1].content = Content(st)
               /\ IF st.kind \in AssetLocked
                  THEN signing[1].priv = LockKey[st.body] /\ signing[1].scheme = "ECDSA"
                  ELSE signing[1].key = <<st.owner, st.keyId>>
  IN  /\ right => Accepted(st)
      /\ right /\ route = "object" /\ node # <<>> /\ node[1].contract = st.contract
           => Accepted(node[1])

\* Sent as it writes itself, a batch, a contract create or update and a
\* withdrawal is rebuilt by create_state_transition as the very transition
\* that was sent, signature and key id included, except for the contract a
\* batch refers to: that is the one stored when the node decoded.
DecodedAsSent ==
  (/\ phase = "answered" /\ route = "object"
   /\ st.kind \notin AssetLocked \cup {"identityUpdate"})
    => /\ node # <<>>
       /\ node = <<[st EXCEPT !.contract = node[1].contract]>>

\* A transition arrives at the node as it was sent, and verifies there if it
\* was signed (create_state_transition, verify_signature).
ArrivesIntact == TypeOK /\ DecodedAsSent /\ SignedIsAccepted

\* The keys an identity update adds pass validate_public_key_signatures
\* exactly when each of them signed, with its own private key, the very
\* content that is sent, the id of the signing key included; the order in
\* which the keys signed, and the transition's own signature, do not matter.
\* No create passes with a key that did not sign.
ProofsOfPossession ==
  LET proved(i) == /\ proofs[i] # <<>>
                   /\ proofs[i][1].priv = st.keys[i].data.of
                   /\ proofs[i][1].content = Content(st)
      valid     == validate_public_key_signatures(raw)
  IN  phase = "sent" =>
        /\ st.kind = "identityUpdate" /\ route = "object"
             => (valid <=> \A i \in DOMAIN st.keys : proved(i))
        /\ valid => \A i \in DOMAIN st.keys : proofs[i] # <<>>

\* A batch the node accepts is signed with a key at least as strong as every
\* document type it touches demands in the contract the node fetched, though
\* the client signed under the contract it knew; the master key only where
\* master is demanded (documents_batch_transition get_security_level_requirement).
StrongEnough ==
  \A i \in DOMAIN node :
    LET t == node[i] IN
    t.kind = "documentsBatch" /\ Accepted(t) =>
      LET key == StoredKeys[t.owner][t.keyId] IN
      /\ \A j \in DOMAIN t.types : key.level <= t.contract[t.types[j]]
      /\ key.level = MASTER => \E j \in DOMAIN t.types : t.contract[t.types[j]] = MASTER
=============================================================================
