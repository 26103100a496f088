------------------------ MODULE MCSignedTransitions ------------------------
(* A small instance: two identities, one with a key of every type, one       *)
(* contract with two document types whose demands change.                    *)
EXTENDS SignedTransitions, TLC

CONSTANTS i1, i2, b1, b2, p1, p2, p3

MCIds == {i1, i2}
MCBodies == {b1, b2}
MCPrivateKeys == {p1, p2, p3}

Key(type, priv, level, purpose) ==
  [type |-> type, data |-> DataOf(type, priv), level |-> level, purpose |-> purpose]

MCStoredKeys ==
  i1 :> (0 :> Key("ECDSA_SECP256K1", p1, 0, "AUTHENTICATION")
      @@ 1 :> Key("ECDSA_HASH160", p2, 2, "AUTHENTICATION")
      @@ 2 :> Key("BLS12_381", p2, 3, "AUTHENTICATION")
      @@ 3 :> Key("BIP13_SCRIPT_HASH", p3, 2, "AUTHENTICATION"))
  @@ i2 :> (0 :> Key("ECDSA_SECP256K1", p3, 0, "AUTHENTICATION")
         @@ 1 :> Key("BLS12_381", p3, 3, "DECRYPTION"))
MCMayDisable == {<<i1, 1>>}

Added(id, type, priv) ==
  [id |-> id, type |-> type, data |-> DataOf(type, priv), signature |-> <<>>]
MCKeyLists ==
  {<<>>, <<Added(4, "ECDSA_SECP256K1", p1), Added(5, "BLS12_381", p2)>>}

MCTypeLists == {<<"note">>, <<"note", "deed">>, <<"deed", "note">>}
MCDocTypes == {"note", "deed"}
MCDemands == {[note |-> 3, deed |-> l] : l \in {0, 2, 3}}
MCLockKey == b1 :> p1 @@ b2 :> p2
MCLockId == b1 :> i1 @@ b2 :> i2
=============================================================================
