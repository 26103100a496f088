---------------------------- MODULE MCIdentities ----------------------------
EXTENDS Identities

Key(id, data, purpose, level, readOnly) ==
  [id |-> id, data |-> data, type |-> "ECDSA_SECP256K1", purpose |-> purpose,
   level |-> level, readOnly |-> readOnly, disabledAt |-> Enabled]

\* A first master key, a read only master key, a key that can withdraw, and
\* a second key with the id of an earlier one.
First == Key(0, "a", "AUTHENTICATION", MASTER, FALSE)
ReadOnly == Key(1, "b", "AUTHENTICATION", MASTER, TRUE)
Spending == Key(1, "c", "AUTHENTICATION", HIGH, FALSE)
Vault == Key(2, "b", "WITHDRAW", CRITICAL, FALSE)
Script == [Key(2, "d", "AUTHENTICATION", MASTER, FALSE) EXCEPT !.type = "BIP13_SCRIPT_HASH"]

MCKeyLists == {<<>>, <<First>>, <<First, Spending>>, <<ReadOnly>>, <<Spending, Vault>>, <<Script>>}
MCSatoshis == [o \in OutPoints |-> 2]
MCTxHeight == [o \in OutPoints |-> 1]
=============================================================================
