------------------------------ MODULE Encoding ------------------------------
(***************************************************************************)
(* The byte encodings that storage flags and documents are written with,   *)
(* scaled down: a byte is a digit of radix Base, an integer or a float      *)
(* takes Width bytes, an identifier takes IdLen bytes and an epoch one.     *)
(* They stand for the standard library and the integer-encoding crate,      *)
(* modelled by how drive and dpp use them.                                  *)
(***************************************************************************)
EXTENDS Integers, Sequences

CONSTANTS
    Base,    \* values of one byte; a power of two, 256 in the code
    Width,   \* bytes of an integer or a float, 8 in the code
    IdLen    \* bytes of an identifier, 32 in the code

ASSUME EncodingAssumption ==
    /\ Base \in Nat /\ Base > 3 /\ Base % 2 = 0
    /\ Width \in Nat \ {0} /\ IdLen \in Nat \ {0}

Half == Base \div 2
Byte == 0 .. (Base - 1)

(* i64::to_be_bytes: two's complement, the most significant byte first.     *)
to_be_bytes(n) ==
    [i \in 1 .. Width |-> ((n % Base^Width) \div Base^(Width - i)) % Base]

Unsigned(s) ==
    LET Sum[i \in 0 .. Len(s)] == IF i = 0 THEN 0 ELSE Base * Sum[i - 1] + s[i]
    IN  Sum[Len(s)]

(* The integer that to_be_bytes wrote.                                      *)
from_be_bytes(s) ==
    IF s[1] >= Half THEN Unsigned(s) - Base^Width ELSE Unsigned(s)

(* A variable-length integer keeps half a byte per byte; the other half     *)
(* says that more bytes follow. Two bytes hold every length modelled.       *)
MaxVar == 2

encode_var_vec(n) ==
    IF n < Half THEN <<n>> ELSE <<Half + (n % Half), n \div Half>>

(* decode_var: how many bytes were used and the value; no result when no    *)
(* byte among the first MaxVar ends the integer.                            *)
decode_var(s) ==
    LET ends == {k \in 1 .. Len(s) : k <= MaxVar /\ s[k] < Half}
    IN  IF ends = {}
        THEN [ok |-> FALSE, value |-> 0, used |-> 0]
        ELSE LET k == CHOOSE k \in ends : \A j \in ends : k <= j
             IN  [ok |-> TRUE, used |-> k,
                  value |-> IF k = 1 THEN s[1] ELSE (s[1] % Half) + Half * s[2]]
=============================================================================
