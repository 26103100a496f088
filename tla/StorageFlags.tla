---------------------------- MODULE StorageFlags ----------------------------
(***************************************************************************)
(* The flags an element carries: who paid for its bytes and in which        *)
(* epochs. They are stored as bytes with the element, combined with the new *)
(* flags when the element is replaced, and split the removed bytes into     *)
(* what each epoch gives back.                                              *)
(*                                                                         *)
(* Flags are a record of the base epoch, the owner (NoOwner for the kinds   *)
(* without one) and, for the multi-epoch kinds, the bytes added in later    *)
(* epochs. A result that may be an error is a record with a field ok.       *)
(***************************************************************************)
EXTENDS Encoding, FiniteSets, SequencesExt, FiniteSetsExt

LOCAL Overlay(f, g) ==
    [x \in DOMAIN f \cup DOMAIN g |-> IF x \in DOMAIN g THEN g[x] ELSE f[x]]
LOCAL Entry(x, n) == [y \in {x} |-> n]
LOCAL Ascending(S) ==
    [i \in 1 .. Cardinality(S) |-> CHOOSE e \in S : Cardinality({d \in S : d < e}) = i - 1]
LOCAL Total(f) == MapThenSumSet(LAMBDA x : f[x], DOMAIN f)

NoOwner == << >>
NoBytes == [e \in {} |-> 0]
\* the all-zero identifier, under which bytes without an owner are listed
SystemId == [i \in 1 .. IdLen |-> 0]
EpochWidth == 1

StorageFlag(base, multi, other, owner) ==
    [base |-> base, multi |-> multi, other |-> other, owner |-> owner]

new_single_epoch(epoch, owner) == StorageFlag(epoch, FALSE, NoBytes, owner)

Combined(f) == [ok |-> TRUE, flags |-> f]
CanNotCombine == [ok |-> FALSE, flags |-> new_single_epoch(0, NoOwner)]

combine_owner_id(ours, theirs) ==
    IF ours.owner # NoOwner THEN ours.owner ELSE theirs.owner

DifferentOwners(ours, theirs) ==
    /\ ours.owner # NoOwner
    /\ theirs.owner # NoOwner
    /\ ours.owner # theirs.owner

combine_non_base_epoch_bytes(ours, theirs) ==
    [e \in DOMAIN ours.other \cup DOMAIN theirs.other |->
        (IF e \in DOMAIN ours.other THEN ours.other[e] ELSE 0)
          + (IF e \in DOMAIN theirs.other THEN theirs.other[e] ELSE 0)]

combine_same_base_epoch(ours, theirs) ==
    IF DifferentOwners(ours, theirs) THEN CanNotCombine
    ELSE Combined(StorageFlag(ours.base, ours.multi \/ theirs.multi,
                              combine_non_base_epoch_bytes(ours, theirs),
                              combine_owner_id(ours, theirs)))

combine_with_higher_base_epoch(ours, theirs, added) ==
    LET other == combine_non_base_epoch_bytes(ours, theirs)
        before == IF theirs.base \in DOMAIN other THEN other[theirs.base] ELSE 0
    IN  IF DifferentOwners(ours, theirs) THEN CanNotCombine
        ELSE Combined(StorageFlag(ours.base, TRUE,
                                  Overlay(other, Entry(theirs.base, before + added)),
                                  combine_owner_id(ours, theirs)))

(* Removed bytes are either a plain amount or sections: bytes by epoch for  *)
(* one identifier. Only sections are taken from the epochs of the flags, and *)
(* an epoch that the flags do not list, the base epoch included, is an error.*)
combine_with_higher_base_epoch_remove_bytes(ours, theirs, removed) ==
    LET other == combine_non_base_epoch_bytes(ours, theirs)
        owner == combine_owner_id(ours, theirs)
        id    == IF owner = NoOwner THEN SystemId ELSE owner
        taken == DOMAIN removed.by
    IN  IF \/ DifferentOwners(ours, theirs)
           \/ /\ removed.sectioned
              /\ \/ removed.id # id
                 \/ ~ (taken \subseteq DOMAIN other)
                 \/ \E e \in taken : other[e] < removed.by[e]
        THEN CanNotCombine
        ELSE Combined(StorageFlag(ours.base, TRUE,
                IF removed.sectioned
                THEN [e \in DOMAIN other |->
                        other[e] - (IF e \in taken THEN removed.by[e] ELSE 0)]
                ELSE other, owner))

combine_added_bytes(ours, theirs, added) ==
    CASE ours.base = theirs.base -> combine_same_base_epoch(ours, theirs)
      [] ours.base < theirs.base -> combine_with_higher_base_epoch(ours, theirs, added)
      [] OTHER -> CanNotCombine

combine_removed_bytes(ours, theirs, removed) ==
    CASE ours.base = theirs.base -> combine_same_base_epoch(ours, theirs)
      [] ours.base < theirs.base ->
            combine_with_higher_base_epoch_remove_bytes(ours, theirs, removed)
      [] OTHER -> CanNotCombine

-----------------------------------------------------------------------------
(* The stored form: the type, the owner, the base epoch, the later epochs.  *)

type_byte(f) == (IF f.multi THEN 1 ELSE 0) + (IF f.owner # NoOwner THEN 2 ELSE 0)

maybe_append_to_vec_epoch_map(f) ==
    FoldLeft(LAMBDA buffer, e : buffer \o <<e>> \o encode_var_vec(f.other[e]),
             << >>, Ascending(DOMAIN f.other))

serialize_flags(f) ==
    <<type_byte(f)>> \o f.owner \o <<f.base>> \o maybe_append_to_vec_epoch_map(f)

(* The loop over the later epochs from a position to the end of the bytes.  *)
BytesPerEpoch(data, start) ==
    LET Read[i \in 1 .. Len(data) + 1] ==
            IF i + EpochWidth > Len(data)
            THEN [ok |-> TRUE, other |-> NoBytes]
            ELSE LET n == decode_var(SubSeq(data, i + EpochWidth, Len(data)))
                 IN  IF ~ n.ok THEN [ok |-> FALSE, other |-> NoBytes]
                     ELSE LET rest == Read[i + EpochWidth + n.used]
                          IN  [ok |-> rest.ok,
                               other |-> Overlay(Entry(data[i], n.value), rest.other)]
    IN  Read[start]

deserialize_single_epoch(data) ==
    IF Len(data) # 1 + EpochWidth THEN CanNotCombine
    ELSE Combined(new_single_epoch(data[2], NoOwner))

deserialize_multi_epoch(data) ==
    IF Len(data) < 1 + EpochWidth + EpochWidth + 1 THEN CanNotCombine
    ELSE LET read == BytesPerEpoch(data, 2 + EpochWidth)
         IN  [ok |-> read.ok, flags |-> StorageFlag(data[2], TRUE, read.other, NoOwner)]

deserialize_single_epoch_owned(data) ==
    IF Len(data) # 1 + IdLen + EpochWidth THEN CanNotCombine
    ELSE Combined(new_single_epoch(data[2 + IdLen], SubSeq(data, 2, 1 + IdLen)))

(* The later epochs are read from just behind the place the base epoch has  *)
(* in flags without an owner: the owner's bytes are taken for epochs too.   *)
deserialize_multi_epoch_owned(data) ==
    IF Len(data) < 1 + IdLen + EpochWidth + EpochWidth + 1 THEN CanNotCombine
    ELSE LET read == BytesPerEpoch(data, 2 + EpochWidth)
         IN  [ok |-> read.ok,
              flags |-> StorageFlag(data[2 + IdLen], TRUE, read.other,
                                    SubSeq(data, 2, 1 + IdLen))]

deserialize_flags(data) ==
    CASE data[1] = 0 -> deserialize_single_epoch(data)
      [] data[1] = 1 -> deserialize_multi_epoch(data)
      [] data[1] = 2 -> deserialize_single_epoch_owned(data)
      [] data[1] = 3 -> deserialize_multi_epoch_owned(data)
      [] OTHER -> CanNotCombine

-----------------------------------------------------------------------------
(* Splitting removed bytes over the epochs they were paid in.               *)

Sections(f, by) ==
    [sectioned |-> TRUE, by |-> by,
     id |-> IF f.owner = NoOwner THEN SystemId ELSE f.owner]

BasicStorageRemoval(n) ==
    [sectioned |-> FALSE, by |-> Entry(0, n), id |-> SystemId]

single_storage_removal(f, n) ==
    Sections(f, IF n > 0 THEN Entry(f.base, n) ELSE NoBytes)

(* What the loop over the later epochs left is taken from the base epoch.   *)
FromBase(f, end) ==
    Sections(f, IF end.left > 0 THEN Overlay(end.by, Entry(f.base, end.left)) ELSE end.by)

(* Mutant: the epoch that covers the rest gives all it has.                 *)
sectioned_storage_removal_Whole(f, n) ==
    LET Take(acc, e) ==
            IF acc.left = 0 THEN acc
            ELSE [left |-> IF f.other[e] < acc.left THEN acc.left - f.other[e] ELSE 0,
                  by   |-> Overlay(acc.by, Entry(e, f.other[e]))]
    IN  FromBase(f, FoldLeft(Take, [left |-> n, by |-> NoBytes], Ascending(DOMAIN f.other)))

(* The epochs are visited from the lowest. An epoch with fewer bytes than   *)
(* are left gives all it has; one that covers the rest ends the loop and is *)
(* recorded with what is left by then, nothing; what no later epoch covers  *)
(* is taken from the base epoch.                                            *)
sectioned_storage_removal(f, n) ==
    LET Take(acc, e) ==
            CASE acc.left = 0 -> acc
              [] acc.left > 0 /\ f.other[e] < acc.left ->
                    [left |-> acc.left - f.other[e],
                     by   |-> Overlay(acc.by, Entry(e, f.other[e]))]
              [] OTHER -> [left |-> 0, by |-> Overlay(acc.by, Entry(e, 0))]
    IN  FromBase(f, FoldLeft(Take, [left |-> n, by |-> NoBytes], Ascending(DOMAIN f.other)))

(* The bytes of the key and of the value are each split on their own.       *)
split_storage_removed_bytes(f, keyBytes, valueBytes) ==
    LET Removal(n) == IF f.multi THEN sectioned_storage_removal(f, n)
                      ELSE single_storage_removal(f, n)
    IN  <<Removal(keyBytes), Removal(valueBytes)>>

total_removed_bytes(removal) == Total(removal.by)
=============================================================================
