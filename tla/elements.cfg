\* Storage operations on the elements of two documents: codec, flags, fees.
CONSTANTS
    Base = 16
    Width = 2
    IdLen = 2
    MaxIndexSize = 8
    InnerName = "k"
    Ids <- MCIds
    OwnerOf <- MCOwnerOf
    Owned <- MCOwned
    Kinds <- MCKinds
    TypeName = "doc"
    Pairs <- MCPairs
    CreditPerByte = 2
    MaxEpoch = 2
    MaxBatches = 3
SPECIFICATION Spec
CHECK_DEADLOCK FALSE
INVARIANTS RefundsBounded BatchIsSequence BytesFaithful RefusedOnlyFor
