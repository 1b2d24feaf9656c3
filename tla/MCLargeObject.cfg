\* Objects of up to two bytes in chunks of at most two; every read size, every
\* way to cut a reply into chunks and every place where the link may break.  The
\* largest buffer is larger than a header can announce.
SPECIFICATION Spec
CONSTANTS
    Objects = {1, 2}
    Capacities = {1, 2, 3}
    Offsets <- MCOffsets
    ChunkSize = 2
    MaxInt32 = 2
    MaxBytes = 2
    MaxDescriptor = 2
    MaxSessions = 2
    Faults = {"link", "refuse", "malformed"}
INVARIANTS
    ConfirmedStored
    ReadsTruthful
    DescriptorsKnown
PROPERTY
    ReleaseTruthful
CHECK_DEADLOCK FALSE
