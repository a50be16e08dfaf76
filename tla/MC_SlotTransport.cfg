\* Clients stop when they have made all their calls.
SPECIFICATION Spec
CONSTANTS
    Key = {oldOffer, newOffer}
    AnyKey = AnyKey
    Writer = {writer}
    Reader = {firstReader, secondReader}
    Nobody = Nobody
    MaxSlots = 2
    MaxRevision = 2
    Lanes = 2
    RouteChunks = 1
    HeaderChunks = 3
    Chunks = 4
    WriterCalls = 2
    ReaderCalls = 3
    MaxCalls <- CallsOfEach
    MaxTimeouts = 1
    MaxRepeats = 1
    MaxLapses = 1
    MaxExpiries = 1
    MaxEvents = 7
SYMMETRY Symmetry
CONSTRAINT FewEvents
INVARIANTS TypeOK OneRevision AckedWasRead OneEnd ReadersTakeTurns
CHECK_DEADLOCK FALSE
