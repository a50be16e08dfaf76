\* The writer ends one offer and puts another while a reader discovers.
SPECIFICATION Spec
CONSTANTS
    Key = {oldOffer, newOffer}
    AnyKey = AnyKey
    Writer = {writer}
    Reader = {reader}
    Nobody = Nobody
    MaxSlots = 2
    MaxRevision = 2
    Lanes = 2
    RouteChunks = 1
    HeaderChunks = 3
    Chunks = 4
    WriterCalls = 3
    ReaderCalls = 1
    MaxEvents = 7
    MaxCalls <- CallsOfEach
    MaxTimeouts = 0
    MaxRepeats = 0
    MaxLapses = 0
    MaxExpiries = 0
SYMMETRY Symmetry
INVARIANTS NothingSpliced
CHECK_DEADLOCK FALSE
