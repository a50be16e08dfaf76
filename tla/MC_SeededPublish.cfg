\* Nothing happens any more when a receipt was begun by nobody.
SPECIFICATION Spec
CONSTANTS
    Conversation = {conv1, conv2, conv3}
    NoConversation = NoConversation
    Process = {cmdA, cmdB, cmdC}
    NoProcess = NoProcess
SYMMETRY Alike
INVARIANTS TypeOK Readable ReceiptTells OwnCloneOnly
PROPERTIES RequestsAreOneShot
CHECK_DEADLOCK FALSE
