\* Nothing happens any more when a receipt was begun by nobody.
SPECIFICATION Spec
CONSTANTS
    Conversation = {conv1, conv2}
    NoConversation = NoConversation
    Process = {cmdA, cmdB, cmdC}
    NoProcess = NoProcess
    ConvertsPublicly = TRUE
SYMMETRY Alike
INVARIANTS TypeOK Readable ReceiptTells OwnConversationOnly NothingPublishedBehind
PROPERTIES RequestsAreOneShot ImplementsPublication
CHECK_DEADLOCK FALSE
