------------------------------ MODULE Account ------------------------------
(* What the publishers of a chat account have in common: the conversations *)
(* of the account, and the commands that work on one receipt.              *)
EXTENDS Integers

CONSTANTS
    Conversation,    \* conversations the provider may hold
    NoConversation,  \* none of them
    Process,         \* commands that may run at once
    NoProcess        \* none of them

ASSUME ConversationAssumption == NoConversation \notin Conversation

ASSUME ProcessAssumption == NoProcess \notin Process

MaybeConversation == Conversation \cup {NoConversation}

=============================================================================
