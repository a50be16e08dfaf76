----------------------- MODULE MCConversationPublish -----------------------
(* Instances of ConversationPublish for TLC: the processes are alike, and  *)
(* so are the conversations.                                               *)
EXTENDS ConversationPublish, TLC

Alike == Permutations(Process) \cup Permutations(Conversation)

=============================================================================
